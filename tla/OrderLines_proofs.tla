-------------------------- MODULE OrderLines_proofs --------------------------
(* Theorems about OrderLines, for every catalog and every list of requests. *)
EXTENDS OrderLines, FiniteSetTheorems, TLAPS

-----------------------------------------------------------------------------
(***************************************************************************)
(* Sums over a finite set.  SumFunctionOnSet is a recursive function on    *)
(* the subsets, each of which loses the element that CHOOSE takes.  What   *)
(* holds of every subset is shown by the smallest subset of which it would *)
(* not: the strict inclusion of finite sets is well-founded.               *)
(***************************************************************************)
\* The element a sum over s begins with.
Pick(s) == CHOOSE x \in s : TRUE

\* g holds the sums of f over all subsets of S.
SumsOver(g, f, S) ==
    g = [s \in SUBSET S |-> IF s = {} THEN 0 ELSE f[Pick(s)] + g[s \ {Pick(s)}]]

SumsOf(f, S) == CHOOSE g : SumsOver(g, f, S)

\* The sum is the recursive function's value.
LEMMA SumIs ==
    ASSUME NEW f, NEW S
    PROVE  SumFunctionOnSet(f, S) = SumsOf(f, S)[S]
BY DEF SumFunctionOnSet, FoldFunctionOnSet, MapThenFoldSet, SumsOf, SumsOver, Pick

\* A set of subsets of a finite set has one that contains no other.
LEMMA Smallest ==
    ASSUME NEW S, IsFiniteSet(S), NEW B, B \subseteq SUBSET S, B # {}
    PROVE  \E T \in B : \A U \in B : U \subseteq T => U = T
<1>1. IsWellFoundedOn(StrictSubsetOrdering(S), FiniteSubsetsOf(S))
  BY FS_StrictSubsetOrderingWellFounded
<1>2. FiniteSubsetsOf(S) = SUBSET S
  BY FS_FiniteSubsetsOfFinite
<1>3. PICK T \in B : \A U \in B : ~ (<<U, T>> \in StrictSubsetOrdering(S))
  BY <1>1, <1>2, WFMin
<1>4. \A U \in B : U \subseteq T => U = T
  BY <1>3 DEF StrictSubsetOrdering
<1>5. QED
  BY <1>4

\* Such a function has at most one value for each subset.
LEMMA SumsAgree ==
    ASSUME NEW f, NEW S, IsFiniteSet(S), NEW T, T \subseteq S,
           NEW g, SumsOver(g, f, S), NEW h, SumsOver(h, f, T)
    PROVE  \A s \in SUBSET T : g[s] = h[s]
<1> SUFFICES ASSUME \E s \in SUBSET T : g[s] # h[s]
             PROVE  FALSE
  OBVIOUS
<1> DEFINE B == {s \in SUBSET T : g[s] # h[s]}
<1>1. PICK s \in B : \A U \in B : U \subseteq s => U = s
  <2>1. IsFiniteSet(T)
    BY FS_Subset
  <2>2. B \subseteq SUBSET T /\ B # {}
    OBVIOUS
  <2> HIDE DEF B
  <2>3. QED
    BY <2>1, <2>2, Smallest
<1>2. CASE s = {}
  BY <1>1, <1>2 DEF SumsOver
<1>3. CASE s # {}
  <2>1. Pick(s) \in s
    BY <1>3 DEF Pick
  <2>2. g[s \ {Pick(s)}] = h[s \ {Pick(s)}]
    BY <1>1, <2>1
  <2>3. /\ g[s] = f[Pick(s)] + g[s \ {Pick(s)}]
        /\ h[s] = f[Pick(s)] + h[s \ {Pick(s)}]
    BY <1>1, <1>3 DEF SumsOver
  <2>4. QED
    BY <1>1, <2>2, <2>3
<1>4. QED
  BY <1>2, <1>3

\* And there is one: from those of the proper subsets.
LEMMA SumsExist ==
    ASSUME NEW f, NEW S, IsFiniteSet(S)
    PROVE  \A T \in SUBSET S : SumsOver(SumsOf(f, T), f, T)
<1> SUFFICES ASSUME \E T \in SUBSET S : \A g : ~SumsOver(g, f, T)
             PROVE  FALSE
  BY DEF SumsOf
<1> DEFINE B == {T \in SUBSET S : \A g : ~SumsOver(g, f, T)}
<1>1. PICK T \in B : \A U \in B : U \subseteq T => U = T
  <2>1. B \subseteq SUBSET S /\ B # {}
    OBVIOUS
  <2> HIDE DEF B
  <2>2. QED
    BY <2>1, Smallest
<1>2. ASSUME NEW U \in SUBSET T, U # T
      PROVE  SumsOver(SumsOf(f, U), f, U)
  BY <1>1, <1>2 DEF SumsOf
<1> DEFINE h(s) == SumsOf(f, s)[s]
           g == [s \in SUBSET T |-> IF s = {} THEN 0 ELSE f[Pick(s)] + h(s \ {Pick(s)})]
<1>3. ASSUME NEW U \in SUBSET T, U # T
      PROVE  g[U] = h(U)
  <2>1. CASE U = {}
    BY <1>2, <2>1, <1>3 DEF SumsOver
  <2>2. CASE U # {}
    <3> DEFINE V == U \ {Pick(U)}
    <3>1. Pick(U) \in U /\ V \in SUBSET U /\ V # U
      BY <2>2 DEF Pick
    <3>2. SumsOver(SumsOf(f, U), f, U) /\ SumsOver(SumsOf(f, V), f, V)
      BY <1>2, <1>3, <3>1
    <3>3. IsFiniteSet(U)
      BY FS_Subset, <1>1
    <3>4. SumsOf(f, U)[V] = SumsOf(f, V)[V]
      BY <3>1, <3>2, <3>3, SumsAgree
    <3>5. SumsOf(f, U)[U] = f[Pick(U)] + SumsOf(f, U)[V]
      BY <2>2, <3>2 DEF SumsOver
    <3>6. g[U] = f[Pick(U)] + h(V)
      BY <2>2
    <3>7. QED
      BY <3>4, <3>5, <3>6
  <2>3. QED
    BY <2>1, <2>2
<1>4. ASSUME NEW s \in SUBSET T, s # {}
      PROVE  h(s \ {Pick(s)}) = g[s \ {Pick(s)}]
  <2>1. s \ {Pick(s)} \in SUBSET T /\ s \ {Pick(s)} # T
    BY <1>4 DEF Pick
  <2>2. QED
    BY <1>3, <2>1
<1> HIDE DEF h
<1>5. g = [s \in SUBSET T |-> IF s = {} THEN 0 ELSE f[Pick(s)] + g[s \ {Pick(s)}]]
  BY <1>4
<1>6. SumsOver(g, f, T)
  BY <1>5 DEF SumsOver
<1>7. QED
  BY <1>1, <1>6

\* The sum over no element is 0.
LEMMA SumOfNone ==
    ASSUME NEW f
    PROVE  SumFunctionOnSet(f, {}) = 0
<1>1. SumsOver(SumsOf(f, {}), f, {})
  BY SumsExist, FS_EmptySet
<1>2. QED
  BY <1>1, SumIs DEF SumsOver

\* The sum over a nonempty set is its first element and the sum of the rest.
LEMMA SumPicks ==
    ASSUME NEW f, NEW S, IsFiniteSet(S), S # {}
    PROVE  /\ Pick(S) \in S
           /\ SumFunctionOnSet(f, S) = f[Pick(S)] + SumFunctionOnSet(f, S \ {Pick(S)})
<1> DEFINE T == S \ {Pick(S)}
<1>1. Pick(S) \in S /\ T \in SUBSET S
  BY DEF Pick
<1>2. SumsOver(SumsOf(f, S), f, S) /\ SumsOver(SumsOf(f, T), f, T)
  BY <1>1, SumsExist
<1>3. SumsOf(f, S)[T] = SumsOf(f, T)[T]
  BY <1>1, <1>2, SumsAgree
<1>4. SumsOf(f, S)[S] = f[Pick(S)] + SumsOf(f, S)[T]
  BY <1>2 DEF SumsOver
<1>5. QED
  BY <1>1, <1>3, <1>4, SumIs

\* A sum of integers is an integer.
LEMMA SumIsInt ==
    ASSUME NEW f, NEW S, IsFiniteSet(S), \A x \in S : f[x] \in Int
    PROVE  SumFunctionOnSet(f, S) \in Int
<1> DEFINE B == {T \in SUBSET S : SumFunctionOnSet(f, T) \notin Int}
<1> SUFFICES ASSUME B # {}
             PROVE  FALSE
  OBVIOUS
<1>1. PICK T \in B : \A U \in B : U \subseteq T => U = T
  <2>1. B \subseteq SUBSET S /\ B # {}
    OBVIOUS
  <2> HIDE DEF B
  <2>2. QED
    BY <2>1, Smallest
<1>2. IsFiniteSet(T)
  BY FS_Subset
<1>3. T # {}
  <2>1. SumFunctionOnSet(f, {}) \in Int
    BY SumOfNone
  <2>2. QED
    BY <1>1, <2>1
<1>4. /\ Pick(T) \in T
      /\ SumFunctionOnSet(f, T) = f[Pick(T)] + SumFunctionOnSet(f, T \ {Pick(T)})
  BY <1>2, <1>3, SumPicks
<1>5. SumFunctionOnSet(f, T \ {Pick(T)}) \in Int
  BY <1>1, <1>4
<1>6. QED
  BY <1>1, <1>4, <1>5

\* A sum of naturals is a natural.
LEMMA SumIsNat ==
    ASSUME NEW f, NEW S, IsFiniteSet(S), \A x \in S : f[x] \in Nat
    PROVE  SumFunctionOnSet(f, S) \in Nat
<1> DEFINE B == {T \in SUBSET S : SumFunctionOnSet(f, T) \notin Nat}
<1> SUFFICES ASSUME B # {}
             PROVE  FALSE
  OBVIOUS
<1>1. PICK T \in B : \A U \in B : U \subseteq T => U = T
  <2>1. B \subseteq SUBSET S /\ B # {}
    OBVIOUS
  <2> HIDE DEF B
  <2>2. QED
    BY <2>1, Smallest
<1>2. IsFiniteSet(T)
  BY FS_Subset
<1>3. T # {}
  <2>1. SumFunctionOnSet(f, {}) \in Nat
    BY SumOfNone
  <2>2. QED
    BY <1>1, <2>1
<1>4. /\ Pick(T) \in T
      /\ SumFunctionOnSet(f, T) = f[Pick(T)] + SumFunctionOnSet(f, T \ {Pick(T)})
  BY <1>2, <1>3, SumPicks
<1>5. SumFunctionOnSet(f, T \ {Pick(T)}) \in Nat
  BY <1>1, <1>4
<1>6. QED
  BY <1>1, <1>4, <1>5

\* Any element may come first.
LEMMA SumWithout ==
    ASSUME NEW f, NEW S, IsFiniteSet(S), \A x \in S : f[x] \in Int, NEW i \in S
    PROVE  SumFunctionOnSet(f, S) = f[i] + SumFunctionOnSet(f, S \ {i})
<1> DEFINE Sum(T) == SumFunctionOnSet(f, T)
           B == {T \in SUBSET S : \E x \in T : Sum(T) # f[x] + Sum(T \ {x})}
<1> SUFFICES ASSUME B # {}
             PROVE  FALSE
  OBVIOUS
<1>1. PICK T \in B : \A U \in B : U \subseteq T => U = T
  <2>1. B \subseteq SUBSET S /\ B # {}
    OBVIOUS
  <2> HIDE DEF B
  <2>2. QED
    BY <2>1, Smallest
<1>2. PICK x \in T : Sum(T) # f[x] + Sum(T \ {x})
  BY <1>1
<1>3. IsFiniteSet(T) /\ T # {} /\ IsFiniteSet(T \ {x})
  BY FS_Subset
<1> DEFINE c == Pick(T)
<1>4. c \in T /\ Sum(T) = f[c] + Sum(T \ {c})
  BY <1>3, SumPicks
<1> HIDE DEF Sum, c
<1>5. c # x
  BY <1>2, <1>4
<1>6. Sum(T \ {c}) = f[x] + Sum((T \ {c}) \ {x})
  BY <1>1, <1>4, <1>5
<1>7. Sum(T \ {x}) = f[c] + Sum((T \ {x}) \ {c})
  BY <1>1, <1>4, <1>5
<1>8. Sum((T \ {c}) \ {x}) = Sum((T \ {x}) \ {c})
  <2>1. (T \ {c}) \ {x} = (T \ {x}) \ {c}
    OBVIOUS
  <2>2. QED
    BY <2>1
<1>9. /\ f[c] \in Int /\ f[x] \in Int
      /\ Sum((T \ {x}) \ {c}) \in Int
  <2>1. IsFiniteSet((T \ {x}) \ {c})
    BY <1>3, FS_Subset
  <2>2. QED
    BY <2>1, <1>1, <1>4, SumIsInt DEF Sum
<1>10. QED
  BY <1>2, <1>4, <1>6, <1>7, <1>8, <1>9

\* Functions that agree have the same sum.
LEMMA SumSame ==
    ASSUME NEW f, NEW g, NEW S, IsFiniteSet(S), \A x \in S : f[x] = g[x]
    PROVE  SumFunctionOnSet(f, S) = SumFunctionOnSet(g, S)
<1> DEFINE B == {T \in SUBSET S : SumFunctionOnSet(f, T) # SumFunctionOnSet(g, T)}
<1> SUFFICES ASSUME B # {}
             PROVE  FALSE
  OBVIOUS
<1>1. PICK T \in B : \A U \in B : U \subseteq T => U = T
  <2>1. B \subseteq SUBSET S /\ B # {}
    OBVIOUS
  <2> HIDE DEF B
  <2>2. QED
    BY <2>1, Smallest
<1>2. IsFiniteSet(T)
  BY FS_Subset
<1>3. T # {}
  <2>1. SumFunctionOnSet(f, {}) = SumFunctionOnSet(g, {})
    BY SumOfNone
  <2>2. QED
    BY <1>1, <2>1
<1>4. /\ Pick(T) \in T
      /\ SumFunctionOnSet(f, T) = f[Pick(T)] + SumFunctionOnSet(f, T \ {Pick(T)})
      /\ SumFunctionOnSet(g, T) = g[Pick(T)] + SumFunctionOnSet(g, T \ {Pick(T)})
  BY <1>2, <1>3, SumPicks
<1>5. SumFunctionOnSet(f, T \ {Pick(T)}) = SumFunctionOnSet(g, T \ {Pick(T)})
  BY <1>1, <1>4
<1>6. QED
  BY <1>1, <1>4, <1>5

\* A sum changes by what one element changes.
LEMMA SumChanged ==
    ASSUME NEW f, NEW g, NEW S, IsFiniteSet(S), NEW i \in S,
           \A x \in S : f[x] \in Int /\ g[x] \in Int,
           \A x \in S \ {i} : f[x] = g[x]
    PROVE  SumFunctionOnSet(g, S) = SumFunctionOnSet(f, S) + (g[i] - f[i])
<1> DEFINE T == S \ {i}
<1>1. IsFiniteSet(T)
  BY FS_Subset
<1>2. /\ SumFunctionOnSet(f, S) = f[i] + SumFunctionOnSet(f, T)
      /\ SumFunctionOnSet(g, S) = g[i] + SumFunctionOnSet(g, T)
  BY SumWithout
<1>3. SumFunctionOnSet(f, T) = SumFunctionOnSet(g, T)
  BY <1>1, SumSame
<1>4. SumFunctionOnSet(f, T) \in Int
  BY <1>1, SumIsInt
<1>5. QED
  BY <1>2, <1>3, <1>4

\* The sum of two functions' sums is the sum of their sums.
LEMMA SumOfBoth ==
    ASSUME NEW f, NEW g, NEW h, NEW S, IsFiniteSet(S),
           \A x \in S : f[x] \in Int /\ g[x] \in Int /\ h[x] = f[x] + g[x]
    PROVE  SumFunctionOnSet(h, S) = SumFunctionOnSet(f, S) + SumFunctionOnSet(g, S)
<1> DEFINE Adds(T) == SumFunctionOnSet(h, T) = SumFunctionOnSet(f, T) + SumFunctionOnSet(g, T)
           B == {T \in SUBSET S : ~Adds(T)}
<1> SUFFICES ASSUME B # {}
             PROVE  FALSE
  OBVIOUS
<1>1. PICK T \in B : \A U \in B : U \subseteq T => U = T
  <2>1. B \subseteq SUBSET S /\ B # {}
    OBVIOUS
  <2> HIDE DEF B
  <2>2. QED
    BY <2>1, Smallest
<1>2. IsFiniteSet(T)
  BY FS_Subset
<1>3. T # {}
  <2>1. Adds({})
    BY SumOfNone
  <2>2. QED
    BY <1>1, <2>1
<1> DEFINE R == T \ {Pick(T)}
<1>4. /\ Pick(T) \in T
      /\ SumFunctionOnSet(f, T) = f[Pick(T)] + SumFunctionOnSet(f, R)
      /\ SumFunctionOnSet(g, T) = g[Pick(T)] + SumFunctionOnSet(g, R)
      /\ SumFunctionOnSet(h, T) = h[Pick(T)] + SumFunctionOnSet(h, R)
  BY <1>2, <1>3, SumPicks
<1>5. SumFunctionOnSet(f, R) \in Int /\ SumFunctionOnSet(g, R) \in Int
  <2>1. IsFiniteSet(R)
    BY <1>2, FS_Subset
  <2>2. QED
    BY <2>1, SumIsInt
<1>6. Adds(R)
  BY <1>1, <1>4
<1>7. /\ f[Pick(T)] \in Int /\ g[Pick(T)] \in Int
      /\ h[Pick(T)] = f[Pick(T)] + g[Pick(T)]
  BY <1>4
<1>8. Adds(T)
  BY <1>4, <1>5, <1>6, <1>7
<1>9. QED
  BY <1>1, <1>8

\* The sum of nothing but zeros is 0.
LEMMA SumOfZeros ==
    ASSUME NEW f, NEW S, IsFiniteSet(S), \A x \in S : f[x] = 0
    PROVE  SumFunctionOnSet(f, S) = 0
<1>1. \A x \in S : f[x] \in Int /\ f[x] = f[x] + f[x]
  OBVIOUS
<1>2. SumFunctionOnSet(f, S) = SumFunctionOnSet(f, S) + SumFunctionOnSet(f, S)
  BY <1>1, SumOfBoth
<1>3. SumFunctionOnSet(f, S) \in Int
  BY <1>1, SumIsInt
<1> DEFINE s == SumFunctionOnSet(f, S)
<1>4. s \in Int /\ s = s + s
  BY <1>2, <1>3
<1> HIDE DEF s
<1>5. s = 0
  BY <1>4
<1>6. QED
  BY <1>5 DEF s

-----------------------------------------------------------------------------

RowFields == {"type", "hold", "pricing", "price", "quantity", "held", "fee"}

\* The tables are records of these fields; what stock and eventFees are is not needed.
Shape(d) ==
    /\ DOMAIN d = {"line", "eventFees", "stock", "expires", "box"}
    /\ DOMAIN d.line = Lines
    /\ d.line = [l \in Lines |-> d.line[l]]
    /\ \A l \in Lines : DOMAIN d.line[l] = RowFields

\* A line counts at least what it holds; if nothing changed under it, it counts
\* exactly that, has the price in force, and pays no fee if it is a comp's.
Whole(row, box) ==
    /\ row.type \in Types /\ row.hold \in Holds \cup {Null}
    /\ row.quantity \in Nat /\ row.held \in Nat /\ row.held <= row.quantity
    /\ row.type \notin changed =>
          row.held = row.quantity /\ row.pricing = CurrentPricing(row.type, box)
    /\ row.hold \notin changed /\ IsComp(row) => row.fee = NoFee

Sound(d) ==
    /\ Shape(d)
    /\ \A l \in Lines : d.line[l] = NoLine \/ Whole(d.line[l], d.box)
    /\ InCart(d) # {} => d.expires

Items == [type : Types, hold : Holds \cup {Null}, quantity : Nat]

Asking ==
    /\ DOMAIN req = {"stage", "items", "others", "todo", "used", "checks"}
    /\ req.items \in Seq(Items)

Organized ==
    /\ current \in [Types -> [Kinds -> Pricings \cup {Null}]]
    /\ holdType \in [Holds -> {"Discount", "Comp"}]

LinesInv == Sound(db) /\ Sound(tx) /\ Asking /\ Organized /\ FeesFollow

-----------------------------------------------------------------------------
(* What the operations of the model layer do to a line.                    *)

SameRow(r, s) == r.type = s.type /\ r.hold = s.hold /\ r.pricing = s.pricing /\ r.fee = s.fee

\* d and c differ in line l and in the stock at most.
OnlyLine(d, c, l) ==
    /\ c.expires = d.expires /\ c.box = d.box
    /\ \A k \in Lines \ {l} : c.line[k] = d.line[k]

LEMMA NoLineIsNone ==
    /\ DOMAIN NoLine = RowFields /\ NoLine.type = Null /\ NoLine.fee = NoFee
    /\ \A row : row.type \in Types => row # NoLine
  BY CatalogAssumption DEF NoLine, RowFields

LEMMA ReserveLine ==
    ASSUME NEW d, Shape(d), NEW l \in Lines, NEW n
    PROVE  LET c == Reserve(d, l, n)
           IN  /\ Shape(c) /\ OnlyLine(d, c, l) /\ SameRow(c.line[l], d.line[l])
               /\ c.line[l].held = d.line[l].held + n
               /\ c.line[l].quantity = d.line[l].quantity
  BY DEF Reserve, Shape, RowFields, OnlyLine, SameRow

LEMMA ReleaseLine ==
    ASSUME NEW d, Shape(d), NEW l \in Lines, NEW n
    PROVE  LET c == Release(d, l, n)
           IN  /\ Shape(c) /\ OnlyLine(d, c, l) /\ SameRow(c.line[l], d.line[l])
               /\ c.line[l].held = d.line[l].held - n
               /\ c.line[l].quantity = d.line[l].quantity
  BY DEF Release, Shape, RowFields, OnlyLine, SameRow

LEMMA CountLine ==
    ASSUME NEW d, Shape(d), NEW l \in Lines, NEW n
    PROVE  LET c == Count(d, l, n)
           IN  /\ Shape(c) /\ OnlyLine(d, c, l) /\ SameRow(c.line[l], d.line[l])
               /\ c.line[l].held = d.line[l].held
               /\ c.line[l].quantity = n
  BY DEF Count, Shape, RowFields, OnlyLine, SameRow

LEMMA DestroyLine ==
    ASSUME NEW d, Shape(d), NEW l \in Lines
    PROVE  LET c == Destroy(d, l)
           IN  Shape(c) /\ OnlyLine(d, c, l) /\ c.line[l] = NoLine
  BY NoLineIsNone DEF Destroy, Shape, OnlyLine

LEMMA InsertLine ==
    ASSUME NEW d, Shape(d), NEW l \in Lines, NEW item, NEW n \in Nat
    PROVE  LET c == Insert(d, l, item, n)
           IN  /\ Shape(c) /\ OnlyLine(d, c, l)
               /\ c.line[l].type = item.type /\ c.line[l].hold = item.hold
               /\ c.line[l].pricing = CurrentPricing(item.type, d.box)
               /\ c.line[l].quantity = item.quantity /\ c.line[l].held = n
               /\ c.line[l].fee = NoFee
<1> DEFINE row == [type |-> item.type, hold |-> item.hold,
                   pricing |-> CurrentPricing(item.type, d.box),
                   price |-> PriceFor(CurrentPricing(item.type, d.box), item.hold),
                   quantity |-> item.quantity, held |-> 0, fee |-> NoFee]
           c == [d EXCEPT !.line[l] = row]
<1>1. DOMAIN row = RowFields
  BY DEF RowFields
<1>2. Shape(c) /\ OnlyLine(d, c, l) /\ c.line[l] = row
  <2> HIDE DEF row
  <2> QED BY <1>1 DEF Shape, OnlyLine
<1>3. Insert(d, l, item, n) = Reserve(c, l, n)
  BY DEF Insert
<1> HIDE DEF c
<1>4. row.held + n = n
  OBVIOUS
<1> QED BY <1>2, <1>3, <1>4, ReserveLine DEF OnlyLine, SameRow

-----------------------------------------------------------------------------
(* A change of one line.                                                   *)

LEMMA OneLineSound ==
    ASSUME NEW d, NEW c, Sound(d), Shape(c), NEW l \in Lines, OnlyLine(d, c, l),
           \/ c.line[l] = NoLine
           \/ Whole(c.line[l], c.box) /\ c.expires
    PROVE  Sound(c)
<1>1. ASSUME NEW k \in Lines PROVE c.line[k] = NoLine \/ Whole(c.line[k], c.box)
  BY DEF Sound, OnlyLine
<1>2. InCart(c) # {} => c.expires
  BY DEF Sound, OnlyLine, InCart
<1> QED BY <1>1, <1>2 DEF Sound

LEMMA SameRowWhole ==
    ASSUME NEW r, NEW s, NEW box, Whole(r, box), SameRow(s, r),
           s.quantity \in Nat, s.held \in Nat,
           s.quantity - s.held = r.quantity - r.held
    PROVE  Whole(s, box)
  BY DEF Whole, SameRow, IsComp

\* A row that counts a ticket is in the cart, and a cart in use expires.
LEMMA InUse ==
    ASSUME NEW d, Sound(d), NEW l \in Lines, d.line[l].type \in Types
    PROVE  Whole(d.line[l], d.box) /\ d.expires
  BY NoLineIsNone DEF Sound, InCart

-----------------------------------------------------------------------------
(* The steps of a request.                                                 *)

LEMMA MatchedRow ==
    ASSUME Sound(tx), Asking, NEW l \in Lines, NEW k, VisitWith(l, k)
    PROVE  /\ req.items[k] \in Items
           /\ tx.line[l].type = req.items[k].type /\ tx.line[l].hold = req.items[k].hold
           /\ Whole(tx.line[l], tx.box) /\ tx.expires
<1>1. k \in DOMAIN req.items /\ PoolOf(req.items[k]) = PoolOf(tx.line[l])
  BY DEF VisitWith, First, Matching
<1>2. req.items[k] \in Items
  BY <1>1 DEF Asking
<1>3. tx.line[l].type = req.items[k].type /\ tx.line[l].hold = req.items[k].hold
  BY <1>1 DEF PoolOf
<1> QED BY <1>2, <1>3, InUse DEF Items

LEMMA RemoveSound ==
    ASSUME Sound(tx), NEW l \in Lines, NEW n
    PROVE  Sound(Destroy(Release(tx, l, n), l))
<1> DEFINE c == Release(tx, l, n)
<1>1. Shape(c) /\ OnlyLine(tx, c, l)
  BY ReleaseLine DEF Sound
<1> HIDE DEF c
<1>2. LET e == Destroy(c, l) IN Shape(e) /\ OnlyLine(c, e, l) /\ e.line[l] = NoLine
  BY <1>1, DestroyLine
<1>3. OnlyLine(tx, Destroy(c, l), l)
  BY <1>1, <1>2 DEF OnlyLine
<1>4. Sound(Destroy(c, l))
  BY <1>2, <1>3, OneLineSound
<1> QED BY <1>4 DEF c

LEMMA ReduceSound ==
    ASSUME Sound(tx), NEW l \in Lines, NEW n \in Nat, Whole(tx.line[l], tx.box), tx.expires,
           tx.line[l].quantity > n, CanRelease(tx, l, tx.line[l].quantity - n)
    PROVE  Sound(Count(Release(tx, l, tx.line[l].quantity - n), l, n))
<1> DEFINE less == tx.line[l].quantity - n
           c == Release(tx, l, less)
           e == Count(c, l, n)
<1>1. /\ Shape(c) /\ OnlyLine(tx, c, l) /\ SameRow(c.line[l], tx.line[l])
      /\ c.line[l].held = tx.line[l].held - less
  BY ReleaseLine DEF Sound
<1>2. /\ Shape(e) /\ OnlyLine(c, e, l) /\ SameRow(e.line[l], c.line[l])
      /\ e.line[l].held = c.line[l].held /\ e.line[l].quantity = n
  <2> HIDE DEF c
  <2> QED BY <1>1, CountLine
<1> HIDE DEF c, e
<1>3. OnlyLine(tx, e, l) /\ SameRow(e.line[l], tx.line[l])
  BY <1>1, <1>2 DEF OnlyLine, SameRow
<1>4. /\ tx.line[l].quantity \in Nat /\ tx.line[l].held \in Nat
      /\ tx.line[l].held >= less
  BY DEF Whole, CanRelease
<1>5. /\ e.line[l].quantity = n /\ e.line[l].held = tx.line[l].held - less
  BY <1>1, <1>2
<1>6. /\ tx.line[l].held - less \in Nat
      /\ n - (tx.line[l].held - less) = tx.line[l].quantity - tx.line[l].held
  BY <1>4
<1>7. Whole(e.line[l], tx.box)
  BY <1>3, <1>5, <1>6, SameRowWhole
<1>8. Sound(e)
  BY <1>2, <1>3, <1>7, OneLineSound DEF OnlyLine
<1> QED BY <1>8 DEF c, e

LEMMA RaiseSound ==
    ASSUME Sound(tx), NEW l \in Lines, NEW n \in Nat, Whole(tx.line[l], tx.box), tx.expires,
           n > tx.line[l].quantity
    PROVE  Sound(Count(Reserve(tx, l, n - tx.line[l].quantity), l, n))
<1> DEFINE more == n - tx.line[l].quantity
           c == Reserve(tx, l, more)
           e == Count(c, l, n)
<1>1. /\ Shape(c) /\ OnlyLine(tx, c, l) /\ SameRow(c.line[l], tx.line[l])
      /\ c.line[l].held = tx.line[l].held + more
  BY ReserveLine DEF Sound
<1>2. /\ Shape(e) /\ OnlyLine(c, e, l) /\ SameRow(e.line[l], c.line[l])
      /\ e.line[l].held = c.line[l].held /\ e.line[l].quantity = n
  <2> HIDE DEF c
  <2> QED BY <1>1, CountLine
<1> HIDE DEF c, e
<1>3. OnlyLine(tx, e, l) /\ SameRow(e.line[l], tx.line[l])
  BY <1>1, <1>2 DEF OnlyLine, SameRow
<1>4. tx.line[l].quantity \in Nat /\ tx.line[l].held \in Nat
  BY DEF Whole
<1>5. e.line[l].quantity = n /\ e.line[l].held = tx.line[l].held + more
  BY <1>1, <1>2
<1>6. /\ tx.line[l].held + more \in Nat
      /\ n - (tx.line[l].held + more) = tx.line[l].quantity - tx.line[l].held
  BY <1>4
<1>7. Whole(e.line[l], tx.box)
  BY <1>3, <1>5, <1>6, SameRowWhole
<1>8. Sound(e)
  BY <1>2, <1>3, <1>7, OneLineSound DEF OnlyLine
<1> QED BY <1>8 DEF c, e

LEMMA InsertSound ==
    ASSUME Sound(tx), tx.expires, NEW l \in Lines, NEW item \in Items, NEW n \in Nat,
           n <= item.quantity, item.type \notin changed => n = item.quantity
    PROVE  Sound(Insert(tx, l, item, n))
<1> DEFINE c == Insert(tx, l, item, n)
<1>1. /\ Shape(c) /\ OnlyLine(tx, c, l)
      /\ c.line[l].type = item.type /\ c.line[l].hold = item.hold
      /\ c.line[l].pricing = CurrentPricing(item.type, tx.box)
      /\ c.line[l].quantity = item.quantity /\ c.line[l].held = n
      /\ c.line[l].fee = NoFee
  BY InsertLine DEF Sound
<1> HIDE DEF c
<1>2. Whole(c.line[l], tx.box)
  BY <1>1 DEF Whole, Items
<1>3. Sound(c)
  BY <1>1, <1>2, OneLineSound DEF OnlyLine
<1> QED BY <1>3 DEF c

\* A step that changes only the request's own view of the tables.
LEMMA RequestStep ==
    ASSUME LinesInv, Sound(tx'), Asking', db' = db, UNCHANGED organizer
    PROVE  LinesInv'
<1>1. Sound(db)' /\ Sound(tx)'
  BY DEF LinesInv, Sound, Shape, Whole, CurrentPricing, IsComp, InCart, organizer
<1>2. FeesFollow'
  BY DEF LinesInv, FeesFollow, InCart, IsComp, RangesFor, FeeFor, organizer
<1> QED BY <1>1, <1>2 DEF LinesInv, Organized, organizer

LEMMA AskingKept ==
    ASSUME Asking, NEW l, NEW ks, NEW checks, Visited(l, ks, checks)
    PROVE  Asking' /\ Unchanged
  BY DEF Asking, Visited

LEMMA NewCartSound ==
    ASSUME NEW stock
    PROVE  Sound(NewCart(stock)) /\ InCart(NewCart(stock)) = {}
  BY NoLineIsNone DEF NewCart, Sound, Shape, InCart

LEMMA BeginKeeps ==
    ASSUME LinesInv, NEW items \in Asked, NEW others, NEW box, Begin(items, others, box)
    PROVE  LinesInv'
<1>1. Asking'
  BY AskedAssumption DEF Begin, Asking, NoRequest, Items
<1>2. Sound([Cleared(db) EXCEPT !.box = box])
  <2> DEFINE c == [Cleared(db) EXCEPT !.box = box]
  <2>1. Shape(c) /\ \A l \in Lines : c.line[l] = NoLine
    BY NoLineIsNone DEF Cleared, LinesInv, Sound, Shape
  <2> HIDE DEF c
  <2>2. InCart(c) = {}
    BY <2>1 DEF InCart
  <2>3. Sound(c)
    BY <2>1, <2>2 DEF Sound
  <2> QED BY <2>3 DEF c
<1>3. Sound(tx')
  BY <1>2 DEF Begin, LinesInv
<1> QED BY <1>1, <1>3, RequestStep DEF Begin, Unchanged

LEMMA VisitKeeps ==
    ASSUME LinesInv, NEW l \in Lines
    PROVE  /\ RemoveOther(l) \/ LeaveOther(l) => LinesInv'
           /\ \A k : Keep(l, k) \/ Reduce(l, k) \/ Raise(l, k) \/ RaiseAtNewPrice(l, k)
                  => LinesInv'
<1> USE DEF LinesInv
<1>1. ASSUME RemoveOther(l) PROVE LinesInv'
  <2>1. Sound(tx')
    BY <1>1, RemoveSound DEF RemoveOther
  <2> QED BY <1>1, <2>1, AskingKept, RequestStep DEF RemoveOther, Unchanged
<1>2. ASSUME LeaveOther(l) PROVE LinesInv'
  BY <1>2, AskingKept, RequestStep DEF LeaveOther, Unchanged
<1>3. ASSUME NEW k, Keep(l, k) PROVE LinesInv'
  BY <1>3, AskingKept, RequestStep DEF Keep, Unchanged
<1>4. ASSUME NEW k, Reduce(l, k) PROVE LinesInv'
  <2>1. /\ req.items[k] \in Items /\ Whole(tx.line[l], tx.box) /\ tx.expires
    BY <1>4, MatchedRow DEF Reduce
  <2>2. req.items[k].quantity \in Nat
    BY <2>1 DEF Items
  <2>3. Sound(tx')
    BY <1>4, <2>1, <2>2, RemoveSound, ReduceSound DEF Reduce
  <2>4. Asking' /\ Unchanged
    BY <1>4, AskingKept DEF Reduce
  <2> QED BY <2>3, <2>4, RequestStep DEF Unchanged
<1>5. ASSUME NEW k, Raise(l, k) PROVE LinesInv'
  <2>1. /\ req.items[k] \in Items /\ Whole(tx.line[l], tx.box) /\ tx.expires
    BY <1>5, MatchedRow DEF Raise
  <2>2. req.items[k].quantity \in Nat
    BY <2>1 DEF Items
  <2>3. Sound(tx')
    BY <1>5, <2>1, <2>2, RaiseSound DEF Raise
  <2>4. Asking' /\ Unchanged
    BY <1>5, AskingKept DEF Raise
  <2> QED BY <2>3, <2>4, RequestStep DEF Unchanged
<1>6. ASSUME NEW k, RaiseAtNewPrice(l, k) PROVE LinesInv'
  <2> DEFINE item == req.items[k]
             missing == item.quantity - tx.line[l].quantity
  <2>1. /\ item \in Items /\ Whole(tx.line[l], tx.box) /\ tx.expires
        /\ tx.line[l].type = item.type
    BY <1>6, MatchedRow DEF RaiseAtNewPrice
  <2>2. item.quantity \in Nat /\ missing \in Nat /\ missing <= item.quantity
    BY <1>6, <2>1 DEF Items, Whole, RaiseAtNewPrice
  <2>3. item.type \in changed
    BY <1>6, <2>1 DEF Whole, RaiseAtNewPrice
  <2>4. Sound(tx')
    <3>1. PICK new \in Lines : tx' = Insert(tx, new, item, missing)
      BY <1>6 DEF RaiseAtNewPrice, FreeLines
    <3> HIDE DEF item, missing
    <3> QED BY <2>1, <2>2, <2>3, <3>1, InsertSound
  <2>5. Asking' /\ Unchanged
    BY <1>6, AskingKept DEF RaiseAtNewPrice
  <2> QED BY <2>4, <2>5, RequestStep DEF Unchanged
<1> QED BY <1>1, <1>2, <1>3, <1>4, <1>5, <1>6

LEMMA AddKeeps ==
    ASSUME LinesInv
    PROVE  /\ StartAdding \/ Refuse => LinesInv'
           /\ \A k : AddLine(k) => LinesInv'
<1> USE DEF LinesInv
<1>1. ASSUME StartAdding PROVE LinesInv'
  <2>1. Sound([tx EXCEPT !.expires = TRUE])
    BY DEF Sound, Shape, InCart
  <2>2. Asking'
    BY <1>1 DEF StartAdding, Asking
  <2> QED BY <1>1, <2>1, <2>2, RequestStep DEF StartAdding, Unchanged
<1>2. ASSUME Refuse PROVE LinesInv'
  <2>1. Asking'
    BY <1>2 DEF Refuse, Asking, NoRequest
  <2> QED BY <1>2, <2>1, RequestStep DEF Refuse, Unchanged
<1>3. ASSUME NEW k, AddLine(k) PROVE LinesInv'
  <2> DEFINE item == req.items[k]
  <2>1. k \in DOMAIN req.items
    BY <1>3 DEF AddLine, First, Remaining
  <2>2. item \in Items /\ item.quantity \in Nat /\ item.quantity <= item.quantity
    <3>1. item \in Items
      BY <2>1 DEF Asking
    <3> HIDE DEF item
    <3> QED BY <3>1 DEF Items
  <2>3. PICK new \in Lines : tx' = Insert(tx, new, item, item.quantity)
    BY <1>3 DEF AddLine, FreeLines
  <2>4. tx.expires
    BY <1>3 DEF AddLine, CanInsert, CanReserve
  <2>5. Asking' /\ Unchanged
    BY <1>3 DEF AddLine, Asking
  <2> HIDE DEF item
  <2>6. Sound(tx')
    BY <2>2, <2>3, <2>4, InsertSound
  <2> QED BY <2>5, <2>6, RequestStep DEF Unchanged
<1> QED BY <1>1, <1>2, <1>3

-----------------------------------------------------------------------------
(* The end of a request, and what happens between requests.                *)

\* The cart that Finish sees: an empty one loses its expiry.
LEMMA FinishedCart ==
    ASSUME LinesInv, NEW d,
           d = IF IsEmpty(tx) THEN [tx EXCEPT !.expires = FALSE] ELSE tx
    PROVE  Sound(d)
<1>1. CASE IsEmpty(tx)
  <2>1. Shape(d) /\ d.line = tx.line /\ d.box = tx.box
    BY <1>1 DEF LinesInv, Sound, Shape
  <2>2. InCart(d) = {}
    BY <1>1, <2>1 DEF IsEmpty, InCart
  <2> QED BY <2>1, <2>2 DEF LinesInv, Sound
<1> QED BY <1>1 DEF LinesInv

LEMMA FeesWritten ==
    ASSUME NEW d, Shape(d), NEW order
    PROVE  LET c == WithFees(d, order)
           IN  /\ Shape(c) /\ c.expires = d.expires /\ c.box = d.box
               /\ \A l \in Lines : c.line[l] = [d.line[l] EXCEPT !.fee = LineFee(d.line[l])]
  BY DEF WithFees, Shape, RowFields

LEMMA FeeWritten ==
    ASSUME NEW r, DOMAIN r = RowFields, NEW fee, NEW s, s = [r EXCEPT !.fee = fee]
    PROVE  /\ s.type = r.type /\ s.hold = r.hold /\ s.pricing = r.pricing
           /\ s.price = r.price /\ s.quantity = r.quantity /\ s.held = r.held /\ s.fee = fee
  BY DEF RowFields

LEMMA FinishKeeps ==
    ASSUME LinesInv, Finish
    PROVE  LinesInv'
<1> DEFINE d == IF IsEmpty(tx) THEN [tx EXCEPT !.expires = FALSE] ELSE tx
<1>1. Sound(d)
  BY FinishedCart
<1>2. PICK order : db' = WithFees(d, order)
  BY DEF Finish
<1>3. /\ tx' = db' /\ changed' = StillIn(d)
      /\ UNCHANGED <<current, holdType, schedule>>
  BY DEF Finish
<1> HIDE DEF d
<1>4. /\ Shape(db') /\ db'.expires = d.expires /\ db'.box = d.box
      /\ \A l \in Lines : db'.line[l] = [d.line[l] EXCEPT !.fee = LineFee(d.line[l])]
  BY <1>1, <1>2, FeesWritten DEF Sound
<1>5. ASSUME NEW l \in Lines, d.line[l] = NoLine
      PROVE  db'.line[l] = NoLine
  <2>1. LineFee(NoLine) = NoFee
    BY NoLineIsNone DEF LineFee
  <2>2. [NoLine EXCEPT !.fee = NoFee] = NoLine
    BY DEF NoLine
  <2> QED BY <1>4, <1>5, <2>1, <2>2
<1>6. ASSUME NEW l \in Lines, d.line[l] # NoLine
      PROVE  LET r == d.line[l]  s == db'.line[l]
             IN  /\ s.type = r.type /\ s.hold = r.hold /\ s.pricing = r.pricing
                 /\ s.price = r.price /\ s.quantity = r.quantity /\ s.held = r.held
                 /\ s.fee = LineFee(r)
                 /\ Whole(r, d.box) /\ s.type \in Types
                 /\ r.type \notin changed' => r.type \notin changed
                 /\ r.hold \notin changed' => r.hold \notin changed
  <2>1. DOMAIN d.line[l] = RowFields /\ Whole(d.line[l], d.box) /\ l \in InCart(d)
    BY <1>1, <1>6 DEF Sound, Shape, InCart
  <2>2. LET r == d.line[l]  s == db'.line[l]
        IN  /\ s.type = r.type /\ s.hold = r.hold /\ s.pricing = r.pricing
            /\ s.price = r.price /\ s.quantity = r.quantity /\ s.held = r.held
            /\ s.fee = LineFee(r)
    <3> DEFINE r == d.line[l]
               s == db'.line[l]
    <3>1. s = [r EXCEPT !.fee = LineFee(r)] /\ DOMAIN r = RowFields
      BY <1>4, <2>1
    <3> HIDE DEF r, s
    <3>2. /\ s.type = r.type /\ s.hold = r.hold /\ s.pricing = r.pricing
          /\ s.price = r.price /\ s.quantity = r.quantity /\ s.held = r.held
          /\ s.fee = LineFee(r)
      BY <3>1, FeeWritten
    <3> QED BY <3>2 DEF r, s
  <2>3. /\ d.line[l].type \notin changed' => d.line[l].type \notin changed
        /\ d.line[l].hold \notin changed' => d.line[l].hold \notin changed
    BY <1>3, <2>1 DEF StillIn
  <2> QED BY <2>1, <2>2, <2>3 DEF Whole
<1>7. ASSUME NEW l \in Lines, db'.line[l] # NoLine
      PROVE  /\ Whole(db.line[l], db.box)'
             /\ (db.line[l].hold \in changed \/
                   db.line[l].fee =
                      IF IsComp(db.line[l]) \/ RangesFor(db.line[l].price) = {} THEN NoFee
                      ELSE [quantity |-> db.line[l].quantity,
                            unit |-> FeeFor(db.line[l].price)])'
  <2> DEFINE r == d.line[l]
             s == db'.line[l]
  <2>1. /\ s.type = r.type /\ s.hold = r.hold /\ s.pricing = r.pricing
        /\ s.price = r.price /\ s.quantity = r.quantity /\ s.held = r.held
        /\ s.fee = LineFee(r) /\ r # NoLine /\ Whole(r, d.box)
        /\ r.type \notin changed' => r.type \notin changed
        /\ r.hold \notin changed' => r.hold \notin changed
    BY <1>5, <1>6, <1>7
  <2>2. db'.box = d.box
    BY <1>4
  <2> HIDE DEF r, s
  <2>3. IsComp(s) <=> IsComp(r)
    BY <2>1 DEF IsComp
  <2>4. r.hold \notin changed /\ IsComp(r) => s.fee = NoFee
    BY <2>1 DEF LineFee, Whole
  <2>5. ~IsComp(r) =>
          s.fee = IF RangesFor(s.price) = {} THEN NoFee
                  ELSE [quantity |-> s.quantity, unit |-> FeeFor(s.price)]
    BY <2>1 DEF LineFee
  <2>6. Whole(s, d.box)
    BY <2>1, <2>3, <2>4 DEF Whole
  <2>7. Whole(db.line[l], db.box)'
    BY <1>3, <2>1, <2>2, <2>6 DEF Whole, s, CurrentPricing, IsComp
  <2>8. (db.line[l].hold \in changed \/
           db.line[l].fee =
              IF IsComp(db.line[l]) \/ RangesFor(db.line[l].price) = {} THEN NoFee
              ELSE [quantity |-> db.line[l].quantity,
                    unit |-> FeeFor(db.line[l].price)])'
    BY <1>3, <2>1, <2>3, <2>4, <2>5 DEF s, IsComp, RangesFor, FeeFor
  <2> QED BY <2>7, <2>8
<1>8. InCart(db)' # {} => db'.expires
  <2>1. ASSUME NEW l \in Lines, db'.line[l] # NoLine PROVE d.expires
    BY <1>1, <1>5, <2>1 DEF Sound, InCart
  <2> QED BY <1>4, <2>1 DEF InCart
<1>9. Sound(db)' /\ FeesFollow'
  BY <1>4, <1>7, <1>8 DEF Sound, FeesFollow, InCart, Shape
<1>10. Sound(tx)'
  BY <1>3, <1>9 DEF Sound, Shape, Whole, CurrentPricing, IsComp, InCart
<1>11. Asking' /\ Organized'
  BY <1>3 DEF LinesInv, Finish, Asking, NoRequest, Organized
<1> QED BY <1>9, <1>10, <1>11 DEF LinesInv

LEMMA LeaveKeeps ==
    ASSUME LinesInv, NEW stock, Leave(stock)
    PROVE  LinesInv'
<1>1. Shape(db') /\ Shape(tx') /\ InCart(db') = {} /\ InCart(tx') = {}
  BY NewCartSound DEF Leave, Sound
<1>2. Sound(db)' /\ Sound(tx)' /\ FeesFollow'
  BY <1>1 DEF Sound, Shape, InCart, FeesFollow
<1> QED BY <1>2 DEF Leave, LinesInv, Asking, Organized

\* What a step of an organizer must say of each line.
LEMMA OrganizerStep ==
    ASSUME LinesInv, Organized', UNCHANGED <<db, tx, req>>, changed \subseteq changed',
           \A d \in {db, tx} : \A l \in Lines :
              LET row == d.line[l]
              IN  Whole(row, d.box) =>
                    /\ row.type \notin changed' =>
                          CurrentPricing(row.type, d.box)' = CurrentPricing(row.type, d.box)
                    /\ row.hold \notin changed' => (IsComp(row)' <=> IsComp(row)),
           schedule' = schedule \/ "schedule" \in changed'
    PROVE  LinesInv'
<1>1. ASSUME NEW d \in {db, tx}, Sound(d), NEW l \in Lines, Whole(d.line[l], d.box)
      PROVE  Whole(d.line[l], d.box)'
  BY <1>1 DEF Whole
<1>2. Sound(db)'
  <2>1. \A l \in Lines : db'.line[l] = NoLine \/ Whole(db.line[l], db.box)'
    BY <1>1 DEF LinesInv, Sound
  <2> QED BY <2>1 DEF LinesInv, Sound, Shape, InCart
<1>3. Sound(tx)'
  <2>1. \A l \in Lines : tx'.line[l] = NoLine \/ Whole(tx.line[l], tx.box)'
    BY <1>1 DEF LinesInv, Sound
  <2> QED BY <2>1 DEF LinesInv, Sound, Shape, InCart
<1>4. FeesFollow'
  <2>1. SUFFICES ASSUME "schedule" \notin changed', NEW l \in InCart(db),
                        db.line[l].hold \notin changed'
                 PROVE  (db.line[l].fee =
                           IF IsComp(db.line[l]) \/ RangesFor(db.line[l].price) = {} THEN NoFee
                           ELSE [quantity |-> db.line[l].quantity,
                                 unit |-> FeeFor(db.line[l].price)])'
    BY DEF FeesFollow, InCart
  <2>2. l \in Lines /\ Whole(db.line[l], db.box)
    BY DEF InCart, LinesInv, Sound
  <2>3. IsComp(db.line[l])' <=> IsComp(db.line[l])
    BY <2>1, <2>2
  <2>4. db.line[l].fee =
          IF IsComp(db.line[l]) \/ RangesFor(db.line[l].price) = {} THEN NoFee
          ELSE [quantity |-> db.line[l].quantity, unit |-> FeeFor(db.line[l].price)]
    BY <2>1 DEF LinesInv, FeesFollow
  <2> QED BY <2>1, <2>3, <2>4 DEF RangesFor, FeeFor
<1> QED BY <1>2, <1>3, <1>4 DEF LinesInv, Asking

LEMMA OrganizersKeep ==
    ASSUME LinesInv
    PROVE  /\ \A t \in Types, kind \in Kinds, p \in Pricings \cup {Null} :
                  ChangePrice(t, kind, p) => LinesInv'
           /\ \A h \in Holds : ChangeHold(h) => LinesInv'
           /\ \A s \in Schedules : ChangeSchedule(s) => LinesInv'
<1>0. ASSUME NEW d \in {db, tx}, NEW l \in Lines, Whole(d.line[l], d.box)
      PROVE  /\ l \in InCart(d) /\ d.line[l].type \in Types
             /\ d.line[l].type \in Touched(d.line[l].type)
             /\ d.line[l].hold \in Touched(d.line[l].hold)
             /\ d.line[l].hold \in Holds \cup {Null}
  <2>1. l \in InCart(d) /\ d.line[l].type \in Types /\ d.line[l].hold \in Holds \cup {Null}
    BY <1>0, NoLineIsNone DEF Whole, InCart
  <2> QED BY <2>1 DEF Touched
<1>1. ASSUME NEW t \in Types, NEW kind \in Kinds, NEW p \in Pricings \cup {Null},
             ChangePrice(t, kind, p)
      PROVE  LinesInv'
  <2>1. Organized' /\ \A u \in Types \ {t} : current'[u] = current[u]
    BY <1>1 DEF LinesInv, Organized, ChangePrice
  <2>2. changed' = changed \cup Touched(t) /\ UNCHANGED <<holdType, schedule, db, tx, req>>
    BY <1>1 DEF ChangePrice
  <2>3. ASSUME NEW d \in {db, tx}, NEW l \in Lines, Whole(d.line[l], d.box),
               d.line[l].type \notin changed'
        PROVE  CurrentPricing(d.line[l].type, d.box)' = CurrentPricing(d.line[l].type, d.box)
    <3>1. d.line[l].type \in Types \ {t}
      BY <1>0, <2>2, <2>3
    <3> QED BY <2>1, <3>1 DEF CurrentPricing
  <2>4. ASSUME NEW d \in {db, tx}, NEW l \in Lines
        PROVE  IsComp(d.line[l])' <=> IsComp(d.line[l])
    BY <2>2 DEF IsComp
  <2> QED BY <2>1, <2>2, <2>3, <2>4, OrganizerStep
<1>2. ASSUME NEW h \in Holds, ChangeHold(h)
      PROVE  LinesInv'
  <2>1. Organized' /\ \A g \in Holds \ {h} : holdType'[g] = holdType[g]
    BY <1>2 DEF LinesInv, Organized, ChangeHold
  <2>2. changed' = changed \cup Touched(h) /\ UNCHANGED <<current, schedule, db, tx, req>>
    BY <1>2 DEF ChangeHold
  <2>3. ASSUME NEW d \in {db, tx}, NEW l \in Lines, Whole(d.line[l], d.box),
               d.line[l].hold \notin changed'
        PROVE  IsComp(d.line[l])' <=> IsComp(d.line[l])
    <3>1. d.line[l].hold \in (Holds \cup {Null}) \ {h}
      BY <1>0, <2>2, <2>3
    <3> QED BY <2>1, <3>1 DEF IsComp
  <2>4. ASSUME NEW d \in {db, tx}, NEW l \in Lines
        PROVE  CurrentPricing(d.line[l].type, d.box)' = CurrentPricing(d.line[l].type, d.box)
    BY <2>2 DEF CurrentPricing
  <2> QED BY <2>1, <2>2, <2>3, <2>4, OrganizerStep
<1>3. ASSUME NEW s \in Schedules, ChangeSchedule(s)
      PROVE  LinesInv'
  <2>1. /\ "schedule" \in changed' /\ changed \subseteq changed'
        /\ UNCHANGED <<current, holdType, db, tx, req>> /\ Organized'
    BY <1>3 DEF LinesInv, Organized, ChangeSchedule
  <2>2. ASSUME NEW d \in {db, tx}, NEW l \in Lines
        PROVE  /\ CurrentPricing(d.line[l].type, d.box)' = CurrentPricing(d.line[l].type, d.box)
               /\ IsComp(d.line[l])' <=> IsComp(d.line[l])
    BY <2>1 DEF CurrentPricing, IsComp
  <2> QED BY <2>1, <2>2, OrganizerStep
<1> QED BY <1>1, <1>2, <1>3

LEMMA InitLines == Init => LinesInv
<1> SUFFICES ASSUME Init PROVE LinesInv
  OBVIOUS
<1>1. Sound(db) /\ Sound(tx) /\ InCart(db) = {}
  BY NewCartSound DEF Init
<1>2. Asking /\ Organized
  BY DEF Init, Asking, NoRequest, Organized
<1> QED BY <1>1, <1>2 DEF LinesInv, FeesFollow

LEMMA NextLines == LinesInv /\ [Next]_vars => LinesInv'
<1> SUFFICES ASSUME LinesInv, [Next]_vars PROVE LinesInv'
  OBVIOUS
<1>1. CASE UNCHANGED vars
  <2>1. Sound(tx') /\ Asking' /\ db' = db /\ UNCHANGED organizer
    BY <1>1 DEF vars, LinesInv, Asking, organizer
  <2> QED BY <2>1, RequestStep
<1>2. CASE \E items \in Asked, others, box \in BOOLEAN : Begin(items, others, box)
  BY <1>2, BeginKeeps
<1>3. CASE \E l \in Lines :
             \/ RemoveOther(l) \/ LeaveOther(l)
             \/ \E k \in DOMAIN req.items :
                   Keep(l, k) \/ Reduce(l, k) \/ Raise(l, k) \/ RaiseAtNewPrice(l, k)
  BY <1>3, VisitKeeps
<1>4. CASE StartAdding \/ Refuse \/ \E k \in DOMAIN req.items : AddLine(k)
  BY <1>4, AddKeeps
<1>5. CASE Finish
  BY <1>5, FinishKeeps
<1>6. CASE Checkout \/ Expire
  <2>1. PICK stock : Leave(stock)
    BY <1>6 DEF Checkout, Expire
  <2> QED BY <2>1, LeaveKeeps
<1>7. CASE \/ \E t \in Types, kind \in Kinds, p \in Pricings \cup {Null} : ChangePrice(t, kind, p)
           \/ \E h \in Holds : ChangeHold(h)
           \/ \E s \in Schedules : ChangeSchedule(s)
  BY <1>7, OrganizersKeep
<1> QED BY <1>1, <1>2, <1>3, <1>4, <1>5, <1>6, <1>7 DEF Next

LEMMA LinesInvariant == Spec => []LinesInv
  BY InitLines, NextLines, PTL DEF Spec

\* In every committed cart each line counts at least the tickets it holds, and
\* exactly these as long as its price was not changed under it.
THEOREM LinesCountTheirTickets == Spec => []LinesAreWhole
<1>1. LinesInv => LinesAreWhole
  BY DEF LinesInv, Sound, Whole, LinesAreWhole, InCart
<1> QED BY <1>1, LinesInvariant, PTL

\* Every line has the fee of its own price and quantity after each update.
THEOREM FeesAreRight == Spec => []FeesFollow
<1>1. LinesInv => FeesFollow
  BY DEF LinesInv
<1> QED BY <1>1, LinesInvariant, PTL

\* No cart with tickets is without an expiry.
THEOREM CartsExpire == Spec => []TicketsExpire
<1>1. LinesInv => TicketsExpire
  BY DEF LinesInv, Sound, TicketsExpire
<1> QED BY <1>1, LinesInvariant, PTL

-----------------------------------------------------------------------------
(* Operators on finite sets.                                               *)

\* A nonempty finite set has an element at which f is largest.
LEMMA LargestAt ==
    ASSUME NEW S, IsFiniteSet(S), S # {}, NEW f, \A x \in S : f[x] \in Int
    PROVE  \E x \in S : \A y \in S : f[y] <= f[x]
<1> DEFINE Tops(T) == \E x \in T : \A y \in T : f[y] <= f[x]
           B == {T \in SUBSET S : T # {} /\ ~Tops(T)}
<1>1. SUFFICES ASSUME ~Tops(S) PROVE FALSE
  OBVIOUS
<1>2. B # {} /\ B \subseteq SUBSET S
  BY <1>1
<1>3. PICK T \in B : \A U \in B : U \subseteq T => U = T
  <2> HIDE DEF B
  <2>1. \E T \in B : \A U \in B : U \subseteq T => U = T
    BY <1>2, Smallest
  <2> QED BY <2>1
<1>4. T \subseteq S /\ T # {} /\ ~Tops(T)
  BY <1>3
<1>5. PICK x \in T : TRUE
  BY <1>4
<1>6. CASE T \ {x} = {}
  <2>1. T = {x} /\ f[x] \in Int
    BY <1>4, <1>5, <1>6
  <2>2. Tops(T)
    BY <2>1
  <2> QED BY <1>4, <2>2
<1>7. CASE T \ {x} # {}
  <2>1. T \ {x} \notin B
    BY <1>3, <1>5
  <2>2. Tops(T \ {x})
    BY <1>4, <1>7, <2>1
  <2>3. PICK z \in T \ {x} : \A y \in T \ {x} : f[y] <= f[z]
    BY <2>2
  <2>4. \A y \in T : f[y] \in Int
    BY <1>4
  <2>5. CASE f[z] <= f[x]
    <3>1. \A y \in T : f[y] <= f[x]
      BY <1>5, <2>3, <2>4, <2>5
    <3> QED BY <1>4, <1>5, <3>1
  <2>6. CASE f[x] <= f[z]
    <3>1. \A y \in T : f[y] <= f[z]
      BY <1>5, <2>3, <2>4, <2>6
    <3> QED BY <1>4, <2>3, <3>1
  <2> QED BY <1>5, <2>3, <2>4, <2>5, <2>6
<1> QED BY <1>6, <1>7

\* A discount takes a price to 0 at most.
LEMMA MaxWithZero ==
    ASSUME NEW n \in Int
    PROVE  Max({0, n}) \in Nat
<1>1. \E x \in {0, n} : \A y \in {0, n} : x >= y
  <2>1. CASE n >= 0
    <3>1. \A y \in {0, n} : n >= y
      BY <2>1
    <3> QED BY <3>1
  <2>2. CASE n < 0
    <3>1. \A y \in {0, n} : 0 >= y
      BY <2>2
    <3> QED BY <3>1
  <2> QED BY <2>1, <2>2
<1>2. /\ Max({0, n}) \in {0, n}
      /\ \A y \in {0, n} : Max({0, n}) >= y
  BY <1>1 DEF Max
<1> QED BY <1>2

\* A price in a range has that range's fee.
LEMMA FeeIsNat ==
    ASSUME schedule \in Schedules, NEW price, RangesFor(price) # {}
    PROVE  FeeFor(price) \in Nat
<1>1. schedule \subseteq [min : Nat, fee : Nat] /\ IsFiniteSet(schedule)
  BY ScheduleAssumption
<1>2. RangesFor(price) \subseteq schedule
  BY DEF RangesFor
<1>3. IsFiniteSet(RangesFor(price))
  BY <1>1, <1>2, FS_Subset
<1>4. PICK x \in RangesFor(price) : \A y \in RangesFor(price) : y.min <= x.min
  <2> DEFINE f == [r \in RangesFor(price) |-> r.min]
  <2>1. \A r \in RangesFor(price) : f[r] \in Int
    BY <1>1, <1>2
  <2>2. \E x \in RangesFor(price) : \A y \in RangesFor(price) : f[y] <= f[x]
    <3> HIDE DEF f
    <3> QED BY <1>3, <2>1, LargestAt
  <2> QED BY <2>2
<1>5. (CHOOSE r \in RangesFor(price) : \A s \in RangesFor(price) : s.min <= r.min)
         \in RangesFor(price)
  BY <1>4
<1> QED BY <1>1, <1>2, <1>5 DEF FeeFor

-----------------------------------------------------------------------------
(* What the tables count, as sums over the lines.                          *)

\* A line's part in a pool, and in a type.
InPool(row, p) == IF PoolOf(row) = p THEN row.held ELSE 0
OfType(row, t) == IF row.type = t THEN row.held ELSE 0

LEMMA SumsOfLines ==
    ASSUME NEW d, \A l \in Lines : d.line[l].held \in Nat
    PROVE  /\ \A p : HeldIn(d, p) \in Nat
           /\ \A t : Held(d, t) \in Nat
<1>1. \A p : HeldIn(d, p) \in Nat
  <2> TAKE p
  <2> DEFINE f == [l \in Lines |-> IF PoolOf(d.line[l]) = p THEN d.line[l].held ELSE 0]
  <2>1. \A l \in Lines : f[l] \in Nat
    OBVIOUS
  <2> HIDE DEF f
  <2>2. SumFunctionOnSet(f, Lines) \in Nat
    BY <2>1, FiniteAssumption, SumIsNat
  <2> QED BY <2>2 DEF HeldIn, f
<1>2. \A t : Held(d, t) \in Nat
  <2> TAKE t
  <2> DEFINE f == [l \in Lines |-> IF d.line[l].type = t THEN d.line[l].held ELSE 0]
  <2>1. \A l \in Lines : f[l] \in Nat
    OBVIOUS
  <2> HIDE DEF f
  <2>2. SumFunctionOnSet(f, Lines) \in Nat
    BY <2>1, FiniteAssumption, SumIsNat
  <2> QED BY <2>2 DEF Held, f
<1> QED BY <1>1, <1>2

\* A change of one line changes the sums by what it changes of the line.
LEMMA SumsOfOneLine ==
    ASSUME NEW d, NEW c, NEW l \in Lines,
           \A k \in Lines : d.line[k].held \in Nat /\ c.line[k].held \in Nat,
           \A k \in Lines \ {l} : c.line[k] = d.line[k]
    PROVE  /\ \A p : HeldIn(c, p) = HeldIn(d, p) + (InPool(c.line[l], p) - InPool(d.line[l], p))
           /\ \A t : Held(c, t) = Held(d, t) + (OfType(c.line[l], t) - OfType(d.line[l], t))
<1>1. \A p : HeldIn(c, p) = HeldIn(d, p) + (InPool(c.line[l], p) - InPool(d.line[l], p))
  <2> TAKE p
  <2> DEFINE f == [k \in Lines |-> IF PoolOf(d.line[k]) = p THEN d.line[k].held ELSE 0]
             g == [k \in Lines |-> IF PoolOf(c.line[k]) = p THEN c.line[k].held ELSE 0]
  <2>1. /\ \A k \in Lines : f[k] \in Int /\ g[k] \in Int
        /\ \A k \in Lines \ {l} : f[k] = g[k]
        /\ f[l] = InPool(d.line[l], p) /\ g[l] = InPool(c.line[l], p)
    BY DEF InPool
  <2> HIDE DEF f, g
  <2>2. SumFunctionOnSet(g, Lines) = SumFunctionOnSet(f, Lines) + (g[l] - f[l])
    BY <2>1, FiniteAssumption, SumChanged
  <2> QED BY <2>1, <2>2 DEF HeldIn, f, g
<1>2. \A t : Held(c, t) = Held(d, t) + (OfType(c.line[l], t) - OfType(d.line[l], t))
  <2> TAKE t
  <2> DEFINE f == [k \in Lines |-> IF d.line[k].type = t THEN d.line[k].held ELSE 0]
             g == [k \in Lines |-> IF c.line[k].type = t THEN c.line[k].held ELSE 0]
  <2>1. /\ \A k \in Lines : f[k] \in Int /\ g[k] \in Int
        /\ \A k \in Lines \ {l} : f[k] = g[k]
        /\ f[l] = OfType(d.line[l], t) /\ g[l] = OfType(c.line[l], t)
    BY DEF OfType
  <2> HIDE DEF f, g
  <2>2. SumFunctionOnSet(g, Lines) = SumFunctionOnSet(f, Lines) + (g[l] - f[l])
    BY <2>1, FiniteAssumption, SumChanged
  <2> QED BY <2>1, <2>2 DEF Held, f, g
<1> QED BY <1>1, <1>2

\* A cart without lines holds nothing.
LEMMA SumsOfNoLine ==
    ASSUME NEW d, \A l \in Lines : d.line[l].held = 0
    PROVE  (\A p : HeldIn(d, p) = 0) /\ (\A t : Held(d, t) = 0)
<1>1. \A p : HeldIn(d, p) = 0
  <2> TAKE p
  <2> DEFINE f == [l \in Lines |-> IF PoolOf(d.line[l]) = p THEN d.line[l].held ELSE 0]
  <2>1. \A l \in Lines : f[l] = 0
    OBVIOUS
  <2> HIDE DEF f
  <2>2. SumFunctionOnSet(f, Lines) = 0
    BY <2>1, FiniteAssumption, SumOfZeros
  <2> QED BY <2>2 DEF HeldIn, f
<1>2. \A t : Held(d, t) = 0
  <2> TAKE t
  <2> DEFINE f == [l \in Lines |-> IF d.line[l].type = t THEN d.line[l].held ELSE 0]
  <2>1. \A l \in Lines : f[l] = 0
    OBVIOUS
  <2> HIDE DEF f
  <2>2. SumFunctionOnSet(f, Lines) = 0
    BY <2>1, FiniteAssumption, SumOfZeros
  <2> QED BY <2>2 DEF Held, f
<1> QED BY <1>1, <1>2

\* Lines that agree in what they hold have the same sums.
LEMMA SumsOfSameLines ==
    ASSUME NEW d, NEW c,
           \A l \in Lines : /\ c.line[l].type = d.line[l].type /\ c.line[l].hold = d.line[l].hold
                            /\ c.line[l].held = d.line[l].held
    PROVE  (\A p : HeldIn(c, p) = HeldIn(d, p)) /\ (\A t : Held(c, t) = Held(d, t))
<1>1. \A p : HeldIn(c, p) = HeldIn(d, p)
  <2> TAKE p
  <2>1. [l \in Lines |-> IF PoolOf(c.line[l]) = p THEN c.line[l].held ELSE 0]
        = [l \in Lines |-> IF PoolOf(d.line[l]) = p THEN d.line[l].held ELSE 0]
    BY DEF PoolOf
  <2> QED BY <2>1 DEF HeldIn
<1>2. \A t : Held(c, t) = Held(d, t)
  <2> TAKE t
  <2>1. [l \in Lines |-> IF c.line[l].type = t THEN c.line[l].held ELSE 0]
        = [l \in Lines |-> IF d.line[l].type = t THEN d.line[l].held ELSE 0]
    OBVIOUS
  <2> QED BY <2>1 DEF Held
<1> QED BY <1>1, <1>2

-----------------------------------------------------------------------------
(* What a change of one line does to the stock and to the limits.          *)

\* d and c differ in line l at most, and what the line gives the stock gets.
Traded(d, c, l) ==
    /\ c \in Tables /\ c.eventFees = d.eventFees
    /\ \A k \in Lines \ {l} : c.line[k] = d.line[k]
    /\ \A p \in AllPools :
          c.stock[p] + InPool(c.line[l], p) = d.stock[p] + InPool(d.line[l], p)

\* Only of these types does the line hold more than it did.
NoMore(d, c, l, ts) ==
    \A t \in Types \ ts : OfType(c.line[l], t) <= OfType(d.line[l], t)

LEMMA RowFieldsOf ==
    ASSUME NEW row \in LineRows
    PROVE  /\ row.type \in Types \cup {Null} /\ row.hold \in Holds \cup {Null}
           /\ row.pricing \in Pricings \cup {Null} /\ row.price \in Nat
           /\ row.quantity \in Nat /\ row.held \in Nat
           /\ row.fee \in [quantity : Nat, unit : Nat]
           /\ \A p : InPool(row, p) \in Nat
           /\ \A t : OfType(row, t) \in Nat
  BY DEF LineRows, InPool, OfType

LEMMA TableFields ==
    ASSUME NEW d \in Tables
    PROVE  /\ d.line \in [Lines -> LineRows] /\ d.eventFees \in [Events -> Nat]
           /\ d.stock \in [AllPools -> Nat] /\ d.expires \in BOOLEAN /\ d.box \in BOOLEAN
           /\ \A l \in Lines : d.line[l] \in LineRows
           /\ \A l \in Lines : d.line[l].held \in Nat
           /\ \A p : HeldIn(d, p) \in Nat
           /\ \A t : Held(d, t) \in Nat
<1>1. /\ d.line \in [Lines -> LineRows] /\ d.eventFees \in [Events -> Nat]
      /\ d.stock \in [AllPools -> Nat] /\ d.expires \in BOOLEAN /\ d.box \in BOOLEAN
  BY DEF Tables
<1>2. \A l \in Lines : d.line[l] \in LineRows /\ d.line[l].held \in Nat
  BY <1>1, RowFieldsOf
<1> QED BY <1>1, <1>2, SumsOfLines

LEMMA TradedTwice ==
    ASSUME NEW d, NEW b, NEW c, NEW l \in Lines, Traded(d, b, l), Traded(b, c, l)
    PROVE  Traded(d, c, l)
  BY DEF Traded

\* The stock and the cart together have as many tickets of a pool as before.
LEMMA TradedKeeps ==
    ASSUME NEW d \in Tables, NEW c, NEW l \in Lines, Traded(d, c, l)
    PROVE  \A p \in AllPools : c.stock[p] + HeldIn(c, p) = d.stock[p] + HeldIn(d, p)
<1>1. c \in Tables
  BY DEF Traded
<1>2. /\ \A k \in Lines : d.line[k].held \in Nat /\ c.line[k].held \in Nat
      /\ d.line[l] \in LineRows /\ c.line[l] \in LineRows
  BY <1>1, TableFields
<1>3. \A p : HeldIn(c, p) = HeldIn(d, p) + (InPool(c.line[l], p) - InPool(d.line[l], p))
  BY <1>2, SumsOfOneLine DEF Traded
<1>4. SUFFICES ASSUME NEW p \in AllPools
               PROVE  c.stock[p] + HeldIn(c, p) = d.stock[p] + HeldIn(d, p)
  OBVIOUS
<1>5. c.stock[p] + InPool(c.line[l], p) = d.stock[p] + InPool(d.line[l], p)
  BY DEF Traded
<1>6. /\ c.stock[p] \in Nat /\ d.stock[p] \in Nat /\ HeldIn(d, p) \in Nat
      /\ InPool(c.line[l], p) \in Nat /\ InPool(d.line[l], p) \in Nat
  BY <1>1, <1>2, TableFields, RowFieldsOf
<1> QED BY <1>3, <1>5, <1>6

\* Nor does the user hold more, except of those types.
LEMMA NoMoreHeld ==
    ASSUME NEW d \in Tables, NEW c, NEW l \in Lines, Traded(d, c, l),
           NEW ts, NoMore(d, c, l, ts)
    PROVE  \A t \in Types \ ts : Held(c, t) <= Held(d, t)
<1>1. c \in Tables
  BY DEF Traded
<1>2. /\ \A k \in Lines : d.line[k].held \in Nat /\ c.line[k].held \in Nat
      /\ d.line[l] \in LineRows /\ c.line[l] \in LineRows
  BY <1>1, TableFields
<1>3. \A t : Held(c, t) = Held(d, t) + (OfType(c.line[l], t) - OfType(d.line[l], t))
  BY <1>2, SumsOfOneLine DEF Traded
<1>4. SUFFICES ASSUME NEW t \in Types \ ts PROVE Held(c, t) <= Held(d, t)
  OBVIOUS
<1>5. /\ Held(d, t) \in Nat /\ OfType(c.line[l], t) \in Nat /\ OfType(d.line[l], t) \in Nat
  BY <1>2, TableFields, RowFieldsOf
<1>6. OfType(c.line[l], t) <= OfType(d.line[l], t)
  BY DEF NoMore
<1> QED BY <1>3, <1>5, <1>6

LEMMA NoLineHoldsNone ==
    /\ NoLine \in LineRows /\ NoLine.held = 0
    /\ \A p : InPool(NoLine, p) = 0
    /\ \A t : OfType(NoLine, t) = 0
  BY DEF NoLine, NoFee, LineRows, InPool, OfType

\* A line replaced by one that holds as much of the same pool.
LEMMA Replaced ==
    ASSUME NEW d \in Tables, NEW l \in Lines, NEW row \in LineRows,
           \A p \in AllPools : InPool(row, p) = InPool(d.line[l], p)
    PROVE  LET c == [d EXCEPT !.line[l] = row]
           IN  Traded(d, c, l) /\ c.line[l] = row /\ c.box = d.box /\ c.expires = d.expires
<1> DEFINE c == [d EXCEPT !.line[l] = row]
<1>1. c \in Tables /\ c.stock = d.stock /\ c.eventFees = d.eventFees
  BY DEF Tables
<1>2. c.line[l] = row /\ \A k \in Lines \ {l} : c.line[k] = d.line[k]
  BY DEF Tables
<1>3. c.box = d.box /\ c.expires = d.expires
  BY DEF Tables
<1> HIDE DEF c
<1>4. Traded(d, c, l) /\ c.line[l] = row /\ c.box = d.box /\ c.expires = d.expires
  BY <1>1, <1>2, <1>3 DEF Traded
<1> QED BY <1>4 DEF c

LEMMA ReserveTrades ==
    ASSUME NEW d \in Tables, NEW l \in Lines, NEW n \in Nat,
           PoolOf(d.line[l]) \in AllPools, d.stock[PoolOf(d.line[l])] >= n
    PROVE  Traded(d, Reserve(d, l, n), l)
<1> DEFINE c == Reserve(d, l, n)
           q == PoolOf(d.line[l])
           row == d.line[l]
<1>1. /\ row \in LineRows /\ row.held \in Nat /\ d.stock \in [AllPools -> Nat]
      /\ d.line \in [Lines -> LineRows]
  BY TableFields
<1>2. [row EXCEPT !.held = @ + n] \in LineRows
  BY <1>1 DEF LineRows
<1>3. /\ c.line = [d.line EXCEPT ![l] = [row EXCEPT !.held = @ + n]]
      /\ c.stock = [d.stock EXCEPT ![q] = @ - n]
      /\ c.eventFees = d.eventFees
  BY DEF Reserve, Tables
<1>4. c.line \in [Lines -> LineRows]
  BY <1>1, <1>2, <1>3
<1>5. c.stock \in [AllPools -> Nat]
  BY <1>1, <1>3
<1>6. c \in Tables
  BY <1>4, <1>5 DEF Reserve, Tables
<1>7. /\ c.line[l].held = row.held + n /\ PoolOf(c.line[l]) = q
      /\ \A k \in Lines \ {l} : c.line[k] = d.line[k]
  BY <1>1, <1>3 DEF LineRows, PoolOf
<1>8. ASSUME NEW p \in AllPools
      PROVE  c.stock[p] + InPool(c.line[l], p) = d.stock[p] + InPool(d.line[l], p)
  BY <1>1, <1>3, <1>7 DEF InPool
<1> QED BY <1>3, <1>6, <1>7, <1>8 DEF Traded

LEMMA ReleaseTrades ==
    ASSUME NEW d \in Tables, NEW l \in Lines, NEW n \in Nat,
           PoolOf(d.line[l]) \in AllPools, CanRelease(d, l, n)
    PROVE  Traded(d, Release(d, l, n), l)
<1> DEFINE c == Release(d, l, n)
           q == PoolOf(d.line[l])
           row == d.line[l]
<1>1. /\ row \in LineRows /\ row.held \in Nat /\ d.stock \in [AllPools -> Nat]
      /\ d.line \in [Lines -> LineRows] /\ row.held >= n
  BY TableFields DEF CanRelease
<1>2. [row EXCEPT !.held = @ - n] \in LineRows
  BY <1>1 DEF LineRows
<1>3. /\ c.line = [d.line EXCEPT ![l] = [row EXCEPT !.held = @ - n]]
      /\ c.stock = [d.stock EXCEPT ![q] = @ + n]
      /\ c.eventFees = d.eventFees
  BY DEF Release, Tables
<1>4. c.line \in [Lines -> LineRows]
  BY <1>1, <1>2, <1>3
<1>5. c.stock \in [AllPools -> Nat]
  BY <1>1, <1>3
<1>6. c \in Tables
  BY <1>4, <1>5 DEF Release, Tables
<1>7. /\ c.line[l].held = row.held - n /\ PoolOf(c.line[l]) = q
      /\ \A k \in Lines \ {l} : c.line[k] = d.line[k]
  BY <1>1, <1>3 DEF LineRows, PoolOf
<1>8. ASSUME NEW p \in AllPools
      PROVE  c.stock[p] + InPool(c.line[l], p) = d.stock[p] + InPool(d.line[l], p)
  BY <1>1, <1>3, <1>7 DEF InPool
<1> QED BY <1>3, <1>6, <1>7, <1>8 DEF Traded

LEMMA CountTrades ==
    ASSUME NEW d \in Tables, NEW l \in Lines, NEW n \in Nat
    PROVE  Traded(d, Count(d, l, n), l)
<1> DEFINE row == [d.line[l] EXCEPT !.quantity = n]
<1>1. d.line[l] \in LineRows
  BY TableFields
<1>2. row \in LineRows /\ \A p \in AllPools : InPool(row, p) = InPool(d.line[l], p)
  BY <1>1 DEF LineRows, InPool, PoolOf
<1>3. Count(d, l, n) = [d EXCEPT !.line[l] = row]
  BY DEF Count
<1> HIDE DEF row
<1> QED BY <1>2, <1>3, Replaced

LEMMA DestroyTrades ==
    ASSUME NEW d \in Tables, NEW l \in Lines, d.line[l].held = 0
    PROVE  Traded(d, Destroy(d, l), l) /\ Destroy(d, l).line[l] = NoLine
<1>1. \A p \in AllPools : InPool(NoLine, p) = InPool(d.line[l], p)
  BY NoLineHoldsNone DEF InPool
<1>2. Destroy(d, l) = [d EXCEPT !.line[l] = NoLine]
  BY DEF Destroy
<1> QED BY <1>1, <1>2, NoLineHoldsNone, Replaced

\* The price of a period is never negative.
LEMMA PriceIsNat ==
    ASSUME Organized, NEW p \in Pricings, NEW h \in Holds \cup {Null}
    PROVE  PriceFor(p, h) \in Nat
<1>1. PriceOf[p] \in Nat /\ \A g \in Holds : Discount[g] \in Nat
  BY CatalogAssumption
<1>2. ASSUME h # Null
      PROVE  PriceOf[p] - Discount[h] \in Int
  BY <1>1, <1>2
<1> QED BY <1>1, <1>2, MaxWithZero DEF PriceFor

LEMMA PoolsOfRows ==
    ASSUME NEW row, row.type \in Types, row.hold \in Holds \cup {Null}
    PROVE  PoolOf(row) \in AllPools
  BY DEF PoolOf, AllPools

LEMMA InsertTrades ==
    ASSUME Organized, NEW d \in Tables, NEW l \in Lines, d.line[l] = NoLine,
           NEW item \in Items, NEW n \in Nat, CanInsert(d, item, n)
    PROVE  /\ Traded(d, Insert(d, l, item, n), l)
           /\ NoMore(d, Insert(d, l, item, n), l, {item.type})
<1>1. item.type \in Types /\ item.hold \in Holds \cup {Null} /\ item.quantity \in Nat
  BY DEF Items
<1> DEFINE p == CurrentPricing(item.type, d.box)
           row == [type |-> item.type, hold |-> item.hold, pricing |-> p,
                   price |-> PriceFor(p, item.hold), quantity |-> item.quantity,
                   held |-> 0, fee |-> NoFee]
           b == [d EXCEPT !.line[l] = row]
           c == Reserve(b, l, n)
<1>2. p \in Pricings
  BY <1>1 DEF CanInsert, CurrentPricing, Organized, Kinds
<1>3. row \in LineRows
  <2>1. PriceFor(p, item.hold) \in Nat
    BY <1>1, <1>2, PriceIsNat
  <2>2. NoFee \in [quantity : Nat, unit : Nat]
    BY DEF NoFee
  <2> HIDE DEF p
  <2> QED BY <1>1, <1>2, <2>1, <2>2 DEF LineRows
<1>4. /\ row.held = 0 /\ PoolOf(row) = PoolOf(item)
      /\ row.type = item.type /\ row.hold = item.hold
  BY DEF PoolOf
<1>5. Insert(d, l, item, n) = c
  BY DEF Insert
<1> HIDE DEF p, row
<1>6. \A q \in AllPools : InPool(row, q) = InPool(d.line[l], q)
  BY <1>4, NoLineHoldsNone DEF InPool
<1>7. Traded(d, b, l) /\ b.line[l] = row
  BY <1>3, <1>6, Replaced
<1>8. b \in Tables /\ b.stock = d.stock
  BY <1>7 DEF Traded, Tables
<1> HIDE DEF b
<1>9. PoolOf(b.line[l]) \in AllPools /\ b.stock[PoolOf(b.line[l])] >= n
  BY <1>1, <1>4, <1>7, <1>8, PoolsOfRows DEF CanInsert, CanReserve
<1>10. Traded(b, c, l)
  BY <1>8, <1>9, ReserveTrades
<1>11. Traded(d, c, l)
  BY <1>7, <1>10, TradedTwice
<1>12. c.line[l].type = item.type
  <2>1. c.line[l] = [row EXCEPT !.held = @ + n]
    BY <1>7, <1>8 DEF Reserve, Tables
  <2> QED BY <1>3, <1>4, <2>1 DEF LineRows
<1> HIDE DEF c
<1>13. NoMore(d, c, l, {item.type})
  BY <1>12, NoLineHoldsNone DEF NoMore, OfType
<1> QED BY <1>5, <1>11, <1>13

\* All tickets of a line are released and it is deleted.
LEMMA RemoveTrades ==
    ASSUME NEW d \in Tables, NEW l \in Lines, Whole(d.line[l], d.box),
           CanRelease(d, l, d.line[l].quantity)
    PROVE  LET c == Destroy(Release(d, l, d.line[l].quantity), l)
           IN  Traded(d, c, l) /\ c.line[l] = NoLine /\ NoMore(d, c, l, {})
<1> DEFINE n == d.line[l].quantity
           b == Release(d, l, n)
           c == Destroy(b, l)
<1>1. /\ n \in Nat /\ d.line[l].held = n /\ PoolOf(d.line[l]) \in AllPools
      /\ d.line[l] \in LineRows
  <2>1. /\ d.line[l].quantity \in Nat /\ d.line[l].held \in Nat
        /\ d.line[l].held <= d.line[l].quantity /\ d.line[l].held >= d.line[l].quantity
    BY DEF Whole, CanRelease
  <2>2. d.line[l].held = d.line[l].quantity
    BY <2>1
  <2>3. PoolOf(d.line[l]) \in AllPools
    BY PoolsOfRows DEF Whole
  <2> QED BY <2>1, <2>2, <2>3, TableFields
<1>2. Traded(d, b, l)
  BY <1>1, ReleaseTrades
<1>3. b \in Tables /\ b.line[l].held = 0
  <2>1. b.line[l] = [d.line[l] EXCEPT !.held = @ - n]
    BY DEF Release, Tables
  <2>2. b.line[l].held = n - n
    BY <1>1, <2>1 DEF LineRows
  <2> QED BY <1>1, <1>2, <2>2 DEF Traded
<1> HIDE DEF b
<1>4. Traded(b, c, l) /\ c.line[l] = NoLine
  BY <1>3, DestroyTrades
<1>5. Traded(d, c, l)
  BY <1>2, <1>4, TradedTwice
<1> HIDE DEF c
<1>6. NoMore(d, c, l, {})
  <2>1. \A t : OfType(c.line[l], t) = 0 /\ OfType(d.line[l], t) \in Nat
    BY <1>1, <1>4, NoLineHoldsNone, RowFieldsOf
  <2> QED BY <2>1 DEF NoMore
<1> QED BY <1>4, <1>5, <1>6 DEF b, c

\* Some tickets of a line are released.
LEMMA ReduceTrades ==
    ASSUME NEW d \in Tables, NEW l \in Lines, Whole(d.line[l], d.box),
           NEW n \in Nat, d.line[l].quantity > n, CanRelease(d, l, d.line[l].quantity - n)
    PROVE  LET c == Count(Release(d, l, d.line[l].quantity - n), l, n)
           IN  /\ Traded(d, c, l) /\ NoMore(d, c, l, {})
               /\ c.line[l].type = d.line[l].type
<1>1. /\ d.line[l].quantity \in Nat /\ d.line[l].held \in Nat
      /\ PoolOf(d.line[l]) \in AllPools /\ d.line[l] \in LineRows
  BY TableFields, PoolsOfRows DEF Whole
<1> DEFINE m == d.line[l].quantity - n
           b == Release(d, l, m)
           c == Count(b, l, n)
<1>2. m \in Nat
  BY <1>1
<1>3. Traded(d, b, l)
  BY <1>1, <1>2, ReleaseTrades
<1>4. b.line[l] = [d.line[l] EXCEPT !.held = @ - m]
  BY DEF Release, Tables
<1>5. b.line[l].held <= d.line[l].held /\ b.line[l].type = d.line[l].type
  BY <1>1, <1>2, <1>4 DEF LineRows
<1>6. b \in Tables /\ b.line[l] \in LineRows
  BY <1>3, TableFields DEF Traded
<1> HIDE DEF b
<1>7. Traded(b, c, l)
  BY <1>6, CountTrades
<1>8. c.line[l].held = b.line[l].held /\ c.line[l].type = b.line[l].type
  <2>1. c.line[l] = [b.line[l] EXCEPT !.quantity = n]
    BY <1>6 DEF Count, Tables
  <2> QED BY <1>6, <2>1 DEF LineRows
<1>9. Traded(d, c, l)
  BY <1>3, <1>7, TradedTwice
<1> HIDE DEF c, m
<1>10. NoMore(d, c, l, {})
  BY <1>1, <1>5, <1>8 DEF NoMore, OfType
<1> QED BY <1>5, <1>8, <1>9, <1>10 DEF b, c, m

\* More tickets are reserved for a line.
LEMMA RaiseTrades ==
    ASSUME NEW d \in Tables, NEW l \in Lines, Whole(d.line[l], d.box),
           NEW n \in Nat, n > d.line[l].quantity,
           CanReserve(d, PoolOf(d.line[l]), n - d.line[l].quantity)
    PROVE  LET c == Count(Reserve(d, l, n - d.line[l].quantity), l, n)
           IN  /\ Traded(d, c, l) /\ NoMore(d, c, l, {d.line[l].type})
               /\ c.line[l].type = d.line[l].type
<1>1. /\ d.line[l].quantity \in Nat /\ d.line[l].held \in Nat
      /\ PoolOf(d.line[l]) \in AllPools /\ d.line[l] \in LineRows
  BY TableFields, PoolsOfRows DEF Whole
<1> DEFINE m == n - d.line[l].quantity
           b == Reserve(d, l, m)
           c == Count(b, l, n)
<1>2. m \in Nat
  BY <1>1
<1>3. Traded(d, b, l)
  BY <1>1, <1>2, ReserveTrades DEF CanReserve
<1>4. b.line[l] = [d.line[l] EXCEPT !.held = @ + m]
  BY DEF Reserve, Tables
<1>5. b.line[l].type = d.line[l].type
  BY <1>1, <1>2, <1>4 DEF LineRows
<1>6. b \in Tables /\ b.line[l] \in LineRows
  BY <1>3, TableFields DEF Traded
<1> HIDE DEF b
<1>7. Traded(b, c, l)
  BY <1>6, CountTrades
<1>8. c.line[l].type = b.line[l].type
  <2>1. c.line[l] = [b.line[l] EXCEPT !.quantity = n]
    BY <1>6 DEF Count, Tables
  <2> QED BY <1>6, <2>1 DEF LineRows
<1>9. Traded(d, c, l)
  BY <1>3, <1>7, TradedTwice
<1> HIDE DEF c, m
<1>10. NoMore(d, c, l, {d.line[l].type})
  BY <1>5, <1>8 DEF NoMore, OfType
<1> QED BY <1>5, <1>8, <1>9, <1>10 DEF b, c, m

-----------------------------------------------------------------------------
(* Every ticket is somewhere, and no type is over its limit.               *)

\* Each ticket of a pool is free, held by a line of d or bought.
Kept(d) == \A p \in AllPools : Stock[p] = d.stock[p] + bought[p] + HeldIn(d, p)

\* What the request has still to look at is in the cart it sees.
Asks ==
    /\ req.stage \in {"idle", "match", "add"} /\ req.items \in Asked \cup {<<>>}
    /\ req.todo \subseteq InCart(tx) /\ req.used \subseteq DOMAIN req.items
    /\ req.checks \subseteq Types
    /\ req.stage = "idle" => req.todo = {}

\* The request may exceed the limits of the types it has yet to check.
Counts ==
    /\ TypeOK /\ LinesInv /\ Asks
    /\ Kept(db) /\ Kept(tx)
    /\ \A t \in Types : WithinLimit(db, t)
    /\ \A t \in Types \ req.checks : WithinLimit(tx, t)

LEMMA BoughtIsNat ==
    ASSUME bought \in [AllPools -> Nat], NEW t \in Types
    PROVE  Bought(t) \in Nat
<1> DEFINE f == [h \in Holds \cup {Null} |-> bought[<<t, h>>]]
           S == Holds \cup {Null}
<1>1. \A h \in S : f[h] \in Nat
  BY DEF AllPools
<1>2. IsFiniteSet(S)
  BY FiniteAssumption, FS_AddElement
<1> HIDE DEF f, S
<1>3. SumFunctionOnSet(f, S) \in Nat
  BY <1>1, <1>2, SumIsNat
<1> QED BY <1>3 DEF Bought, f, S

\* A cart that holds no more of a type is within its limit if the other was.
LEMMA LessWithin ==
    ASSUME bought \in [AllPools -> Nat], NEW t \in Types, NEW c, NEW d,
           Held(c, t) \in Nat, Held(d, t) \in Nat, Held(c, t) <= Held(d, t),
           WithinLimit(d, t)
    PROVE  WithinLimit(c, t)
<1>1. Bought(t) \in Nat /\ Limit[t] \in Nat
  BY BoughtIsNat, CatalogAssumption
<1> QED BY <1>1 DEF WithinLimit

\* A step of a request that changes one line of the tables it sees.
LEMMA TradeStep ==
    ASSUME Counts, LinesInv', Asks', Unchanged,
           NEW l \in Lines, NEW ts \in SUBSET Types,
           Traded(tx, tx', l), NoMore(tx, tx', l, ts), req'.checks = req.checks \cup ts
    PROVE  Counts'
<1>1. /\ db \in Tables /\ tx \in Tables /\ tx' \in Tables /\ db' = db /\ bought' = bought
      /\ bought \in [AllPools -> Nat]
  BY DEF Counts, TypeOK, Traded, Unchanged
<1>2. TypeOK'
  BY <1>1 DEF Counts, TypeOK, Asks, Unchanged, organizer
<1>3. Kept(db)'
  BY <1>1 DEF Counts, Kept, HeldIn
<1>4. Kept(tx)'
  <2>1. SUFFICES ASSUME NEW p \in AllPools
                 PROVE  Stock[p] = tx'.stock[p] + bought[p] + HeldIn(tx', p)
    BY <1>1 DEF Kept, HeldIn
  <2>2. tx'.stock[p] + HeldIn(tx', p) = tx.stock[p] + HeldIn(tx, p)
    BY <1>1, TradedKeeps
  <2>3. Stock[p] = tx.stock[p] + bought[p] + HeldIn(tx, p)
    BY DEF Counts, Kept
  <2>4. /\ tx.stock[p] \in Nat /\ tx'.stock[p] \in Nat /\ bought[p] \in Nat
        /\ HeldIn(tx, p) \in Nat /\ HeldIn(tx', p) \in Nat
    BY <1>1, TableFields
  <2> QED BY <2>2, <2>3, <2>4
<1>5. \A t \in Types : WithinLimit(db, t)'
  BY <1>1 DEF Counts, WithinLimit, Held, Bought
<1>6. \A t \in Types \ req'.checks : WithinLimit(tx, t)'
  <2>1. SUFFICES ASSUME NEW t \in Types, t \notin req'.checks PROVE WithinLimit(tx, t)'
    OBVIOUS
  <2>2. t \in Types \ ts /\ WithinLimit(tx, t)
    BY <2>1 DEF Counts
  <2>3. Held(tx', t) <= Held(tx, t)
    BY <1>1, <2>2, NoMoreHeld
  <2>4. Held(tx', t) \in Nat /\ Held(tx, t) \in Nat
    BY <1>1, TableFields
  <2>5. WithinLimit(tx', t)
    BY <1>1, <2>2, <2>3, <2>4, LessWithin
  <2> QED BY <1>1, <2>5 DEF WithinLimit, Held, Bought
<1> QED BY <1>2, <1>3, <1>4, <1>5, <1>6 DEF Counts

\* A step of a request that leaves the lines and the stock alone.
LEMMA QuietStep ==
    ASSUME Counts, LinesInv', Asks', Unchanged, tx' \in Tables,
           tx'.line = tx.line, tx'.stock = tx.stock, req.checks \subseteq req'.checks
    PROVE  Counts'
<1>1. /\ db' = db /\ bought' = bought
  BY DEF Unchanged
<1>2. TypeOK'
  BY <1>1 DEF Counts, TypeOK, Asks, Unchanged, organizer
<1>3. Kept(db)' /\ Kept(tx)'
  BY <1>1 DEF Counts, Kept, HeldIn
<1>4. /\ \A t \in Types : WithinLimit(db, t)'
      /\ \A t \in Types \ req'.checks : WithinLimit(tx, t)'
  BY <1>1 DEF Counts, WithinLimit, Held, Bought
<1> QED BY <1>2, <1>3, <1>4 DEF Counts

LEMMA VisitedAsks ==
    ASSUME Counts, NEW l \in Lines, NEW ks, ks \subseteq DOMAIN req.items,
           NEW ts \in SUBSET Types, Visit(l), Visited(l, ks, ts),
           \A k \in req.todo \ {l} : k \in InCart(tx')
    PROVE  Asks' /\ Unchanged /\ req'.checks = req.checks \cup ts
<1>1. /\ DOMAIN req = {"stage", "items", "others", "todo", "used", "checks"}
      /\ req' = [req EXCEPT !.todo = @ \ {l}, !.used = @ \cup ks, !.checks = @ \cup ts]
  BY DEF Counts, LinesInv, Asking, Visited
<1>2. /\ req'.stage = req.stage /\ req'.items = req.items /\ req'.todo = req.todo \ {l}
      /\ req'.used = req.used \cup ks /\ req'.checks = req.checks \cup ts
  BY <1>1
<1>3. InCart(tx)' = InCart(tx')
  BY DEF InCart
<1>4. req'.used \subseteq DOMAIN req'.items /\ req'.todo \subseteq InCart(tx')
  BY <1>2 DEF Counts, Asks
<1>5. Asks'
  BY <1>2, <1>3, <1>4 DEF Counts, Asks, Visit
<1> QED BY <1>2, <1>5 DEF Visited

\* The tickets of a line that was dealt with stay in the line or go back.
LEMMA VisitCounts ==
    ASSUME Counts, LinesInv', NEW l \in Lines
    PROVE  /\ RemoveOther(l) \/ LeaveOther(l) => Counts'
           /\ \A k : Keep(l, k) \/ Reduce(l, k) \/ Raise(l, k) => Counts'
<1>1. /\ tx \in Tables /\ Sound(tx) /\ Asking
      /\ req.todo \subseteq InCart(tx)
  BY DEF Counts, TypeOK, LinesInv, Asks
<1>2. ASSUME Visit(l)
      PROVE  Whole(tx.line[l], tx.box)
  BY <1>1, <1>2 DEF Visit, Sound, InCart
<1>3. ASSUME NEW c, Traded(tx, c, l)
      PROVE  \A k \in req.todo \ {l} : k \in InCart(c)
  BY <1>1, <1>3 DEF Traded, InCart
<1>4. ASSUME RemoveOther(l) PROVE Counts'
  <2>1. Whole(tx.line[l], tx.box) /\ CanRelease(tx, l, tx.line[l].quantity)
    BY <1>2, <1>4 DEF RemoveOther
  <2>2. Traded(tx, tx', l) /\ NoMore(tx, tx', l, {})
    BY <1>1, <1>4, <2>1, RemoveTrades DEF RemoveOther
  <2>3. Asks' /\ Unchanged /\ req'.checks = req.checks \cup {}
    BY <1>3, <1>4, <2>2, VisitedAsks DEF RemoveOther
  <2> QED BY <2>2, <2>3, TradeStep
<1>5. ASSUME LeaveOther(l) PROVE Counts'
  <2>1. tx' = tx
    BY <1>5 DEF LeaveOther
  <2>2. Asks' /\ Unchanged /\ req'.checks = req.checks \cup {}
    BY <1>1, <1>5, <2>1, VisitedAsks DEF LeaveOther
  <2> QED BY <1>1, <2>1, <2>2, QuietStep
<1>6. ASSUME NEW k, VisitWith(l, k)
      PROVE  /\ Visit(l) /\ {k} \subseteq DOMAIN req.items
             /\ req.items[k].quantity \in Nat /\ tx.line[l].type \in Types
             /\ Whole(tx.line[l], tx.box)
  <2>1. req.items[k] \in Items
    BY <1>1, <1>6, MatchedRow
  <2> QED BY <1>2, <1>6, <2>1 DEF VisitWith, First, Matching, Items, Whole
<1>7. ASSUME NEW k, Keep(l, k) PROVE Counts'
  <2>1. tx' = tx
    BY <1>7 DEF Keep
  <2>2. Asks' /\ Unchanged /\ req'.checks = req.checks \cup {}
    BY <1>1, <1>6, <1>7, <2>1, VisitedAsks DEF Keep
  <2> QED BY <1>1, <2>1, <2>2, QuietStep
<1>8. ASSUME NEW k, Reduce(l, k) PROVE Counts'
  <2> DEFINE row == tx.line[l]
             n == req.items[k].quantity
  <2>1. /\ VisitWith(l, k) /\ row.quantity > n /\ CanRelease(tx, l, row.quantity - n)
        /\ Visited(l, {k}, {})
        /\ tx' = IF n = 0 THEN Destroy(Release(tx, l, row.quantity), l)
                 ELSE Count(Release(tx, l, row.quantity - n), l, n)
    BY <1>8 DEF Reduce
  <2>2. n \in Nat /\ Whole(row, tx.box)
    BY <1>6, <2>1
  <2>3. Traded(tx, tx', l) /\ NoMore(tx, tx', l, {})
    <3>1. CASE n = 0
      <4>1. CanRelease(tx, l, row.quantity)
        <5>1. row.quantity - n = row.quantity
          BY <2>2, <3>1 DEF Whole
        <5> QED BY <2>1, <5>1
      <4> QED BY <1>1, <2>1, <2>2, <3>1, <4>1, RemoveTrades
    <3>2. CASE n # 0
      BY <1>1, <2>1, <2>2, <3>2, ReduceTrades
    <3> QED BY <3>1, <3>2
  <2>4. Asks' /\ Unchanged /\ req'.checks = req.checks \cup {}
    BY <1>3, <1>6, <2>1, <2>3, VisitedAsks
  <2> QED BY <2>3, <2>4, TradeStep
<1>9. ASSUME NEW k, Raise(l, k) PROVE Counts'
  <2> DEFINE row == tx.line[l]
             n == req.items[k].quantity
  <2>1. /\ VisitWith(l, k) /\ n > row.quantity
        /\ CanReserve(tx, PoolOf(row), n - row.quantity)
        /\ tx' = Count(Reserve(tx, l, n - row.quantity), l, n)
        /\ Visited(l, {k}, {row.type})
    BY <1>9 DEF Raise
  <2>2. n \in Nat /\ Whole(row, tx.box) /\ row.type \in Types
    BY <1>6, <2>1
  <2>3. PICK ts : ts = {row.type}
    OBVIOUS
  <2>4. Traded(tx, tx', l) /\ NoMore(tx, tx', l, ts)
    BY <1>1, <2>1, <2>2, <2>3, RaiseTrades
  <2>5. Visited(l, {k}, ts) /\ ts \in SUBSET Types
    BY <2>1, <2>2, <2>3
  <2>6. Asks' /\ Unchanged /\ req'.checks = req.checks \cup ts
    BY <1>3, <1>6, <2>1, <2>4, <2>5, VisitedAsks
  <2> QED BY <2>4, <2>5, <2>6, TradeStep
<1> QED BY <1>4, <1>5, <1>7, <1>8, <1>9

\* A new line takes its tickets from the stock.
LEMMA InsertCounts ==
    ASSUME Counts, LinesInv', NEW k
    PROVE  /\ \A l \in Lines : RaiseAtNewPrice(l, k) => Counts'
           /\ AddLine(k) => Counts'
<1>1. /\ tx \in Tables /\ Sound(tx) /\ Asking /\ Organized
      /\ req.todo \subseteq InCart(tx)
  BY DEF Counts, TypeOK, LinesInv, Asks
<1>2. ASSUME NEW l \in Lines, RaiseAtNewPrice(l, k) PROVE Counts'
  <2>1. PICK item, missing, ts :
          /\ item = req.items[k] /\ missing = req.items[k].quantity - tx.line[l].quantity
          /\ ts = {tx.line[l].type}
    OBVIOUS
  <2>2. /\ VisitWith(l, k) /\ missing > 0 /\ CanInsert(tx, item, missing)
        /\ Visited(l, {k}, ts)
    BY <1>2, <2>1 DEF RaiseAtNewPrice
  <2>3. PICK new \in FreeLines(tx) : tx' = Insert(tx, new, item, missing)
    BY <1>2, <2>1 DEF RaiseAtNewPrice
  <2>4. /\ item \in Items /\ tx.line[l].type = item.type /\ Whole(tx.line[l], tx.box)
    BY <1>1, <2>1, <2>2, MatchedRow
  <2>5. missing \in Nat /\ ts = {item.type} /\ ts \in SUBSET Types
    BY <2>1, <2>2, <2>4 DEF Items, Whole
  <2>6. new \in Lines /\ tx.line[new] = NoLine
    BY <2>3 DEF FreeLines, InCart
  <2>7. Traded(tx, tx', new) /\ NoMore(tx, tx', new, ts)
    BY <1>1, <2>2, <2>3, <2>4, <2>5, <2>6, InsertTrades
  <2>8. \A j \in req.todo \ {l} : j \in InCart(tx')
    BY <1>1, <2>6, <2>7 DEF Traded, InCart
  <2>9. {k} \subseteq DOMAIN req.items /\ Visit(l)
    BY <2>2 DEF VisitWith, First, Matching
  <2>10. Asks' /\ Unchanged /\ req'.checks = req.checks \cup ts
    BY <2>2, <2>5, <2>8, <2>9, VisitedAsks
  <2> QED BY <2>5, <2>6, <2>7, <2>10, TradeStep
<1>3. ASSUME AddLine(k) PROVE Counts'
  <2>1. PICK item, n, ts :
          item = req.items[k] /\ n = item.quantity /\ ts = {item.type}
    OBVIOUS
  <2>2. /\ req.stage = "add" /\ First(k, Remaining) /\ CanInsert(tx, item, n)
        /\ req' = [req EXCEPT !.used = @ \cup {k}, !.checks = @ \cup ts]
        /\ Unchanged
    BY <1>3, <2>1 DEF AddLine
  <2>3. PICK new \in FreeLines(tx) : tx' = Insert(tx, new, item, n)
    BY <1>3, <2>1 DEF AddLine
  <2>4. k \in DOMAIN req.items /\ item \in Items
    BY <1>1, <2>1, <2>2 DEF First, Remaining, Asking
  <2>5. n \in Nat /\ ts \in SUBSET Types
    BY <2>1, <2>4 DEF Items
  <2>6. new \in Lines /\ tx.line[new] = NoLine
    BY <2>3 DEF FreeLines, InCart
  <2>7. Traded(tx, tx', new) /\ NoMore(tx, tx', new, ts)
    BY <1>1, <2>1, <2>2, <2>3, <2>4, <2>5, <2>6, InsertTrades
  <2>8. \A j \in req.todo : j \in InCart(tx')
    BY <1>1, <2>6, <2>7 DEF Traded, InCart
  <2>9. /\ req'.stage = "add" /\ req'.items = req.items /\ req'.todo = req.todo
        /\ req'.used = req.used \cup {k} /\ req'.checks = req.checks \cup ts
    BY <1>1, <2>2 DEF Asking
  <2>10. InCart(tx)' = InCart(tx')
    BY DEF InCart
  <2>11. Asks'
    BY <2>4, <2>5, <2>8, <2>9, <2>10 DEF Counts, Asks
  <2> QED BY <2>2, <2>5, <2>6, <2>7, <2>9, <2>11, TradeStep
<1> QED BY <1>2, <1>3

\* The tickets of a type are those of its pools.
LEMMA PoolsOfType ==
    ASSUME NEW d, \A l \in Lines : d.line[l].held \in Nat, NEW t,
           \A l \in Lines : d.line[l].hold \in Holds \cup {Null}
    PROVE  SumFunctionOnSet([h \in Holds \cup {Null} |-> HeldIn(d, <<t, h>>)], Holds \cup {Null})
           = Held(d, t)
<1> DEFINE H == Holds \cup {Null}
           F == [h \in H |-> HeldIn(d, <<t, h>>)]
           P(h) == [l \in Lines |-> IF PoolOf(d.line[l]) = <<t, h>> THEN d.line[l].held ELSE 0]
           G(U) == [l \in Lines |->
                      IF d.line[l].type = t /\ d.line[l].hold \in U THEN d.line[l].held ELSE 0]
           B == {U \in SUBSET H : SumFunctionOnSet(F, U) # SumFunctionOnSet(G(U), Lines)}
<1>1. IsFiniteSet(H)
  BY FiniteAssumption, FS_AddElement
<1>2. B = {}
  <2> SUFFICES ASSUME B # {} PROVE FALSE
    OBVIOUS
  <2>1. PICK U \in B : \A V \in B : V \subseteq U => V = U
    <3> HIDE DEF H
    <3>1. B \subseteq SUBSET H
      OBVIOUS
    <3> HIDE DEF B
    <3>2. \E U \in B : \A V \in B : V \subseteq U => V = U
      BY <1>1, <3>1, Smallest
    <3> QED BY <3>2
  <2>2. /\ U \in SUBSET H /\ SumFunctionOnSet(F, U) # SumFunctionOnSet(G(U), Lines)
        /\ IsFiniteSet(U)
    BY <1>1, <2>1, FS_Subset
  <2>3. U # {}
    <3> SUFFICES ASSUME U = {} PROVE FALSE
      OBVIOUS
    <3>1. \A l \in Lines : G({})[l] = 0
      OBVIOUS
    <3> HIDE DEF F, G
    <3>2. SumFunctionOnSet(F, {}) = 0 /\ SumFunctionOnSet(G({}), Lines) = 0
      BY <3>1, SumOfNone, SumOfZeros, FiniteAssumption
    <3> QED BY <2>2, <3>2
  <2> DEFINE x == Pick(U)
             V == U \ {x}
  <2>4. /\ x \in U
        /\ SumFunctionOnSet(F, U) = F[x] + SumFunctionOnSet(F, V)
    <3> HIDE DEF F
    <3> QED BY <2>2, <2>3, SumPicks
  <2> HIDE DEF x
  <2>5. SumFunctionOnSet(F, V) = SumFunctionOnSet(G(V), Lines)
    <3>1. V \in SUBSET H /\ V \subseteq U /\ V # U
      BY <2>2, <2>4
    <3>2. V \notin B
      <4> HIDE DEF B, V
      <4> QED BY <2>1, <3>1
    <3> HIDE DEF F, G
    <3> QED BY <3>1, <3>2
  <2>6. F[x] = SumFunctionOnSet(P(x), Lines)
    BY <2>2, <2>4 DEF HeldIn
  <2>7. \A l \in Lines : /\ P(x)[l] \in Int /\ G(V)[l] \in Int
                         /\ G(U)[l] = P(x)[l] + G(V)[l]
    <3> SUFFICES ASSUME NEW l \in Lines
                 PROVE  /\ P(x)[l] \in Int /\ G(V)[l] \in Int
                        /\ G(U)[l] = P(x)[l] + G(V)[l]
      OBVIOUS
    <3>1. d.line[l].held \in Nat
      OBVIOUS
    <3>2. PoolOf(d.line[l]) = <<t, x>> <=> d.line[l].type = t /\ d.line[l].hold = x
      BY DEF PoolOf
    <3> QED BY <2>4, <3>1, <3>2
  <2>8. SumFunctionOnSet(G(U), Lines)
          = SumFunctionOnSet(P(x), Lines) + SumFunctionOnSet(G(V), Lines)
    <3> HIDE DEF P, G, V
    <3> QED BY <2>7, SumOfBoth, FiniteAssumption
  <2> QED BY <2>2, <2>4, <2>5, <2>6, <2>8
<1>3. SumFunctionOnSet(F, H) = SumFunctionOnSet(G(H), Lines)
  BY <1>2
<1>4. G(H) = [l \in Lines |-> IF d.line[l].type = t THEN d.line[l].held ELSE 0]
  OBVIOUS
<1> QED BY <1>3, <1>4 DEF Held

LEMMA NewCartCounts ==
    ASSUME NEW s \in [AllPools -> Nat]
    PROVE  LET c == NewCart(s)
           IN  /\ c \in Tables /\ c.stock = s
               /\ \A p : HeldIn(c, p) = 0
               /\ \A t : Held(c, t) = 0
<1> DEFINE c == NewCart(s)
<1>1. c \in Tables /\ c.stock = s
  BY NoLineHoldsNone DEF NewCart, Tables
<1>2. \A l \in Lines : c.line[l].held = 0
  BY NoLineHoldsNone DEF NewCart
<1> HIDE DEF c
<1>3. (\A p : HeldIn(c, p) = 0) /\ (\A t : Held(c, t) = 0)
  BY <1>2, SumsOfNoLine
<1> QED BY <1>1, <1>3 DEF c

\* A cart is cleared of what it holds if it can release what it counts.
LEMMA ClearedCounts ==
    ASSUME NEW d \in Tables, Sound(d), NEW box \in BOOLEAN,
           \A l \in InCart(d) : CanRelease(d, l, d.line[l].quantity)
    PROVE  LET c == [Cleared(d) EXCEPT !.box = box]
           IN  /\ c \in Tables
               /\ \A p \in AllPools : c.stock[p] = d.stock[p] + HeldIn(d, p)
               /\ \A p : HeldIn(c, p) = 0
               /\ \A t : Held(c, t) = 0
<1> DEFINE c == [Cleared(d) EXCEPT !.box = box]
<1>1. \A l \in Lines : d.line[l].held = d.line[l].quantity
  <2> SUFFICES ASSUME NEW l \in Lines PROVE d.line[l].held = d.line[l].quantity
    OBVIOUS
  <2>1. CASE d.line[l] = NoLine
    BY <2>1 DEF NoLine
  <2>2. CASE d.line[l] # NoLine
    <3>1. /\ d.line[l].quantity \in Nat /\ d.line[l].held \in Nat
          /\ d.line[l].held <= d.line[l].quantity /\ d.line[l].held >= d.line[l].quantity
      BY <2>2 DEF Sound, Whole, InCart, CanRelease
    <3> QED BY <3>1
  <2> QED BY <2>1, <2>2
<1>2. \A p : CountedIn(d, p) = HeldIn(d, p)
  <2> TAKE p
  <2>1. [l \in Lines |-> IF PoolOf(d.line[l]) = p THEN d.line[l].quantity ELSE 0]
        = [l \in Lines |-> IF PoolOf(d.line[l]) = p THEN d.line[l].held ELSE 0]
    BY <1>1
  <2> QED BY <2>1 DEF CountedIn, HeldIn
<1>3. /\ c.line = [l \in Lines |-> NoLine]
      /\ c.stock = [p \in AllPools |-> d.stock[p] + CountedIn(d, p)]
      /\ c.eventFees = d.eventFees /\ c.expires = d.expires /\ c.box = box
  BY DEF Cleared, Tables
<1>4. c.stock \in [AllPools -> Nat]
  BY <1>2, <1>3, TableFields
<1>5. c \in Tables
  <2>1. c.line \in [Lines -> LineRows]
    BY <1>3, NoLineHoldsNone
  <2>2. Cleared(d) \in Tables
    BY <1>3, <1>4, <2>1 DEF Cleared, Tables
  <2> QED BY <2>2 DEF Tables
<1>6. \A l \in Lines : c.line[l].held = 0
  BY <1>3, NoLineHoldsNone
<1> HIDE DEF c
<1>7. (\A p : HeldIn(c, p) = 0) /\ (\A t : Held(c, t) = 0)
  BY <1>6, SumsOfNoLine
<1>8. \A p \in AllPools : c.stock[p] = d.stock[p] + HeldIn(d, p)
  BY <1>2, <1>3
<1> QED BY <1>5, <1>7, <1>8 DEF c

\* The groups can be counted.
LEMMA GroupsAreFinite ==
    ASSUME NEW d, NEW order \in Orders(d), NEW e
    PROVE  /\ IsFiniteSet(Groups(order, d, e))
           /\ order \in Seq(InCart(d)) /\ DOMAIN order = 1..Len(order)
<1>1. InCart(d) \subseteq Lines
  BY DEF InCart
<1>2. IsFiniteSet(InCart(d))
  BY <1>1, FiniteAssumption, FS_Subset
<1>3. PICK n \in Nat : n = Cardinality(InCart(d))
  BY <1>2, FS_CardinalityType
<1>4. order \in [1..n -> InCart(d)]
  BY <1>3 DEF Orders, SetToSeqs
<1>5. order \in Seq(InCart(d)) /\ DOMAIN order = 1..n /\ Len(order) = n
  BY <1>4
<1>6. IsFiniteSet((1..n) \X (1..n))
  <2>1. IsFiniteSet(1..n)
    BY FS_Interval
  <2> QED BY <2>1, FS_Product
<1>7. Groups(order, d, e) \subseteq (1..n) \X (1..n)
  BY <1>5 DEF Groups
<1> QED BY <1>5, <1>6, <1>7, FS_Subset

LEMMA EventFeesAreNat ==
    ASSUME NEW d, NEW order \in Orders(d), NEW e
    PROVE  EventFeesOf(order, d, e) \in Nat
<1> DEFINE paid == {g \in Groups(order, d, e) :
                       \E i \in g[1]..g[2] : /\ d.line[order[i]].price > 0
                                             /\ ~IsComp(d.line[order[i]])}
<1>1. IsFiniteSet(paid)
  <2>1. paid \subseteq Groups(order, d, e)
    OBVIOUS
  <2> QED BY <2>1, GroupsAreFinite, FS_Subset
<1> HIDE DEF paid
<1>2. Cardinality(paid) \in Nat
  BY <1>1, FS_CardinalityType
<1> QED BY <1>2 DEF EventFeesOf, paid

\* The fees are all that update_fees writes.
LEMMA FeesKeepTables ==
    ASSUME NEW d \in Tables, schedule \in Schedules, NEW order \in Orders(d)
    PROVE  LET c == WithFees(d, order)
           IN  /\ c \in Tables /\ c.stock = d.stock /\ c.expires = d.expires /\ c.box = d.box
               /\ \A l \in Lines : /\ c.line[l].type = d.line[l].type
                                   /\ c.line[l].hold = d.line[l].hold
                                   /\ c.line[l].price = d.line[l].price
                                   /\ c.line[l].held = d.line[l].held
               /\ \A e \in Events : c.eventFees[e] = EventFeesOf(order, d, e)
<1> DEFINE c == WithFees(d, order)
           new(l) == [d.line[l] EXCEPT !.fee = LineFee(d.line[l])]
<1>1. /\ c.line = [l \in Lines |-> new(l)]
      /\ c.eventFees = [e \in Events |-> EventFeesOf(order, d, e)]
      /\ c.stock = d.stock /\ c.expires = d.expires /\ c.box = d.box
  BY DEF WithFees, Tables
<1>2. \A l \in Lines : LineFee(d.line[l]) \in [quantity : Nat, unit : Nat]
  <2> SUFFICES ASSUME NEW l \in Lines
               PROVE  LineFee(d.line[l]) \in [quantity : Nat, unit : Nat]
    OBVIOUS
  <2>1. /\ d.line[l] \in LineRows /\ d.line[l].quantity \in Nat
        /\ d.line[l].fee \in [quantity : Nat, unit : Nat]
    BY TableFields, RowFieldsOf
  <2>2. RangesFor(d.line[l].price) # {} => FeeFor(d.line[l].price) \in Nat
    BY FeeIsNat
  <2> QED BY <2>1, <2>2 DEF LineFee, NoFee
<1>3. \A l \in Lines :
         /\ new(l) \in LineRows
         /\ new(l).type = d.line[l].type /\ new(l).hold = d.line[l].hold
         /\ new(l).price = d.line[l].price /\ new(l).held = d.line[l].held
  <2>1. \A l \in Lines : d.line[l] \in LineRows
    BY TableFields
  <2> QED BY <1>2, <2>1 DEF LineRows
<1>4. c.eventFees \in [Events -> Nat]
  BY <1>1, EventFeesAreNat
<1>5. c.line \in [Lines -> LineRows]
  BY <1>1, <1>3
<1>6. c \in Tables
  BY <1>4, <1>5 DEF WithFees, Tables
<1> QED BY <1>1, <1>3, <1>6

\* A step after which no request is under way or one begins: the tables it
\* sees are whole and within all limits.
LEMMA FreshStep ==
    ASSUME TypeOK', LinesInv', Asks', Kept(db)', Kept(tx)',
           \A t \in Types : WithinLimit(db, t)' /\ WithinLimit(tx, t)'
    PROVE  Counts'
  BY DEF Counts

LEMMA BeginCounts ==
    ASSUME Counts, LinesInv', NEW items \in Asked, NEW others, NEW box \in BOOLEAN,
           Begin(items, others, box)
    PROVE  Counts'
<1>1. /\ db \in Tables /\ Sound(db) /\ bought \in [AllPools -> Nat]
      /\ db' = db /\ bought' = bought /\ UNCHANGED organizer
  BY DEF Counts, TypeOK, LinesInv, Begin, Unchanged
<1>2. /\ req'.stage = "match" /\ req'.items = items /\ req'.used = {} /\ req'.checks = {}
      /\ req'.todo = IF box = db.box THEN InCart(db) ELSE {}
  BY DEF Begin, NoRequest
<1>3. Kept(db)' /\ \A t \in Types : WithinLimit(db, t)'
  BY <1>1 DEF Counts, Kept, HeldIn, WithinLimit, Held, Bought
<1>4. CASE box = db.box
  <2>1. tx' = db
    BY <1>4 DEF Begin
  <2>2. Asks'
    BY <1>2, <1>4, <2>1 DEF Asks, InCart
  <2>3. Kept(tx)' /\ \A t \in Types : WithinLimit(tx, t)'
    BY <1>1, <1>3, <2>1 DEF Kept, HeldIn, WithinLimit, Held, Bought
  <2>4. TypeOK'
    BY <1>1, <2>1, <2>2 DEF Counts, TypeOK, Asks, organizer
  <2> QED BY <1>3, <2>2, <2>3, <2>4, FreshStep
<1>5. CASE box # db.box
  <2>1. /\ tx' = [Cleared(db) EXCEPT !.box = box]
        /\ \A l \in InCart(db) : CanRelease(db, l, db.line[l].quantity)
    BY <1>5 DEF Begin
  <2>2. /\ tx' \in Tables
        /\ \A p \in AllPools : tx'.stock[p] = db.stock[p] + HeldIn(db, p)
        /\ \A p : HeldIn(tx', p) = 0
        /\ \A t : Held(tx', t) = 0
    BY <1>1, <2>1, ClearedCounts
  <2>3. Asks'
    BY <1>2, <1>5 DEF Asks
  <2>4. TypeOK'
    BY <1>1, <2>2, <2>3 DEF Counts, TypeOK, Asks, organizer
  <2>5. Kept(tx)'
    <3>1. SUFFICES ASSUME NEW p \in AllPools
                   PROVE  Stock[p] = tx'.stock[p] + bought[p] + HeldIn(tx', p)
      BY <1>1 DEF Kept, HeldIn
    <3>2. Stock[p] = db.stock[p] + bought[p] + HeldIn(db, p)
      BY DEF Counts, Kept
    <3>3. db.stock[p] \in Nat /\ bought[p] \in Nat /\ HeldIn(db, p) \in Nat
      BY <1>1, TableFields
    <3> QED BY <2>2, <3>2, <3>3
  <2>6. ASSUME NEW t \in Types PROVE WithinLimit(tx, t)'
    <3>1. WithinLimit(db, t) /\ Held(db, t) \in Nat
      BY <1>1, TableFields DEF Counts
    <3>2. WithinLimit(tx', t)
      BY <1>1, <2>2, <3>1, LessWithin
    <3> QED BY <1>1, <3>2 DEF WithinLimit, Held, Bought
  <2> QED BY <1>3, <2>3, <2>4, <2>5, <2>6, FreshStep
<1> QED BY <1>4, <1>5

LEMMA StartCounts ==
    ASSUME Counts, LinesInv', StartAdding
    PROVE  Counts'
<1>1. /\ tx \in Tables /\ tx' = [tx EXCEPT !.expires = TRUE] /\ Unchanged
      /\ DOMAIN req = {"stage", "items", "others", "todo", "used", "checks"}
      /\ req' = [req EXCEPT !.stage = "add"]
  BY DEF Counts, TypeOK, LinesInv, Asking, StartAdding
<1>2. tx' \in Tables /\ tx'.line = tx.line /\ tx'.stock = tx.stock
  BY <1>1 DEF Tables
<1>3. /\ req'.stage = "add" /\ req'.items = req.items /\ req'.todo = req.todo
      /\ req'.used = req.used /\ req'.checks = req.checks
  BY <1>1
<1>4. Asks'
  BY <1>2, <1>3 DEF Counts, Asks, InCart
<1> QED BY <1>1, <1>2, <1>3, <1>4, QuietStep

LEMMA RefuseCounts ==
    ASSUME Counts, LinesInv', Refuse
    PROVE  Counts'
<1>1. tx' = db /\ db' = db /\ bought' = bought /\ UNCHANGED organizer /\ req' = NoRequest
  BY DEF Refuse, Unchanged
<1>2. Asks'
  BY <1>1 DEF Asks, NoRequest
<1>3. TypeOK'
  BY <1>1, <1>2 DEF Counts, TypeOK, Asks, organizer
<1>4. Kept(db)' /\ Kept(tx)' /\ \A t \in Types : WithinLimit(db, t)' /\ WithinLimit(tx, t)'
  BY <1>1 DEF Counts, Kept, HeldIn, WithinLimit, Held, Bought
<1> QED BY <1>2, <1>3, <1>4, FreshStep

LEMMA FinishCounts ==
    ASSUME Counts, LinesInv', Finish
    PROVE  Counts'
<1>1. /\ tx \in Tables /\ schedule \in Schedules /\ bought \in [AllPools -> Nat]
  BY DEF Counts, TypeOK
<1>2. PICK d : d = IF IsEmpty(tx) THEN [tx EXCEPT !.expires = FALSE] ELSE tx
  OBVIOUS
<1>3. PICK order \in Orders(d) : db' = WithFees(d, order)
  BY <1>2 DEF Finish
<1>4. /\ WithinLimits(d) /\ tx' = db' /\ req' = NoRequest
      /\ UNCHANGED <<current, holdType, schedule, bought>> /\ changed' = StillIn(d)
  BY <1>2 DEF Finish
<1>5. d \in Tables /\ d.line = tx.line /\ d.stock = tx.stock
  BY <1>1, <1>2 DEF Tables
<1>6. /\ db' \in Tables /\ db'.stock = tx.stock
      /\ \A l \in Lines : /\ db'.line[l].type = tx.line[l].type
                          /\ db'.line[l].hold = tx.line[l].hold
                          /\ db'.line[l].held = tx.line[l].held
  BY <1>1, <1>3, <1>5, FeesKeepTables
<1>7. (\A p : HeldIn(db', p) = HeldIn(tx, p)) /\ (\A t : Held(db', t) = Held(tx, t))
  BY <1>6, SumsOfSameLines
<1>8. Kept(db)' /\ Kept(tx)'
  <2>1. \A p \in AllPools : Stock[p] = db'.stock[p] + bought'[p] + HeldIn(db', p)
    BY <1>4, <1>6, <1>7 DEF Counts, Kept
  <2> QED BY <1>4, <2>1 DEF Kept, HeldIn
<1>9. ASSUME NEW t \in Types PROVE WithinLimit(db, t)' /\ WithinLimit(tx, t)'
  <2>1. WithinLimit(tx, t)
    <3>1. CASE t \in req.checks
      BY <1>4, <1>5, <3>1 DEF WithinLimits, WithinLimit, Held
    <3>2. CASE t \notin req.checks
      BY <3>2 DEF Counts
    <3> QED BY <3>1, <3>2
  <2>2. WithinLimit(db', t)
    BY <1>7, <2>1 DEF WithinLimit
  <2> QED BY <1>4, <2>2 DEF WithinLimit, Held, Bought
<1>10. changed' \subseteq Types \cup Holds \cup {"schedule"}
  BY <1>4 DEF StillIn, Counts, TypeOK
<1>11. Asks'
  BY <1>4 DEF Asks, NoRequest
<1>12. TypeOK'
  BY <1>4, <1>6, <1>10, <1>11 DEF Counts, TypeOK, Asks
<1> QED BY <1>8, <1>9, <1>11, <1>12, FreshStep

\* The cart is paid or expires: its tickets are bought or free.
LEMMA LeaveCounts ==
    ASSUME Counts, LinesInv', Checkout \/ Expire
    PROVE  Counts'
<1>1. /\ db \in Tables /\ Sound(db) /\ bought \in [AllPools -> Nat]
      /\ req.stage = "idle" /\ req.todo = {}
  BY DEF Counts, TypeOK, LinesInv, Checkout, Expire, Asks
<1>2. PICK s : Leave(s) /\ (s = IF Checkout THEN db.stock
                               ELSE [p \in AllPools |-> db.stock[p] + HeldIn(db, p)])
  BY DEF Checkout, Expire
<1>3. /\ db.stock \in [AllPools -> Nat] /\ \A p : HeldIn(db, p) \in Nat
      /\ \A t : Held(db, t) \in Nat
  BY <1>1, TableFields
<1>4. s \in [AllPools -> Nat]
  BY <1>2, <1>3
<1>5. /\ db' = NewCart(s) /\ tx' = db' /\ changed' = {}
      /\ UNCHANGED <<current, holdType, schedule, req>>
  BY <1>2 DEF Leave
<1>6. /\ db' \in Tables /\ db'.stock = s /\ \A p : HeldIn(db', p) = 0
      /\ \A t : Held(db', t) = 0
  BY <1>4, <1>5, NewCartCounts
<1>7. ASSUME NEW p \in AllPools
      PROVE  /\ bought'[p] \in Nat
             /\ Stock[p] = s[p] + bought'[p]
  <2>1. /\ Stock[p] = db.stock[p] + bought[p] + HeldIn(db, p)
        /\ db.stock[p] \in Nat /\ bought[p] \in Nat /\ HeldIn(db, p) \in Nat
    BY <1>1, <1>3 DEF Counts, Kept
  <2>2. CASE Checkout
    <3>1. s = db.stock /\ bought'[p] = bought[p] + HeldIn(db, p)
      BY <1>2, <2>2 DEF Checkout
    <3> QED BY <2>1, <3>1
  <2>3. CASE ~Checkout
    <3>1. s[p] = db.stock[p] + HeldIn(db, p) /\ bought'[p] = bought[p]
      BY <1>2, <2>3 DEF Expire
    <3> QED BY <2>1, <3>1
  <2> QED BY <2>2, <2>3
<1>8. bought' \in [AllPools -> Nat]
  <2>1. bought' = [p \in AllPools |-> bought'[p]]
    BY <1>1 DEF Checkout, Expire
  <2> QED BY <1>7, <2>1
<1>9. Kept(db)' /\ Kept(tx)'
  <2>1. \A p \in AllPools : Stock[p] = db'.stock[p] + bought'[p] + HeldIn(db', p)
    <3> SUFFICES ASSUME NEW p \in AllPools
                 PROVE  Stock[p] = db'.stock[p] + bought'[p] + HeldIn(db', p)
      OBVIOUS
    <3>1. HeldIn(db', p) = 0 /\ db'.stock[p] = s[p] /\ s[p] \in Nat
      BY <1>4, <1>6
    <3> QED BY <1>7, <3>1
  <2> QED BY <1>5, <2>1 DEF Kept, HeldIn
<1>10. ASSUME NEW t \in Types
       PROVE  Bought(t)' <= Held(db, t) + Bought(t) /\ Bought(t)' \in Nat
  <2> DEFINE H == Holds \cup {Null}
             f == [h \in H |-> bought[<<t, h>>]]
             g == [h \in H |-> HeldIn(db, <<t, h>>)]
             b == [h \in H |-> bought'[<<t, h>>]]
  <2>1. IsFiniteSet(H)
    BY FiniteAssumption, FS_AddElement
  <2>2. \A h \in H : <<t, h>> \in AllPools
    BY DEF AllPools
  <2>3. /\ \A h \in H : f[h] \in Nat /\ g[h] \in Nat /\ b[h] \in Nat
        /\ Bought(t) = SumFunctionOnSet(f, H) /\ Bought(t)' = SumFunctionOnSet(b, H)
    BY <1>1, <1>3, <1>8, <2>2 DEF Bought
  <2>4. SumFunctionOnSet(g, H) = Held(db, t)
    <3>1. \A l \in Lines : db.line[l].held \in Nat /\ db.line[l].hold \in Holds \cup {Null}
      BY <1>1, TableFields, RowFieldsOf
    <3> QED BY <3>1, PoolsOfType
  <2>5. CASE Checkout
    <3>1. \A h \in H : b[h] = f[h] + g[h]
      BY <2>2, <2>5 DEF Checkout
    <3> HIDE DEF f, g, b, H
    <3>2. SumFunctionOnSet(b, H) = SumFunctionOnSet(f, H) + SumFunctionOnSet(g, H)
      BY <2>1, <2>3, <3>1, SumOfBoth
    <3>3. SumFunctionOnSet(f, H) \in Nat /\ SumFunctionOnSet(g, H) \in Nat
      BY <2>1, <2>3, SumIsNat
    <3> QED BY <2>3, <2>4, <3>2, <3>3
  <2>6. CASE ~Checkout
    <3>1. b = f
      BY <2>6 DEF Expire
    <3> HIDE DEF f, g, b, H
    <3>2. SumFunctionOnSet(f, H) \in Nat /\ SumFunctionOnSet(g, H) \in Nat
      BY <2>1, <2>3, SumIsNat
    <3> QED BY <2>3, <2>4, <3>1, <3>2
  <2> QED BY <2>5, <2>6
<1>11. ASSUME NEW t \in Types PROVE WithinLimit(db, t)' /\ WithinLimit(tx, t)'
  <2>1. WithinLimit(db, t) /\ Held(db, t) \in Nat /\ Bought(t) \in Nat /\ Limit[t] \in Nat
    BY <1>1, <1>3, BoughtIsNat, CatalogAssumption DEF Counts
  <2>2. Bought(t)' <= Held(db, t) + Bought(t) /\ Bought(t)' \in Nat
    BY <1>10
  <2>3. Held(db, t)' = 0 /\ Held(tx, t)' = 0
    BY <1>5, <1>6 DEF Held
  <2>4. Limit[t] = 0 \/ Held(db, t) + Bought(t) <= Limit[t]
    BY <2>1 DEF WithinLimit
  <2>5. Limit[t] = 0 \/ 0 + Bought(t)' <= Limit[t]
    BY <2>1, <2>2, <2>4
  <2> QED BY <2>3, <2>5 DEF WithinLimit
<1>12. Asks'
  <2>1. req'.todo = {} /\ req' = req
    BY <1>1, <1>5
  <2> QED BY <2>1 DEF Counts, Asks
<1>13. TypeOK'
  BY <1>5, <1>6, <1>8, <1>12 DEF Counts, TypeOK, Asks
<1> QED BY <1>9, <1>11, <1>12, <1>13, FreshStep

\* What an organizer changes is not counted.
LEMMA OrganizersCount ==
    ASSUME Counts, LinesInv', UNCHANGED <<db, tx, req, bought>>,
           current' \in [Types -> [Kinds -> Pricings \cup {Null}]],
           holdType' \in [Holds -> {"Discount", "Comp"}], schedule' \in Schedules,
           changed' \subseteq Types \cup Holds \cup {"schedule"}
    PROVE  Counts'
<1>1. TypeOK' /\ Asks'
  BY DEF Counts, TypeOK, Asks, InCart
<1>2. /\ Kept(db)' /\ Kept(tx)'
      /\ \A t \in Types : WithinLimit(db, t)'
      /\ \A t \in Types \ req'.checks : WithinLimit(tx, t)'
  BY DEF Counts, Kept, HeldIn, WithinLimit, Held, Bought
<1> QED BY <1>1, <1>2 DEF Counts

LEMMA ChangesCount ==
    ASSUME Counts, LinesInv'
    PROVE  /\ \A t \in Types, kind \in Kinds, p \in Pricings \cup {Null} :
                 ChangePrice(t, kind, p) => Counts'
           /\ \A h \in Holds : ChangeHold(h) => Counts'
           /\ \A s \in Schedules : ChangeSchedule(s) => Counts'
<1>1. /\ current \in [Types -> [Kinds -> Pricings \cup {Null}]]
      /\ holdType \in [Holds -> {"Discount", "Comp"}] /\ schedule \in Schedules
      /\ changed \subseteq Types \cup Holds \cup {"schedule"}
  BY DEF Counts, TypeOK
<1>2. ASSUME NEW t \in Types, NEW kind \in Kinds, NEW p \in Pricings \cup {Null},
             ChangePrice(t, kind, p)
      PROVE  Counts'
  <2>1. current' \in [Types -> [Kinds -> Pricings \cup {Null}]]
    BY <1>1, <1>2 DEF ChangePrice
  <2>2. changed' \subseteq Types \cup Holds \cup {"schedule"}
    BY <1>1, <1>2 DEF ChangePrice, Touched
  <2> QED BY <1>1, <1>2, <2>1, <2>2, OrganizersCount DEF ChangePrice
<1>3. ASSUME NEW h \in Holds, ChangeHold(h)
      PROVE  Counts'
  <2>1. holdType' \in [Holds -> {"Discount", "Comp"}]
    BY <1>1, <1>3 DEF ChangeHold
  <2>2. changed' \subseteq Types \cup Holds \cup {"schedule"}
    BY <1>1, <1>3 DEF ChangeHold, Touched
  <2> QED BY <1>1, <1>3, <2>1, <2>2, OrganizersCount DEF ChangeHold
<1>4. ASSUME NEW s \in Schedules, ChangeSchedule(s)
      PROVE  Counts'
  BY <1>1, <1>4, OrganizersCount DEF ChangeSchedule
<1> QED BY <1>2, <1>3, <1>4

LEMMA InitCounts == Init => Counts
<1> SUFFICES ASSUME Init PROVE Counts
  OBVIOUS
<1>1. Stock \in [AllPools -> Nat]
  BY CatalogAssumption
<1>2. /\ db \in Tables /\ tx = db /\ db.stock = Stock /\ \A p : HeldIn(db, p) = 0
      /\ \A t : Held(db, t) = 0
  BY <1>1, NewCartCounts DEF Init
<1>3. Asks
  BY DEF Init, Asks, NoRequest
<1>4. TypeOK
  BY <1>2, <1>3 DEF Init, TypeOK, Asks
<1>5. Kept(db) /\ Kept(tx)
  BY <1>1, <1>2 DEF Init, Kept
<1>6. ASSUME NEW t \in Types PROVE WithinLimit(db, t) /\ WithinLimit(tx, t)
  <2> DEFINE H == Holds \cup {Null}
             f == [h \in H |-> bought[<<t, h>>]]
  <2>1. IsFiniteSet(H) /\ \A h \in H : f[h] = 0
    <3>1. \A h \in H : <<t, h>> \in AllPools
      BY DEF AllPools
    <3> QED BY <3>1, FiniteAssumption, FS_AddElement DEF Init
  <2>2. Bought(t) = SumFunctionOnSet(f, H)
    BY DEF Bought
  <2> HIDE DEF f, H
  <2>3. Bought(t) = 0
    BY <2>1, <2>2, SumOfZeros
  <2>4. Limit[t] \in Nat
    BY CatalogAssumption
  <2> QED BY <1>2, <2>3, <2>4 DEF WithinLimit
<1> QED BY <1>3, <1>4, <1>5, <1>6, InitLines DEF Counts

LEMMA NextCounts == Counts /\ [Next]_vars => Counts'
<1> SUFFICES ASSUME Counts, [Next]_vars PROVE Counts'
  OBVIOUS
<1>0. LinesInv'
  BY NextLines DEF Counts
<1>1. CASE UNCHANGED vars
  BY <1>0, <1>1, OrganizersCount DEF vars, Counts, TypeOK
<1>2. CASE \E items \in Asked, others, box \in BOOLEAN : Begin(items, others, box)
  BY <1>0, <1>2, BeginCounts
<1>3. CASE \E l \in Lines :
             \/ RemoveOther(l) \/ LeaveOther(l)
             \/ \E k \in DOMAIN req.items :
                   Keep(l, k) \/ Reduce(l, k) \/ Raise(l, k) \/ RaiseAtNewPrice(l, k)
  BY <1>0, <1>3, VisitCounts, InsertCounts
<1>4. CASE StartAdding \/ Refuse \/ \E k \in DOMAIN req.items : AddLine(k)
  BY <1>0, <1>4, StartCounts, RefuseCounts, InsertCounts
<1>5. CASE Finish
  BY <1>0, <1>5, FinishCounts
<1>6. CASE Checkout \/ Expire
  BY <1>0, <1>6, LeaveCounts
<1>7. CASE \/ \E t \in Types, kind \in Kinds, p \in Pricings \cup {Null} : ChangePrice(t, kind, p)
           \/ \E h \in Holds : ChangeHold(h)
           \/ \E s \in Schedules : ChangeSchedule(s)
  BY <1>0, <1>7, ChangesCount
<1> QED BY <1>1, <1>2, <1>3, <1>4, <1>5, <1>6, <1>7 DEF Next

LEMMA CountsInvariant == Spec => []Counts
  BY InitCounts, NextCounts, PTL DEF Spec

\* Whatever sequence of updates, refusals, checkouts and expiries a user goes
\* through and organizers interfere with, the tables are well formed, every
\* ticket is free, in the cart or bought, and no cart with tickets lasts for ever.
THEOREM CartsKeepAllTickets == Spec => []CartsAddUp
<1>1. Counts => CartsAddUp
  BY DEF Counts, LinesInv, Sound, CartsAddUp, TypeOK, Kept, NothingLost, TicketsExpire
<1> QED BY <1>1, CountsInvariant, PTL

\* No user comes to more tickets of a type than its limit, over the lines of
\* the cart, the holds and what was bought before.
THEOREM LimitsAreKept == Spec => []LimitKept
<1>1. Counts => LimitKept
  BY DEF Counts, LimitKept
<1> QED BY <1>1, CountsInvariant, PTL

-----------------------------------------------------------------------------
(* The fees of an event.                                                   *)

\* Lines i and j of an order would be in a group of event e if they are neighbours.
Same(d, order, e, i, j) ==
    /\ EventOf[d.line[order[i]].type] = e
    /\ d.line[order[i]].hold = d.line[order[j]].hold

\* What makes an event charge its fee.
LinesOf(d, e) == {l \in InCart(d) : EventOf[d.line[l].type] = e}
Priced(d, e) == {l \in LinesOf(d, e) : d.line[l].price > 0 /\ ~IsComp(d.line[l])}

FeeOf(d, e) ==
    \/ EventFee[e] = 0
    \/ /\ (d.eventFees[e] > 0) <=> (Priced(d, e) # {})
       /\ (\A l \in LinesOf(d, e) : d.line[l].hold = Null) => d.eventFees[e] <= 1

\* An order lists the cart's lines, each once.
LEMMA OrderListsAll ==
    ASSUME NEW d, NEW order \in Orders(d)
    PROVE  \E n \in Nat : /\ order \in [1..n -> InCart(d)] /\ Len(order) = n
                          /\ DOMAIN order = 1..n
                          /\ \A l \in InCart(d) : \E i \in 1..n : order[i] = l
<1>1. IsFiniteSet(InCart(d))
  <2>1. InCart(d) \in SUBSET Lines
    BY DEF InCart
  <2> QED BY <2>1, FiniteAssumption, FS_Subset
<1>2. PICK n \in Nat : n = Cardinality(InCart(d))
  BY <1>1, FS_CardinalityType
<1>3. /\ order \in [1..n -> InCart(d)]
      /\ \A i, j \in 1..n : i # j => order[i] # order[j]
  BY <1>2 DEF Orders, SetToSeqs
<1>4. order \in Injection(1..n, InCart(d))
  BY <1>3 DEF Injection, IsInjective
<1>5. IsFiniteSet(1..n) /\ Cardinality(1..n) = n
  BY FS_Interval
<1>6. order \in Surjection(1..n, InCart(d))
  BY <1>1, <1>2, <1>4, <1>5, FS_Injection
<1>7. \A l \in InCart(d) : \E i \in 1..n : order[i] = l
  BY <1>6 DEF Surjection
<1> QED BY <1>3, <1>7

\* The longest stretch around i of which P holds.
LEMMA Stretch ==
    ASSUME NEW n \in Nat, NEW i \in 1..n, NEW P \in [1..n -> BOOLEAN], P[i]
    PROVE  \E a \in 1..i, b \in i..n :
              /\ \A k \in a..b : P[k]
              /\ a = 1 \/ ~P[a - 1]
              /\ b = n \/ ~P[b + 1]
<1> DEFINE A == {a \in 1..i : \A k \in a..i : P[k]}
           B == {b \in i..n : \A k \in i..b : P[k]}
           f == [a \in A |-> 0 - a]
           g == [b \in B |-> b]
<1>1. i \in A /\ i \in B
  OBVIOUS
<1>2. IsFiniteSet(A) /\ IsFiniteSet(B)
  <2>1. IsFiniteSet(1..i) /\ IsFiniteSet(i..n) /\ A \in SUBSET (1..i) /\ B \in SUBSET (i..n)
    BY FS_Interval
  <2> HIDE DEF A, B
  <2> QED BY <2>1, FS_Subset
<1>3. PICK a \in A : \A x \in A : a <= x
  <2>1. \A x \in A : f[x] \in Int /\ f[x] = 0 - x /\ x \in Int
    OBVIOUS
  <2> HIDE DEF A, f
  <2>2. PICK a \in A : \A x \in A : f[x] <= f[a]
    BY <1>1, <1>2, <2>1, LargestAt
  <2>3. \A x \in A : a <= x
    BY <2>1, <2>2
  <2> QED BY <2>3
<1>4. PICK b \in B : \A x \in B : x <= b
  <2>1. \A x \in B : g[x] \in Int /\ g[x] = x
    OBVIOUS
  <2> HIDE DEF B, g
  <2>2. PICK b \in B : \A x \in B : g[x] <= g[b]
    BY <1>1, <1>2, <2>1, LargestAt
  <2>3. \A x \in B : x <= b
    BY <2>1, <2>2
  <2> QED BY <2>3
<1>5. \A k \in a..b : P[k]
  <2> SUFFICES ASSUME NEW k \in a..b PROVE P[k]
    OBVIOUS
  <2>1. k \in a..i \/ k \in i..b
    OBVIOUS
  <2> QED BY <2>1
<1>6. a = 1 \/ ~P[a - 1]
  <2> SUFFICES ASSUME a # 1, P[a - 1] PROVE FALSE
    OBVIOUS
  <2>1. a - 1 \in 1..i /\ \A k \in (a - 1)..i : k = a - 1 \/ k \in a..i
    OBVIOUS
  <2>2. a - 1 \in A
    BY <2>1
  <2> QED BY <1>3, <2>2
<1>7. b = n \/ ~P[b + 1]
  <2> SUFFICES ASSUME b # n, P[b + 1] PROVE FALSE
    OBVIOUS
  <2>1. b + 1 \in i..n /\ \A k \in i..(b + 1) : k = b + 1 \/ k \in i..b
    OBVIOUS
  <2>2. b + 1 \in B
    BY <2>1
  <2> QED BY <1>4, <2>2
<1> QED BY <1>5, <1>6, <1>7

LEMMA GroupIs ==
    ASSUME NEW d, NEW order, NEW n \in Nat, DOMAIN order = 1..n, Len(order) = n, NEW e,
           NEW a, NEW b
    PROVE  <<a, b>> \in Groups(order, d, e) <=>
              /\ a \in 1..n /\ b \in 1..n /\ a <= b
              /\ \A i \in a..b : Same(d, order, e, i, a)
              /\ a = 1 \/ ~Same(d, order, e, a - 1, a)
              /\ b = n \/ ~Same(d, order, e, b + 1, a)
<1> DEFINE row == [i \in DOMAIN order |-> d.line[order[i]]]
           same(i) == EventOf[row[i].type] = e /\ row[i].hold = row[a].hold
<1>1. ASSUME a \in 1..n, b \in 1..n, a <= b
      PROVE  /\ (\A i \in a..b : same(i)) <=> \A i \in a..b : Same(d, order, e, i, a)
             /\ (a = 1 \/ ~same(a - 1)) <=> (a = 1 \/ ~Same(d, order, e, a - 1, a))
             /\ (b = n \/ ~same(b + 1)) <=> (b = n \/ ~Same(d, order, e, b + 1, a))
  <2>1. \A i \in 1..n : same(i) <=> Same(d, order, e, i, a)
    BY <1>1 DEF Same
  <2> HIDE DEF same
  <2>2. /\ \A i \in a..b : i \in 1..n
        /\ a # 1 => a - 1 \in 1..n
        /\ b # n => b + 1 \in 1..n
    BY <1>1
  <2> QED BY <2>1, <2>2
<1>2. <<a, b>> \in Groups(order, d, e) <=>
        /\ a \in 1..n /\ b \in 1..n /\ a <= b
        /\ \A i \in a..b : same(i)
        /\ a = 1 \/ ~same(a - 1)
        /\ b = n \/ ~same(b + 1)
  BY ZenonT(40) DEF Groups
<1> HIDE DEF same
<1> QED BY <1>1, <1>2

\* A line with a price is in a group that is charged.
LEMMA PricedIsCharged ==
    ASSUME NEW d, NEW order \in Orders(d), NEW e, EventFee[e] # 0, Priced(d, e) # {}
    PROVE  EventFeesOf(order, d, e) > 0
<1>1. PICK n \in Nat : /\ order \in [1..n -> InCart(d)] /\ Len(order) = n
                       /\ DOMAIN order = 1..n
                       /\ \A l \in InCart(d) : \E i \in 1..n : order[i] = l
  BY OrderListsAll
<1>2. PICK i \in 1..n : order[i] \in Priced(d, e)
  BY <1>1 DEF Priced, LinesOf
<1> DEFINE P == [k \in 1..n |-> Same(d, order, e, k, i)]
<1>3. P \in [1..n -> BOOLEAN] /\ P[i]
  BY <1>2 DEF Same, Priced, LinesOf
<1>4. PICK a \in 1..i, b \in i..n :
        /\ \A k \in a..b : P[k]
        /\ a = 1 \/ ~P[a - 1]
        /\ b = n \/ ~P[b + 1]
  <2> HIDE DEF P
  <2> QED BY <1>3, Stretch
<1>5. /\ a \in 1..n /\ b \in 1..n /\ a <= b /\ i \in a..b
      /\ \A k \in a..b : k \in 1..n
      /\ a # 1 => a - 1 \in 1..n
      /\ b # n => b + 1 \in 1..n
  OBVIOUS
<1>6. /\ \A k \in a..b : Same(d, order, e, k, i)
      /\ a = 1 \/ ~Same(d, order, e, a - 1, i)
      /\ b = n \/ ~Same(d, order, e, b + 1, i)
  BY <1>4, <1>5
<1>7. \A k : Same(d, order, e, k, a) <=> Same(d, order, e, k, i)
  <2>1. Same(d, order, e, a, i)
    BY <1>5, <1>6
  <2> QED BY <2>1 DEF Same
<1>8. <<a, b>> \in Groups(order, d, e)
  <2>1. <<a, b>> \in Groups(order, d, e) <=>
          /\ a \in 1..n /\ b \in 1..n /\ a <= b
          /\ \A k \in a..b : Same(d, order, e, k, a)
          /\ a = 1 \/ ~Same(d, order, e, a - 1, a)
          /\ b = n \/ ~Same(d, order, e, b + 1, a)
    BY <1>1, GroupIs
  <2>2. /\ \A k \in a..b : Same(d, order, e, k, a)
        /\ a = 1 \/ ~Same(d, order, e, a - 1, a)
        /\ b = n \/ ~Same(d, order, e, b + 1, a)
    BY <1>6, <1>7
  <2> QED BY <1>5, <2>1, <2>2
<1> DEFINE paid == {g \in Groups(order, d, e) :
                       \E k \in g[1]..g[2] : /\ d.line[order[k]].price > 0
                                             /\ ~IsComp(d.line[order[k]])}
<1>9. <<a, b>> \in paid
  BY <1>2, <1>5, <1>8 DEF Priced
<1>10. IsFiniteSet(paid)
  <2>1. paid \in SUBSET Groups(order, d, e)
    OBVIOUS
  <2> HIDE DEF paid
  <2> QED BY <2>1, GroupsAreFinite, FS_Subset
<1>11. EventFeesOf(order, d, e) = Cardinality(paid)
  BY DEF EventFeesOf
<1> HIDE DEF paid
<1>12. Cardinality(paid) \in Nat /\ Cardinality(paid) # 0
  BY <1>9, <1>10, FS_CardinalityType, FS_EmptySet
<1> QED BY <1>11, <1>12

\* And a group is charged for a line with a price.
LEMMA ChargedIsPriced ==
    ASSUME NEW d, NEW order \in Orders(d), NEW e, EventFeesOf(order, d, e) > 0
    PROVE  Priced(d, e) # {}
<1>1. PICK n \in Nat : /\ order \in [1..n -> InCart(d)] /\ Len(order) = n
                       /\ DOMAIN order = 1..n
  BY OrderListsAll
<1> DEFINE paid == {g \in Groups(order, d, e) :
                       \E k \in g[1]..g[2] : /\ d.line[order[k]].price > 0
                                             /\ ~IsComp(d.line[order[k]])}
<1>2. paid # {}
  <2>1. EventFeesOf(order, d, e) = Cardinality(paid)
    BY DEF EventFeesOf
  <2> HIDE DEF paid
  <2>2. Cardinality({}) = 0
    BY FS_EmptySet
  <2> QED BY <2>1, <2>2
<1>3. PICK g \in Groups(order, d, e) : \E k \in g[1]..g[2] :
        d.line[order[k]].price > 0 /\ ~IsComp(d.line[order[k]])
  BY <1>2
<1>4. PICK a \in 1..n, b \in 1..n : g = <<a, b>>
  <2>1. g \in (DOMAIN order) \X (DOMAIN order)
    BY DEF Groups
  <2>2. QED
    BY <1>1, <2>1
<1> PICK k \in a..b : d.line[order[k]].price > 0 /\ ~IsComp(d.line[order[k]])
  BY <1>3, <1>4
<1>5. k \in 1..n /\ Same(d, order, e, k, a)
  BY <1>1, <1>3, <1>4, GroupIs
<1>6. order[k] \in Priced(d, e)
  BY <1>1, <1>3, <1>5 DEF Priced, LinesOf, Same
<1> QED BY <1>6

\* Without holds the lines of an event are one group.
LEMMA OneGroup ==
    ASSUME NEW d, NEW order \in Orders(d), NEW e,
           \A l \in LinesOf(d, e) : d.line[l].hold = Null
    PROVE  EventFeesOf(order, d, e) <= 1
<1>1. PICK n \in Nat : /\ order \in [1..n -> InCart(d)] /\ Len(order) = n
                       /\ DOMAIN order = 1..n
  BY OrderListsAll
<1>2. \A i, j, k \in 1..n :
        i < j /\ j < k /\ EventOf[d.line[order[i]].type] = EventOf[d.line[order[k]].type]
        => EventOf[d.line[order[j]].type] = EventOf[d.line[order[i]].type]
  BY <1>1 DEF Orders
<1>3. \A i \in 1..n : EventOf[d.line[order[i]].type] = e => d.line[order[i]].hold = Null
  BY <1>1 DEF LinesOf
<1>4. \A i, j \in 1..n :
        EventOf[d.line[order[j]].type] = e =>
          (Same(d, order, e, i, j) <=> EventOf[d.line[order[i]].type] = e)
  BY <1>3 DEF Same
<1>5. ASSUME NEW a \in 1..n, NEW b \in 1..n, <<a, b>> \in Groups(order, d, e),
             NEW i \in 1..n, EventOf[d.line[order[i]].type] = e
      PROVE  i \in a..b
  <2>1. /\ a <= b /\ \A k \in a..b : Same(d, order, e, k, a)
        /\ a = 1 \/ ~Same(d, order, e, a - 1, a)
        /\ b = n \/ ~Same(d, order, e, b + 1, a)
    <3>1. <<a, b>> \in Groups(order, d, e) <=>
            /\ a \in 1..n /\ b \in 1..n /\ a <= b
            /\ \A k \in a..b : Same(d, order, e, k, a)
            /\ a = 1 \/ ~Same(d, order, e, a - 1, a)
            /\ b = n \/ ~Same(d, order, e, b + 1, a)
      BY <1>1, GroupIs
    <3> QED BY <1>5, <3>1
  <2>2. a \in a..b /\ b \in a..b
    BY <2>1
  <2>3. EventOf[d.line[order[a]].type] = e /\ EventOf[d.line[order[b]].type] = e
    BY <2>1, <2>2 DEF Same
  <2>4. CASE i < a
    <3>1. a - 1 \in 1..n /\ (i = a - 1 \/ (i < a - 1 /\ a - 1 < a))
      BY <2>4
    <3>2. EventOf[d.line[order[a - 1]].type] = e
      BY <1>2, <1>5, <2>3, <3>1
    <3>3. Same(d, order, e, a - 1, a)
      BY <1>4, <2>3, <3>1, <3>2
    <3> QED BY <2>1, <2>4, <3>3
  <2>5. CASE b < i
    <3>1. b + 1 \in 1..n /\ (i = b + 1 \/ (b < b + 1 /\ b + 1 < i))
      BY <2>5
    <3>2. EventOf[d.line[order[b + 1]].type] = e
      BY <1>2, <1>5, <2>3, <3>1
    <3>3. Same(d, order, e, b + 1, a)
      BY <1>4, <2>3, <3>1, <3>2
    <3> QED BY <2>1, <2>5, <3>3
  <2> QED BY <2>4, <2>5
<1>6. ASSUME NEW g \in Groups(order, d, e), NEW h \in Groups(order, d, e)
      PROVE  g = h
  <2>0. g \in (1..n) \X (1..n) /\ h \in (1..n) \X (1..n)
    <3>1. Groups(order, d, e) \subseteq (DOMAIN order) \X (DOMAIN order)
      BY DEF Groups
    <3> QED BY <1>1, <3>1
  <2>1. PICK a \in 1..n, b \in 1..n : g = <<a, b>>
    BY <2>0
  <2>2. PICK p \in 1..n, q \in 1..n : h = <<p, q>>
    BY <2>0
  <2>3. /\ a <= b /\ \A k \in a..b : Same(d, order, e, k, a)
        /\ p <= q /\ \A k \in p..q : Same(d, order, e, k, p)
    BY <1>1, <1>6, <2>1, <2>2, GroupIs
  <2>4. /\ EventOf[d.line[order[a]].type] = e /\ EventOf[d.line[order[b]].type] = e
        /\ EventOf[d.line[order[p]].type] = e /\ EventOf[d.line[order[q]].type] = e
    <3>1. a \in a..b /\ b \in a..b /\ p \in p..q /\ q \in p..q
      BY <2>3
    <3> QED BY <2>3, <3>1 DEF Same
  <2>5. a \in p..q /\ b \in p..q /\ p \in a..b /\ q \in a..b
    BY <1>5, <1>6, <2>1, <2>2, <2>4
  <2>6. a = p /\ b = q
    BY <2>5
  <2> QED BY <2>1, <2>2, <2>6
<1> DEFINE paid == {g \in Groups(order, d, e) :
                       \E k \in g[1]..g[2] : /\ d.line[order[k]].price > 0
                                             /\ ~IsComp(d.line[order[k]])}
<1>7. paid = {} \/ \E x : paid = {x}
  BY <1>6
<1>8. EventFee[e] # 0 => EventFeesOf(order, d, e) = Cardinality(paid)
  BY DEF EventFeesOf
<1> HIDE DEF paid
<1>9. Cardinality(paid) = 0 \/ Cardinality(paid) = 1
  BY <1>7, FS_EmptySet, FS_Singleton
<1>10. EventFee[e] = 0 => EventFeesOf(order, d, e) = 0
  BY DEF EventFeesOf
<1> QED BY <1>8, <1>9, <1>10

FeesOfEvents == changed \cap Holds # {} \/ \A e \in Events : FeeOf(db, e)

LEMMA SameFees ==
    ASSUME FeesOfEvents, UNCHANGED <<db, holdType>>, changed \subseteq changed'
    PROVE  FeesOfEvents'
  BY DEF FeesOfEvents, FeeOf, LinesOf, Priced, InCart, IsComp

LEMMA FinishFees ==
    ASSUME Counts, LinesInv', Finish
    PROVE  FeesOfEvents'
<1>1. PICK d : d = IF IsEmpty(tx) THEN [tx EXCEPT !.expires = FALSE] ELSE tx
  OBVIOUS
<1>2. PICK order \in Orders(d) : db' = WithFees(d, order)
  BY <1>1 DEF Finish
<1>3. d \in Tables /\ schedule \in Schedules /\ holdType' = holdType /\ Sound(d)
  BY <1>1, FinishedCart DEF Counts, TypeOK, Tables, Finish
<1>4. /\ \A l \in Lines : /\ db'.line[l].type = d.line[l].type
                          /\ db'.line[l].hold = d.line[l].hold
                          /\ db'.line[l].price = d.line[l].price
      /\ \A e \in Events : db'.eventFees[e] = EventFeesOf(order, d, e)
  BY <1>2, <1>3, FeesKeepTables
<1>5. InCart(db') = InCart(d)
  <2>1. \A l \in Lines : d.line[l] # NoLine <=> d.line[l].type \in Types
    BY <1>3, NoLineIsNone DEF Sound, Whole
  <2>2. \A l \in Lines : db'.line[l] # NoLine <=> db'.line[l].type \in Types
    BY NoLineIsNone DEF LinesInv, Sound, Whole
  <2> QED BY <1>4, <2>1, <2>2 DEF InCart
<1>6. ASSUME NEW e \in Events PROVE FeeOf(db, e)'
  <2>1. \A l \in InCart(d) : /\ db'.line[l].type = d.line[l].type
                             /\ db'.line[l].hold = d.line[l].hold
                             /\ db'.line[l].price = d.line[l].price
                             /\ IsComp(db.line[l])' <=> IsComp(d.line[l])
    BY <1>3, <1>4 DEF InCart, IsComp
  <2>2. InCart(db)' = InCart(d)
    BY <1>5 DEF InCart
  <2>3. LinesOf(db, e)' = LinesOf(d, e)
    BY <2>1, <2>2 DEF LinesOf
  <2>4. \A l \in LinesOf(d, e) : l \in InCart(d)
    BY DEF LinesOf
  <2>5. Priced(db, e)' = Priced(d, e)
    BY <2>1, <2>3, <2>4 DEF Priced
  <2>6. EventFee[e] = 0 \/ ((db.eventFees[e])' > 0 <=> Priced(d, e) # {})
    BY <1>2, <1>4, PricedIsCharged, ChargedIsPriced
  <2>7. (\A l \in LinesOf(d, e) : d.line[l].hold = Null) => (db.eventFees[e])' <= 1
    BY <1>2, <1>4, OneGroup
  <2>8. (\A l \in LinesOf(db, e) : db.line[l].hold = Null)'
           <=> \A l \in LinesOf(d, e) : d.line[l].hold = Null
    BY <2>1, <2>3, <2>4
  <2> QED BY <2>3, <2>5, <2>6, <2>7, <2>8 DEF FeeOf
<1> QED BY <1>6 DEF FeesOfEvents

LEMMA LeaveFees ==
    ASSUME NEW s, Leave(s)
    PROVE  FeesOfEvents'
<1>1. db' = NewCart(s)
  BY DEF Leave
<1>2. InCart(db)' = {} /\ \A e \in Events : (db.eventFees[e])' = 0
  BY <1>1 DEF NewCart, InCart
<1> QED BY <1>2 DEF FeesOfEvents, FeeOf, LinesOf, Priced

LEMMA HoldFees ==
    ASSUME Counts, FeesOfEvents, NEW h \in Holds, ChangeHold(h)
    PROVE  FeesOfEvents'
<1>1. db' = db /\ changed' = changed \cup Touched(h) /\ holdType \in [Holds -> {"Discount", "Comp"}]
  BY DEF ChangeHold, Counts, TypeOK
<1>2. \A g \in Holds \ {h} : holdType'[g] = holdType[g]
  BY <1>1 DEF ChangeHold
<1>3. CASE \E l \in InCart(db) : db.line[l].hold = h
  BY <1>1, <1>3 DEF Touched, FeesOfEvents
<1>4. CASE \A l \in InCart(db) : db.line[l].hold # h
  <2>1. \A l \in InCart(db) : IsComp(db.line[l])' <=> IsComp(db.line[l])
    <3> SUFFICES ASSUME NEW l \in InCart(db)
                 PROVE  IsComp(db.line[l])' <=> IsComp(db.line[l])
      OBVIOUS
    <3>1. db.line[l].hold \in (Holds \cup {Null}) \ {h}
      BY <1>4 DEF Counts, LinesInv, Sound, InCart, Whole
    <3> QED BY <1>1, <1>2, <3>1 DEF IsComp
  <2>2. \A e : LinesOf(db, e)' = LinesOf(db, e) /\ LinesOf(db, e) \subseteq InCart(db)
    BY <1>1 DEF LinesOf, InCart
  <2>3. \A e : Priced(db, e)' = Priced(db, e)
    BY <1>1, <2>1, <2>2 DEF Priced
  <2>4. \A e : FeeOf(db, e) => FeeOf(db, e)'
    BY <1>1, <2>2, <2>3 DEF FeeOf
  <2> QED BY <1>1, <2>4 DEF FeesOfEvents
<1> QED BY <1>3, <1>4

LEMMA InitFees == Init => FeesOfEvents
<1> SUFFICES ASSUME Init PROVE FeesOfEvents
  OBVIOUS
<1>1. InCart(db) = {} /\ \A e \in Events : db.eventFees[e] = 0
  BY DEF Init, NewCart, InCart
<1> QED BY <1>1 DEF FeesOfEvents, FeeOf, LinesOf, Priced

LEMMA NextFees == Counts /\ FeesOfEvents /\ [Next]_vars => FeesOfEvents'
<1> SUFFICES ASSUME Counts, FeesOfEvents, [Next]_vars PROVE FeesOfEvents'
  OBVIOUS
<1>0. LinesInv'
  BY NextLines DEF Counts
<1>1. CASE UNCHANGED vars
  BY <1>1, SameFees DEF vars
<1>2. CASE \E items \in Asked, others, box \in BOOLEAN : Begin(items, others, box)
  BY <1>2, SameFees DEF Begin, Unchanged, organizer
<1>3. CASE \E l \in Lines :
             \/ RemoveOther(l) \/ LeaveOther(l)
             \/ \E k \in DOMAIN req.items :
                   Keep(l, k) \/ Reduce(l, k) \/ Raise(l, k) \/ RaiseAtNewPrice(l, k)
  <2>1. Unchanged
    BY <1>3, ZenonT(40) DEF RemoveOther, LeaveOther, Keep, Reduce, Raise, RaiseAtNewPrice, Visited
  <2> QED BY <2>1, SameFees DEF Unchanged, organizer
<1>4. CASE StartAdding \/ Refuse \/ \E k \in DOMAIN req.items : AddLine(k)
  <2>1. Unchanged
    BY <1>4 DEF StartAdding, Refuse, AddLine
  <2> QED BY <2>1, SameFees DEF Unchanged, organizer
<1>5. CASE Finish
  BY <1>0, <1>5, FinishFees
<1>6. CASE Checkout \/ Expire
  BY <1>6, LeaveFees DEF Checkout, Expire
<1>7. CASE \E t \in Types, kind \in Kinds, p \in Pricings \cup {Null} : ChangePrice(t, kind, p)
  BY <1>7, SameFees DEF ChangePrice
<1>8. CASE \E h \in Holds : ChangeHold(h)
  BY <1>8, HoldFees
<1>9. CASE \E s \in Schedules : ChangeSchedule(s)
  BY <1>9, SameFees DEF ChangeSchedule
<1> QED BY <1>1, <1>2, <1>3, <1>4, <1>5, <1>6, <1>7, <1>8, <1>9 DEF Next

\* However the database orders the lines, an event charges its fee exactly when
\* one of its lines has a price, and once if none is of a hold.
THEOREM EventFeesAreRight == Spec => []EventFeeFollows
<1>1. Init => Counts /\ FeesOfEvents
  BY InitCounts, InitFees
<1>2. (Counts /\ FeesOfEvents) /\ [Next]_vars => (Counts /\ FeesOfEvents)'
  BY NextCounts, NextFees
<1>3. FeesOfEvents => EventFeeFollows
  BY DEF FeesOfEvents, FeeOf, LinesOf, Priced, EventFeeFollows
<1> QED BY <1>1, <1>2, <1>3, PTL DEF Spec
=============================================================================
