----------------------------- MODULE Events_proofs -----------------------------
(***************************************************************************)
(* Proofs about Events with Pricing and Places, for any number of types,   *)
(* prices, artists, venues, stages, actions and overlapping requests.      *)
(***************************************************************************)
EXTENDS Events, FiniteSetTheorems, TLAPS

-----------------------------------------------------------------------------
(* The inductive invariants.                                               *)

\* A list of slots names an artist once.
SlotsDiffer ==
    \A r \in Requests : req[r].kind = "lineup" =>
        \A i, j \in DOMAIN req[r].slots : req[r].slots[i][1] = req[r].slots[j][1] => i = j

\* What a request has read of the event is so until another one has updated it.
EditKinds == {"publish", "unpublish", "cancel", "edit"}
SeenAsIs ==
    \A r \in Requests : req[r].kind \in EditKinds /\ req[r].clean =>
        req[r].seen.status = event.status /\ req[r].seen.date = event.date

\* Unless another one was overtaken, a list clears whatever is in the line-up.
ClearsAll ==
    \A r \in Requests : req[r].kind = "lineup" /\ req[r].clean => lineup \subseteq req[r].gone

\* An action that has found no import will begin the series, alone.
Imports == {j \in Jobs : job[j] # Null /\ job[j].kind = "import"}
Beginning == {j \in Jobs : job[j] # Null /\ job[j].found = FALSE}
LooksAreLists ==
    \A j \in Checked : job[j].kind = "list" /\ job[j].seen # Null
Series ==
    "twice" \notin excused =>
        /\ \A j \in Imports : ~job[j].lapsed
        /\ \A i, j \in Imports : i = j
        /\ \A i, j \in Beginning : i = j
        /\ Beginning # {} => Imports = {}

\* As long as nothing was missed somebody goes on: an import, or a list that has
\* not found one.
GoesOn ==
    event.status = "Published" /\ ~event.over /\ key /\ "missed" \notin excused =>
        \E j \in Jobs : job[j] # Null /\ (job[j].kind = "import" \/ job[j].found # TRUE)

\* A request that writes prices writes rows of its type and new ones, and no other
\* request writes prices of that type or the same rows.
OwnRows(r) ==
    \A p \in DOMAIN req[r].rows :
        LET new == req[r].rows[p] IN
        /\ pricing[p] # Null => pricing[p].type = req[r].type
        /\ new # Null => new.type = req[r].type
        /\ pricing[p] = Null => new # Null
Apart ==
    \A r, s \in BeingPriced : r # s =>
        /\ req[r].type # req[s].type
        /\ DOMAIN req[r].rows \cap DOMAIN req[s].rows = {}

\* What an order item refers to is not deleted, nor its price changed but where it
\* is published.
Respects(r) ==
    \A p \in DOMAIN req[r].rows :
        LET new == req[r].rows[p] IN
        /\ used[p] = "ordered" => new # Null
        /\ pricing[p] # Null /\ new # Null /\ pricing[p].status # "Published" =>
              new.price = pricing[p].price
UsedExist == \A p \in Rows : used[p] # "no" => pricing[p] # Null

\* No two online prices of a type are in force at one time, and one default price
\* has the dates of the type.
Fits(rows, t, period) ==
    /\ \A p, q \in OfType(rows, t, "Published") :
          p # q /\ ~rows[p].box /\ ~rows[q].box => ~Overlaps(rows[p], rows[q])
    /\ \E d \in OfType(rows, t, "Default") :
          /\ \A e \in OfType(rows, t, "Default") : e = d
          /\ rows[d].from = period.from /\ rows[d].to = period.to
PricesFit ==
    \A t \in Types :
        /\ type[t] # Null => Fits(pricing, t, type[t])
        /\ type[t] = Null => \A p \in Existing(pricing) : pricing[p].type # t
KnownType == \A r \in Requests : req[r].kind = "update" => type[req[r].type] # Null
WillFit(r) == Fits(Over(req[r].rows, pricing), req[r].type, req[r].row)
CacheSeen(r) ==
    req[r].clean =>
        /\ req[r].min = CachedMin(Over(req[r].rows, pricing))
        /\ req[r].max = CachedMax(Over(req[r].rows, pricing))

PricingInv ==
    /\ UsedExist /\ PricesFit /\ CacheIsTrue /\ Apart /\ KnownType
    /\ \A r \in BeingPriced : OwnRows(r) /\ Respects(r) /\ WillFit(r) /\ CacheSeen(r)

\* An entry is public as it was meant to be.
PublicAsMeant ==
    \A x \in Entries : entry[x] # Null /\ public[x] # Null => public[x] = ~entry[x].private

\* What a request relies upon is as it was read, unless it was overtaken, and its
\* user had the right to what it is about to do.
EntryAsRead ==
    \A r \in Requests : req[r].kind = "entry" =>
        LET q == req[r] IN
        /\ entry[q.id] # Null
        /\ q.clean => entry[q.id].private = q.row.private /\ entry[q.id].org = q.row.org
        /\ q.does = "update" => MayWrite(q.user, q.id, q.row)
        /\ q.does = "assign" => q.row.org = Null
StageAsRead ==
    \A r \in Requests : req[r].kind = "stage" =>
        LET q == req[r] IN
        /\ entry[q.venue] # Null
        /\ q.does = "create" => stage[q.id] = Null
        /\ q.does = "delete" /\ stage[q.id] # Null => stage[q.id] = q.venue
        /\ q.does = "delete" /\ q.clean => MayWrite(q.user, q.venue, entry[q.venue])
OneCreation ==
    \A r, s \in Requests :
        /\ req[r].kind = "stage" /\ req[s].kind = "stage" /\ req[r].id = req[s].id
        /\ req[r].does = "create"
        => r = s
StagesStand == \A s \in Stages : stage[s] # Null => entry[stage[s]] # Null

PlacesInv ==
    PublicAsMeant /\ EntryAsRead /\ StageAsRead /\ OneCreation /\ StagesStand

-----------------------------------------------------------------------------
(* Least and greatest numbers, and ids that are chosen.                    *)

\* The subsets of a finite set are well founded.
LEMMA SubsetsWellFounded ==
    ASSUME NEW S, IsFiniteSet(S)
    PROVE  IsWellFoundedOn(StrictSubsetOrdering(S), SUBSET S)
<1>1. IsWellFoundedOn(StrictSubsetOrdering(S), FiniteSubsetsOf(S))
  BY FS_StrictSubsetOrderingWellFounded
<1>2. FiniteSubsetsOf(S) = SUBSET S
  BY FS_FiniteSubsetsOfFinite
<1> QED BY <1>1, <1>2

Smallest(T, B) == \A U \in B : U \subseteq T => U = T

LEMMA SmallestSet ==
    ASSUME NEW S, IsFiniteSet(S), NEW B, B \subseteq SUBSET S, B # {}
    PROVE  \E T \in B : Smallest(T, B)
<1>1. IsWellFoundedOn(StrictSubsetOrdering(S), SUBSET S)
  BY SubsetsWellFounded
<1>2. PICK T \in B : \A U \in B : ~ (<<U, T>> \in StrictSubsetOrdering(S))
  BY <1>1, WFMin
<1>3. ASSUME NEW U \in B, U \subseteq T, U # T
      PROVE  <<U, T>> \in StrictSubsetOrdering(S)
  <2>1. <<U, T>> \in (SUBSET S) \X (SUBSET S)
    OBVIOUS
  <2>2. <<U, T>>[1] = U /\ <<U, T>>[2] = T
    OBVIOUS
  <2>3. <<U, T>>[1] \subseteq <<U, T>>[2] /\ <<U, T>>[1] # <<U, T>>[2]
    BY <1>3, <2>2
  <2> QED BY <2>1, <2>3, Zenon DEF StrictSubsetOrdering
<1>4. \A U \in B : U \subseteq T => U = T
  BY ONLY <1>2, <1>3, Zenon
<1>5. Smallest(T, B)
  BY ONLY <1>4, Zenon DEF Smallest
<1> QED BY <1>5

LEMMA Least ==
    ASSUME NEW S \in SUBSET Nat, IsFiniteSet(S), S # {}
    PROVE  \E x \in S : \A y \in S : x <= y
<1> DEFINE Below(x) == {y \in S : y <= x}
<1> PICK B : B = {Below(x) : x \in S}
  OBVIOUS
<1>1. IsFiniteSet(S) /\ B \subseteq SUBSET S /\ B # {}
  OBVIOUS
<1>2. PICK T \in B : Smallest(T, B)
  BY ONLY <1>1, SmallestSet
<1>3. PICK x \in S : T = Below(x)
  BY <1>2
<1>4. ASSUME NEW y \in S, ~(x <= y)
      PROVE  FALSE
  <2>1. y < x /\ x \in Nat /\ y \in Nat
    BY <1>4
  <2>2. /\ \A z \in Below(y) : z \in Below(x)
        /\ x \in Below(x) /\ x \notin Below(y)
    BY <2>1
  <2>3. Below(y) \in B
    OBVIOUS
  <2> HIDE DEF Below
  <2>4. Below(y) \subseteq Below(x) => Below(y) = Below(x)
    BY ONLY <1>2, <1>3, <2>3, Zenon DEF Smallest
  <2> QED BY <2>2, <2>4
<1> QED BY <1>4

LEMMA Greatest ==
    ASSUME NEW S \in SUBSET Nat, IsFiniteSet(S), S # {}
    PROVE  \E x \in S : \A y \in S : x >= y
<1> DEFINE Above(x) == {y \in S : y >= x}
<1> PICK B : B = {Above(x) : x \in S}
  OBVIOUS
<1>1. IsFiniteSet(S) /\ B \subseteq SUBSET S /\ B # {}
  OBVIOUS
<1>2. PICK T \in B : Smallest(T, B)
  BY ONLY <1>1, SmallestSet
<1>3. PICK x \in S : T = Above(x)
  BY <1>2
<1>4. ASSUME NEW y \in S, ~(x >= y)
      PROVE  FALSE
  <2>1. y > x /\ x \in Nat /\ y \in Nat
    BY <1>4
  <2>2. /\ \A z \in Above(y) : z \in Above(x)
        /\ x \in Above(x) /\ x \notin Above(y)
    BY <2>1
  <2>3. Above(y) \in B
    OBVIOUS
  <2> HIDE DEF Above
  <2>4. Above(y) \subseteq Above(x) => Above(y) = Above(x)
    BY ONLY <1>2, <1>3, <2>3, Zenon DEF Smallest
  <2> QED BY <2>2, <2>4
<1> QED BY <1>4

LEMMA RowsFinite == IsFiniteSet(Rows) /\ Rows \subseteq Nat
<1>1. IsFiniteSet(Rows)
  BY BoundAssumption, FS_Interval DEF Rows
<1> QED BY <1>1 DEF Rows

\* The ids of the rows that a request inserts are free, and two.
LEMMA NewRows ==
    ASSUME Cardinality(Unused) >= 2
    PROVE  NewRow(1) \in Unused /\ NewRow(2) \in Unused /\ NewRow(1) # NewRow(2)
<1> DEFINE N(p) == Cardinality({q \in Unused : q < p})
<1>1. Unused \subseteq Rows /\ IsFiniteSet(Unused) /\ Unused \in SUBSET Nat
  BY RowsFinite, FS_Subset DEF Unused
<1>2. Unused # {}
  BY FS_EmptySet
<1>3. PICK a \in Unused : \A y \in Unused : a <= y
  BY <1>1, <1>2, Least
<1>4. \A q \in Unused : ~(q < a)
  <2> TAKE q \in Unused
  <2>1. q \in Nat /\ a \in Nat /\ a <= q
    BY <1>1, <1>3
  <2> QED BY <2>1
<1>5. N(a) = 1 - 1
  BY <1>4, FS_EmptySet
<1>6. IsFiniteSet(Unused \ {a}) /\ Unused \ {a} # {} /\ Unused \ {a} \in SUBSET Nat
  <2>1. IsFiniteSet(Unused \ {a}) /\ Cardinality(Unused \ {a}) = Cardinality(Unused) - 1
    BY <1>1, FS_RemoveElement
  <2>2. Cardinality(Unused) \in Nat
    BY <1>1, FS_CardinalityType
  <2>3. Cardinality(Unused \ {a}) # 0
    BY <2>1, <2>2
  <2> QED BY <1>1, <2>1, <2>3, FS_EmptySet
<1>7. PICK b \in Unused \ {a} : \A y \in Unused \ {a} : b <= y
  BY <1>6, Least
<1>8. {q \in Unused : q < b} = {a}
  <2>1. a \in Nat /\ b \in Nat /\ a <= b /\ a # b
    BY <1>1, <1>3, <1>7
  <2>2. a < b
    BY <2>1
  <2>3. \A q \in Unused : q < b => q = a
    <3> TAKE q \in Unused
    <3>1. q \in Nat
      BY <1>1
    <3>2. q # a => b <= q
      BY <1>7
    <3> QED BY <2>1, <3>1, <3>2
  <2> QED BY <2>2, <2>3
<1>9. Cardinality({q \in Unused : q < b}) = 2 - 1
  <2>1. Cardinality({a}) = 1
    BY FS_Singleton
  <2> QED BY <1>8, <2>1
<1>10. NewRow(1) \in Unused /\ N(NewRow(1)) = 1 - 1
  BY <1>5 DEF NewRow
<1>11. NewRow(2) \in Unused /\ N(NewRow(2)) = 2 - 1
  BY <1>9 DEF NewRow
<1> HIDE DEF N
<1> QED BY <1>10, <1>11

\* publish enqueues where nothing is.
LEMMA FreeJob ==
    ASSUME \E j \in Jobs : job[j] = Null
    PROVE  FirstFree(job) \in Jobs /\ job[FirstFree(job)] = Null
<1> DEFINE S == {j \in Jobs : job[j] = Null}
<1>1. S \in SUBSET Nat /\ IsFiniteSet(S) /\ S # {}
  <2>1. IsFiniteSet(Jobs)
    BY JobAssumption, FS_Interval DEF Jobs
  <2>2. S \subseteq Jobs
    OBVIOUS
  <2>3. IsFiniteSet(S)
    <3> HIDE DEF S
    <3> QED BY <2>1, <2>2, FS_Subset
  <2> QED BY <2>2, <2>3 DEF Jobs
<1>2. PICK j \in S : \A i \in S : j <= i
  <2> HIDE DEF S
  <2> QED BY <1>1, Least
<1>3. job[j] = Null /\ \A i \in 1 .. j - 1 : job[i] # Null
  BY <1>2, JobAssumption DEF Jobs
<1> QED BY <1>2, <1>3 DEF FirstFree

\* The cheapest and the dearest of some rows.
LEMMA CachedPrices ==
    ASSUME NEW rows, DOMAIN rows \subseteq Rows,
           \A p \in DOMAIN rows : rows[p] # Null => rows[p].price \in Nat
    PROVE  CachedMin(rows) \in Nat /\ CachedMax(rows) \in Nat
<1> DEFINE V == ValidPricing(rows)
<1> DEFINE prices == {rows[p].price : p \in V}
<1>1. V \subseteq Rows /\ \A p \in V : rows[p].price \in Nat
  BY DEF ValidPricing, Existing
<1>2. IsFiniteSet(V)
  BY <1>1, RowsFinite, FS_Subset
<1>3. IsFiniteSet(prices) /\ prices \in SUBSET Nat
  <2> DEFINE f == [p \in V |-> rows[p].price]
  <2>1. f \in Surjection(V, prices)
    BY DEF Surjection
  <2> HIDE DEF f
  <2>2. IsFiniteSet(prices)
    BY <1>2, <2>1, FS_Surjection
  <2> QED BY <1>1, <2>2
<1>4. CASE prices = {}
  BY <1>4 DEF CachedMin, CachedMax
<1>5. CASE prices # {}
  <2>1. \E x \in prices : \A y \in prices : x <= y
    <3> HIDE DEF prices
    <3> QED BY <1>3, <1>5, Least
  <2>2. \E x \in prices : \A y \in prices : x >= y
    <3> HIDE DEF prices
    <3> QED BY <1>3, <1>5, Greatest
  <2>3. (CHOOSE x \in prices : \A y \in prices : x <= y) \in prices
    <3> HIDE DEF prices
    <3> QED BY <2>1
  <2>4. (CHOOSE x \in prices : \A y \in prices : x >= y) \in prices
    <3> HIDE DEF prices
    <3> QED BY <2>2
  <2> QED BY <1>3, <1>5, <2>3, <2>4 DEF CachedMin, CachedMax
<1> QED BY <1>4, <1>5

-----------------------------------------------------------------------------
(* Requests by their kinds.                                                *)

Formed(q) ==
    \/ q \in {Idle(a) : a \in Abouts} \cup {Done} \cup Editing \cup LiningUp
    \/ q \in Changing \cup Staging
    \/ Updating(q) \/ Priced(q)

\* A request's kind says what it has read and written.
LEMMA Kinds ==
    ASSUME NEW q, Formed(q)
    PROVE  /\ q.kind \in EditKinds => q \in Editing
           /\ q.kind = "lineup" => q \in LiningUp
           /\ q.kind = "entry" => q \in Changing
           /\ q.kind = "stage" => q \in Staging
           /\ q.kind = "update" => Updating(q)
           /\ q.kind = "priced" => Priced(q)
           /\ q.kind \in EditKinds \cup {"lineup", "entry", "stage", "update", "priced", "idle", "done"}
<1>1. CASE q \in {Idle(a) : a \in Abouts} \cup {Done}
  BY <1>1 DEF Idle, Done, EditKinds
<1>2. CASE q \in Editing
  BY <1>2 DEF Editing, EditKinds
<1>3. CASE q \in LiningUp
  BY <1>3 DEF LiningUp, EditKinds
<1>4. CASE q \in Changing
  BY <1>4 DEF Changing, EditKinds
<1>5. CASE q \in Staging
  BY <1>5 DEF Staging, EditKinds
<1>6. CASE Updating(q)
  BY <1>6 DEF Updating, EditKinds
<1>7. CASE Priced(q)
  BY <1>7 DEF Priced, EditKinds
<1> QED BY <1>1, <1>2, <1>3, <1>4, <1>5, <1>6, <1>7 DEF Formed

\* Only requests about the event's row have read it.
LEMMA WhoHasSeen ==
    ASSUME NEW q, Formed(q)
    PROVE  "seen" \in DOMAIN q <=> q.kind \in EditKinds
<1>1. CASE q \in {Idle(a) : a \in Abouts} \cup {Done}
  BY <1>1 DEF Idle, Done, EditKinds
<1>2. CASE q \in Editing
  BY <1>2 DEF Editing, EditKinds
<1>3. CASE q \in LiningUp
  BY <1>3 DEF LiningUp, EditKinds
<1>4. CASE q \in Changing
  BY <1>4 DEF Changing, EditKinds
<1>5. CASE q \in Staging
  BY <1>5 DEF Staging, EditKinds
<1>6. CASE Updating(q)
  BY <1>6 DEF Updating, EditKinds
<1>7. CASE Priced(q)
  BY <1>7 DEF Priced, EditKinds
<1> QED BY <1>1, <1>2, <1>3, <1>4, <1>5, <1>6, <1>7 DEF Formed

\* A request that is overtaken keeps all it has read and written.
LEMMA OvertakenEdit ==
    ASSUME NEW q \in Editing
    PROVE  LET u == [q EXCEPT !.clean = FALSE] IN
           u \in Editing /\ u.kind = q.kind /\ u.seen = q.seen /\ u.clean = FALSE
BY DEF Editing

LEMMA OvertakenLineup ==
    ASSUME NEW q \in LiningUp
    PROVE  LET u == [q EXCEPT !.clean = FALSE] IN
           /\ u \in LiningUp /\ u.kind = q.kind /\ u.slots = q.slots /\ u.gone = q.gone
           /\ u.clean = FALSE
BY DEF LiningUp

LEMMA OvertakenChange ==
    ASSUME NEW q \in Changing
    PROVE  LET u == [q EXCEPT !.clean = FALSE] IN
           /\ u \in Changing /\ u.kind = q.kind /\ u.does = q.does /\ u.id = q.id
           /\ u.user = q.user /\ u.row = q.row /\ u.to = q.to /\ u.clean = FALSE
BY DEF Changing

LEMMA OvertakenStaging ==
    ASSUME NEW q \in Staging
    PROVE  LET u == [q EXCEPT !.clean = FALSE] IN
           /\ u \in Staging /\ u.kind = q.kind /\ u.does = q.does /\ u.id = q.id
           /\ u.user = q.user /\ u.venue = q.venue /\ u.clean = FALSE
BY DEF Staging

LEMMA OvertakenPriced ==
    ASSUME NEW q, Priced(q)
    PROVE  LET u == [q EXCEPT !.clean = FALSE] IN
           /\ Priced(u) /\ u.kind = q.kind /\ u.type = q.type /\ u.row = q.row
           /\ u.rows = q.rows /\ u.min = q.min /\ u.max = q.max /\ u.clean = FALSE
BY DEF Priced

\* What every kind of step leaves as it is: requests of other kinds.
RequestsFormed == DOMAIN req = Requests /\ \A r \in Requests : Formed(req[r])
Kept(kinds) == \A s \in Requests : req'[s].kind \in kinds => req'[s] = req[s]

LEMMA TypedRequests == TypeOK => RequestsFormed
BY DEF TypeOK, RequestsFormed, Formed

\* The rows that a request is about to write.
Writable(rows) ==
    /\ DOMAIN rows \subseteq Rows
    /\ \A p \in DOMAIN rows : rows[p] \in PricingRow \cup {Null}

\* A request that has worked on prices.
IsWritten(w, t, period, rows) ==
    /\ Priced(w) /\ w.kind = "priced" /\ w.type = t /\ w.row = period /\ w.rows = rows
    /\ w.clean = TRUE
    /\ w.min = CachedMin(Over(rows, pricing)) /\ w.max = CachedMax(Over(rows, pricing))

LEMMA WrittenIsPriced ==
    ASSUME PricingTypeOK, NEW t \in Types, NEW own \in BOOLEAN,
           NEW period \in Periods, NEW rows, Writable(rows)
    PROVE  IsWritten(Written(t, own, period, rows), t, period, rows)
<1> DEFINE seen == Over(rows, pricing)
<1>1. DOMAIN seen \subseteq Rows /\ \A p \in DOMAIN seen : seen[p] # Null => seen[p].price \in Nat
  <2>1. DOMAIN pricing = Rows
    BY DEF PricingTypeOK
  <2>2. ASSUME NEW p \in DOMAIN seen
        PROVE  seen[p] \in PricingRow \cup {Null}
    BY <2>1, <2>2 DEF Over, Writable, PricingTypeOK
  <2>3. DOMAIN seen \subseteq Rows
    BY <2>1 DEF Over, Writable
  <2> HIDE DEF seen
  <2> QED BY <2>2, <2>3 DEF PricingRow
<1>2. CachedMin(seen) \in Nat /\ CachedMax(seen) \in Nat
  <2> HIDE DEF seen
  <2> QED BY <1>1, CachedPrices
<1> QED BY <1>2 DEF Written, Priced, Writable, IsWritten

\* What a step may write: new default and published rows, and what is left of
\* those destroyed.
LEMMA RowsOfOffers ==
    /\ \A t \in Types : \A offer \in OfferRows : PricingRowOf(t, "Published", offer) \in PricingRow
    /\ \A t \in Types : \A period \in Periods : DefaultOf(t, period) \in PricingRow
BY DEF PricingRowOf, DefaultOf, PricingRow, OfferRows, Periods

LEMMA WhatDestroyedLeaves ==
    ASSUME PricingTypeOK, NEW p \in Rows, pricing[p] # Null
    PROVE  /\ Destroyed(p) \in PricingRow \cup {Null}
           /\ Destroyed(p) # Null =>
                /\ Destroyed(p).type = pricing[p].type /\ Destroyed(p).status = "Deleted"
                /\ Destroyed(p).price = pricing[p].price
           /\ used[p] = "ordered" => Destroyed(p) # Null
<1>1. pricing[p] \in PricingRow
  BY DEF PricingTypeOK
<1> QED BY <1>1, RowAssumption DEF Destroyed, PricingRow

\* An update of the type: its default price is another row.
LEMMA DefaultRows ==
    ASSUME PricingTypeOK, Cardinality(Unused) >= 2, NEW t \in Types, NEW period \in Periods
    PROVE  LET rows == DefaultReplaced(t, period) IN
           /\ Writable(rows)
           /\ DOMAIN rows = OfType(pricing, t, "Default") \cup {NewRow(1)}
           /\ rows[NewRow(1)] = DefaultOf(t, period)
           /\ \A p \in OfType(pricing, t, "Default") : rows[p] = Destroyed(p)
<1>1. NewRow(1) \in Unused /\ NewRow(1) \in Rows /\ pricing[NewRow(1)] = Null
  BY NewRows DEF Unused
<1>2. OfType(pricing, t, "Default") \subseteq Rows /\ NewRow(1) \notin OfType(pricing, t, "Default")
  BY <1>1 DEF OfType, Existing, PricingTypeOK
<1>3. \A p \in OfType(pricing, t, "Default") : Destroyed(p) \in PricingRow \cup {Null}
  BY <1>2, WhatDestroyedLeaves DEF OfType, Existing
<1>4. DefaultOf(t, period) \in PricingRow
  BY RowsOfOffers
<1> HIDE DEF DefaultOf
<1> QED BY <1>1, <1>2, <1>3, <1>4 DEF DefaultReplaced, Over, Writable

\* An update of the list of prices.
LEMMA ListedRows ==
    ASSUME PricingTypeOK, Cardinality(Unused) >= 2, NEW t \in Types, NEW list,
           PriceList(list), DOMAIN list.named \subseteq Nameable(t)
    PROVE  LET rows == PricesReplaced(t, list)
               new == IF list.added = Null THEN {} ELSE {NewRow(2)} IN
           /\ Writable(rows)
           /\ DOMAIN rows = Nameable(t) \cup new
           /\ \A p \in DOMAIN list.named : rows[p] = PricingRowOf(t, "Published", list.named[p])
           /\ \A p \in Nameable(t) \ DOMAIN list.named : rows[p] = Destroyed(p)
           /\ \A p \in new : rows[p] = PricingRowOf(t, "Published", list.added)
<1> DEFINE new == IF list.added = Null THEN {} ELSE {NewRow(2)}
<1>1. NewRow(2) \in Unused /\ NewRow(2) \in Rows /\ pricing[NewRow(2)] = Null
  BY NewRows DEF Unused
<1>2. Nameable(t) \subseteq Rows /\ NewRow(2) \notin Nameable(t)
  BY <1>1 DEF Nameable, OfType, Existing, PricingTypeOK
<1>3. \A p \in Nameable(t) : Destroyed(p) \in PricingRow \cup {Null}
  BY <1>2, WhatDestroyedLeaves DEF Nameable, OfType, Existing
<1>4. \A p \in DOMAIN list.named : PricingRowOf(t, "Published", list.named[p]) \in PricingRow
  BY RowsOfOffers, OfferAssumption DEF PriceList
<1>5. list.added # Null => PricingRowOf(t, "Published", list.added) \in PricingRow
  BY RowsOfOffers, OfferAssumption DEF PriceList
<1> DEFINE A == IF list.added = Null THEN << >>
                ELSE [p \in {NewRow(2)} |-> PricingRowOf(t, "Published", list.added)]
<1>6. DOMAIN A = new /\ \A p \in new : A[p] = PricingRowOf(t, "Published", list.added)
  OBVIOUS
<1>7. PricesReplaced(t, list) =
        Over([p \in DOMAIN list.named |-> PricingRowOf(t, "Published", list.named[p])],
             Over([p \in Nameable(t) \ DOMAIN list.named |-> Destroyed(p)], A))
  BY DEF PricesReplaced
<1>8. new \cap Nameable(t) = {} /\ (\A p \in new : p \in Rows /\ list.added # Null)
  BY <1>1, <1>2
<1> HIDE DEF A, new, PricingRowOf, Nameable
<1> QED BY <1>2, <1>3, <1>4, <1>5, <1>6, <1>7, <1>8 DEF Over, Writable, new

\* A new type: its default price and perhaps one published.
LEMMA CreatedRows ==
    ASSUME PricingTypeOK, Cardinality(Unused) >= 2, NEW t \in Types, NEW period \in Periods,
           NEW offer \in Offers \cup {Null}
    PROVE  LET rows == Over([p \in {NewRow(1)} |-> DefaultOf(t, period)],
                            IF offer = Null THEN << >>
                            ELSE [p \in {NewRow(2)} |-> PricingRowOf(t, "Published", offer)])
               new == IF offer = Null THEN {} ELSE {NewRow(2)} IN
           /\ Writable(rows)
           /\ DOMAIN rows = {NewRow(1)} \cup new
           /\ rows[NewRow(1)] = DefaultOf(t, period)
           /\ \A p \in new : rows[p] = PricingRowOf(t, "Published", offer)
<1> DEFINE new == IF offer = Null THEN {} ELSE {NewRow(2)}
<1>1. /\ NewRow(1) \in Unused /\ NewRow(2) \in Unused /\ NewRow(1) # NewRow(2)
      /\ NewRow(1) \in Rows /\ NewRow(2) \in Rows
  BY NewRows DEF Unused
<1>2. DefaultOf(t, period) \in PricingRow
  BY RowsOfOffers
<1>3. offer # Null => PricingRowOf(t, "Published", offer) \in PricingRow
  BY RowsOfOffers, OfferAssumption
<1> DEFINE A == IF offer = Null THEN << >>
                ELSE [p \in {NewRow(2)} |-> PricingRowOf(t, "Published", offer)]
<1>4. DOMAIN A = new /\ \A p \in new : A[p] = PricingRowOf(t, "Published", offer)
  OBVIOUS
<1>5. NewRow(1) \notin new /\ (\A p \in new : p \in Rows /\ offer # Null)
  BY <1>1
<1> HIDE DEF A, new, PricingRowOf, DefaultOf
<1>6. /\ Writable(Over([p \in {NewRow(1)} |-> DefaultOf(t, period)], A))
      /\ DOMAIN Over([p \in {NewRow(1)} |-> DefaultOf(t, period)], A) = {NewRow(1)} \cup new
      /\ Over([p \in {NewRow(1)} |-> DefaultOf(t, period)], A)[NewRow(1)] = DefaultOf(t, period)
      /\ \A n \in new : Over([p \in {NewRow(1)} |-> DefaultOf(t, period)], A)[n]
                            = PricingRowOf(t, "Published", offer)
  BY <1>1, <1>2, <1>3, <1>4, <1>5 DEF Over, Writable
<1> QED BY <1>6 DEF A, new

\* What WriteType writes.
UpdatedRows(t, period, list) ==
    IF list = Null THEN DefaultReplaced(t, period)
    ELSE Over(PricesReplaced(t, list), DefaultReplaced(t, period))

LEMMA RowsOfUpdate ==
    ASSUME PricingTypeOK, Cardinality(Unused) >= 2, NEW t \in Types, NEW period \in Periods,
           NEW list, list # Null => PriceList(list) /\ DOMAIN list.named \subseteq Nameable(t)
    PROVE  LET rows == UpdatedRows(t, period, list)
               new == IF list = Null THEN {} ELSE IF list.added = Null THEN {} ELSE {NewRow(2)}
               named == IF list = Null THEN {} ELSE Nameable(t) IN
           /\ Writable(rows)
           /\ DOMAIN rows = OfType(pricing, t, "Default") \cup {NewRow(1)} \cup named \cup new
           /\ rows[NewRow(1)] = DefaultOf(t, period)
           /\ \A p \in OfType(pricing, t, "Default") : rows[p] = Destroyed(p)
           /\ \A p \in named :
                IF p \in DOMAIN list.named
                THEN rows[p] = PricingRowOf(t, "Published", list.named[p])
                ELSE rows[p] = Destroyed(p)
           /\ \A p \in new : rows[p] = PricingRowOf(t, "Published", list.added)
<1>1. /\ NewRow(1) \in Unused /\ NewRow(2) \in Unused /\ NewRow(1) # NewRow(2)
      /\ pricing[NewRow(1)] = Null /\ pricing[NewRow(2)] = Null
  BY NewRows DEF Unused
<1>2. /\ NewRow(1) \notin Nameable(t)
      /\ NewRow(2) \notin OfType(pricing, t, "Default")
      /\ Nameable(t) \cap OfType(pricing, t, "Default") = {}
  BY <1>1 DEF Nameable, OfType, Existing
<1> DEFINE D == DefaultReplaced(t, period)
<1>3. /\ Writable(D)
      /\ DOMAIN D = OfType(pricing, t, "Default") \cup {NewRow(1)}
      /\ D[NewRow(1)] = DefaultOf(t, period)
      /\ \A p \in OfType(pricing, t, "Default") : D[p] = Destroyed(p)
  BY DefaultRows
<1>4. CASE list = Null
  <2> HIDE DEF D
  <2>1. UpdatedRows(t, period, list) = D
    BY <1>4 DEF UpdatedRows, D
  <2> QED BY <1>3, <1>4, <2>1
<1>5. CASE list # Null
  <2> DEFINE P == PricesReplaced(t, list)
             new == IF list.added = Null THEN {} ELSE {NewRow(2)}
  <2>1. /\ Writable(P)
        /\ DOMAIN P = Nameable(t) \cup new
        /\ \A p \in DOMAIN list.named : P[p] = PricingRowOf(t, "Published", list.named[p])
        /\ \A p \in Nameable(t) \ DOMAIN list.named : P[p] = Destroyed(p)
        /\ \A p \in new : P[p] = PricingRowOf(t, "Published", list.added)
    BY <1>5, ListedRows
  <2>2. UpdatedRows(t, period, list) = Over(P, D)
    BY <1>5 DEF UpdatedRows
  <2>3. \A p \in new : p = NewRow(2)
    OBVIOUS
  <2> HIDE DEF P, D, new, Nameable, PricingRowOf, DefaultOf
  <2>4. DOMAIN Over(P, D) = OfType(pricing, t, "Default") \cup {NewRow(1)} \cup Nameable(t) \cup new
    BY <1>3, <2>1 DEF Over
  <2>5. Writable(Over(P, D))
    BY <1>3, <2>1 DEF Over, Writable
  <2>6. /\ Over(P, D)[NewRow(1)] = DefaultOf(t, period)
        /\ \A p \in OfType(pricing, t, "Default") : Over(P, D)[p] = Destroyed(p)
    BY <1>1, <1>2, <1>3, <2>1, <2>3, <2>4 DEF Over
  <2>7. /\ \A p \in Nameable(t) : Over(P, D)[p] = P[p]
        /\ \A p \in new : Over(P, D)[p] = P[p]
    BY <2>1, <2>4 DEF Over
  <2>8. /\ \A p \in Nameable(t) :
                IF p \in DOMAIN list.named
                THEN Over(P, D)[p] = PricingRowOf(t, "Published", list.named[p])
                ELSE Over(P, D)[p] = Destroyed(p)
        /\ \A p \in new : Over(P, D)[p] = PricingRowOf(t, "Published", list.added)
    BY <2>1, <2>7
  <2> QED BY <1>5, <2>2, <2>4, <2>5, <2>6, <2>8 DEF new
<1> QED BY <1>4, <1>5

LEMMA MergedPeriod ==
    ASSUME NEW row \in Periods, NEW set \in TypeChanges
    PROVE  Merged(row, set) \in Periods
<1>1. /\ set.from \in Nat \cup {Null} /\ set.to \in Nat \cup {Null} /\ set.price \in Nat \cup {Null}
      /\ DOMAIN row = {"from", "to", "price"}
      /\ row.from \in Nat /\ row.to \in Nat /\ row.price \in Nat
  BY OfferAssumption DEF Periods
<1>2. Merged(row, set) = [f \in {"from", "to", "price"} |-> IF set[f] = Null THEN row[f] ELSE set[f]]
  BY <1>1 DEF Merged
<1> QED BY <1>1, <1>2 DEF Periods

\* The steps about prices leave requests of other kinds as they are.
OtherThanPrices == EditKinds \cup {"lineup", "entry", "stage"}

LEMMA CreateTypeTypes ==
    ASSUME TypeOK, NEW r \in Requests, NEW t \in Types, NEW period \in NewPeriods,
           NEW offer \in Offers \cup {Null}, CreateType(r, t, period, offer)
    PROVE  RequestsFormed' /\ Kept(OtherThanPrices) /\ PricingTypeOK'
<1> DEFINE rows == Over([p \in {NewRow(1)} |-> DefaultOf(t, period)],
                        IF offer = Null THEN << >>
                        ELSE [p \in {NewRow(2)} |-> PricingRowOf(t, "Published", offer)])
<1>1. PricingTypeOK /\ period \in Periods /\ RequestsFormed
  BY OfferAssumption, TypedRequests DEF TypeOK
<1>2. /\ Cardinality(Unused) >= 2
      /\ req' = [req EXCEPT ![r] = Written(t, TRUE, period, rows)]
      /\ UNCHANGED pricingVars
  BY DEF CreateType
<1>3. Writable(rows)
  BY <1>1, <1>2, CreatedRows
<1> HIDE DEF rows
<1>3a. PricingTypeOK /\ t \in Types /\ period \in Periods /\ Writable(rows)
  BY <1>1, <1>3
<1>4. Priced(Written(t, TRUE, period, rows)) /\ Written(t, TRUE, period, rows).kind = "priced"
  <2>1. IsWritten(Written(t, TRUE, period, rows), t, period, rows)
    BY ONLY <1>3a, WrittenIsPriced
  <2> QED BY <2>1 DEF IsWritten
<1>5. DOMAIN req' = Requests /\ \A s \in Requests : s # r => req'[s] = req[s]
  BY <1>1, <1>2 DEF RequestsFormed
<1>6. req'[r] = Written(t, TRUE, period, rows)
  BY <1>1, <1>2 DEF RequestsFormed
<1>7. RequestsFormed'
  BY <1>1, <1>4, <1>5, <1>6 DEF RequestsFormed, Formed
<1>8. Kept(OtherThanPrices)
  BY <1>4, <1>5, <1>6 DEF Kept, OtherThanPrices, EditKinds
<1> QED BY <1>1, <1>2, <1>7, <1>8 DEF PricingTypeOK, pricingVars

LEMMA StartTypeTypes ==
    ASSUME TypeOK, NEW r \in Requests, NEW t \in Types, NEW own \in BOOLEAN,
           NEW set \in TypeChanges, NEW list \in ListsFor(t, own), StartType(r, t, own, set, list)
    PROVE  RequestsFormed' /\ Kept(OtherThanPrices) /\ PricingTypeOK'
<1>1. PricingTypeOK /\ RequestsFormed
  BY TypedRequests DEF TypeOK
<1>2. list = Null \/ PriceList(list)
  <2>1. OfType(pricing, t, "Published") \subseteq Rows
    BY <1>1 DEF OfType, Existing, PricingTypeOK
  <2>2. CASE list # Null
    <3>1. PICK S \in SUBSET OfType(pricing, t, "Published") :
             list \in [named : [S -> Offers], added : Offers \cup {Null}]
      BY <2>2 DEF ListsFor
    <3> QED BY <2>1, <3>1 DEF PriceList
  <2> QED BY <2>2
<1> PICK q : q = [kind |-> "update", type |-> t, own |-> own, set |-> set, list |-> list]
  OBVIOUS
<1>3. Updating(q) /\ q.kind = "update"
  BY <1>2 DEF Updating
<1>4. req' = [req EXCEPT ![r] = q] /\ UNCHANGED pricingVars
  BY DEF StartType
<1>5. DOMAIN req' = Requests /\ req'[r] = q /\ \A s \in Requests : s # r => req'[s] = req[s]
  BY <1>1, <1>4 DEF RequestsFormed
<1>6. RequestsFormed'
  BY <1>1, <1>3, <1>5 DEF RequestsFormed, Formed
<1>7. Kept(OtherThanPrices)
  BY <1>3, <1>5 DEF Kept, OtherThanPrices, EditKinds
<1> QED BY <1>1, <1>4, <1>6, <1>7 DEF PricingTypeOK, pricingVars

\* What the request of WriteType becomes.
LEMMA WriteTypeGives ==
    ASSUME TypeOK, NEW r \in Requests, WriteType(r), type[req[r].type] # Null
    PROVE  LET t == req[r].type
               period == Merged(type[t], req[r].set)
               rows == UpdatedRows(t, period, req[r].list) IN
           /\ t \in Types /\ req[r].own \in BOOLEAN /\ period \in Periods /\ Writable(rows)
           /\ Updating(req[r]) /\ req[r].kind = "update" /\ ~Locked(t)
           /\ Cardinality(Unused) >= 2
           /\ req[r].list # Null =>
                /\ PriceList(req[r].list)
                /\ DOMAIN req[r].list.named \subseteq Nameable(t)
                /\ ValidPrices(Over(rows, pricing), t, period)
           /\ req' = [req EXCEPT ![r] = Written(t, req[r].own, period, rows)]
           /\ UNCHANGED pricingVars
<1> DEFINE t == req[r].type
           period == Merged(type[t], req[r].set)
           rows == UpdatedRows(t, period, req[r].list)
<1>1. RequestsFormed /\ PricingTypeOK
  BY TypedRequests DEF TypeOK
<1>2. req[r].kind = "update" /\ Formed(req[r])
  BY <1>1 DEF WriteType, RequestsFormed
<1>3. Updating(req[r])
  BY <1>2, Kinds
<1>4. t \in Types /\ req[r].own \in BOOLEAN /\ req[r].set \in TypeChanges /\ (req[r].list = Null \/ PriceList(req[r].list))
  BY <1>3 DEF Updating
<1>5. type[t] \in Periods
  BY <1>1, <1>4 DEF PricingTypeOK
<1>6. period \in Periods
  BY <1>4, <1>5, MergedPeriod
<1>7. /\ ~Locked(t)
      /\ Cardinality(Unused) >= 2
      /\ req[r].list # Null =>
            /\ DOMAIN req[r].list.named \subseteq Nameable(t)
            /\ ValidPrices(Over(rows, pricing), t, period)
      /\ req' = [req EXCEPT ![r] = Written(t, req[r].own, period, rows)]
      /\ UNCHANGED pricingVars
  BY DEF WriteType, UpdatedRows
<1>8. Writable(rows)
  <2> HIDE DEF t, period
  <2> QED BY <1>1, <1>4, <1>6, <1>7, RowsOfUpdate
<1> QED BY <1>2, <1>3, <1>4, <1>6, <1>7, <1>8

LEMMA WriteTypeTypes ==
    ASSUME TypeOK, NEW r \in Requests, WriteType(r), type[req[r].type] # Null
    PROVE  RequestsFormed' /\ Kept(OtherThanPrices) /\ PricingTypeOK'
<1> DEFINE t == req[r].type
           period == Merged(type[t], req[r].set)
           rows == UpdatedRows(t, period, req[r].list)
<1>1. PricingTypeOK /\ RequestsFormed
  BY TypedRequests DEF TypeOK
<1>2. /\ t \in Types /\ req[r].own \in BOOLEAN /\ period \in Periods /\ Writable(rows)
      /\ req' = [req EXCEPT ![r] = Written(t, req[r].own, period, rows)]
      /\ UNCHANGED pricingVars
  BY WriteTypeGives
<1> HIDE DEF t, period, rows
<1>3a. PricingTypeOK /\ t \in Types /\ req[r].own \in BOOLEAN /\ period \in Periods /\ Writable(rows)
  BY <1>1, <1>2
<1>4. Priced(Written(t, req[r].own, period, rows)) /\ Written(t, req[r].own, period, rows).kind = "priced"
  <2>1. IsWritten(Written(t, req[r].own, period, rows), t, period, rows)
    BY ONLY <1>3a, WrittenIsPriced
  <2> QED BY <2>1 DEF IsWritten
<1>5. DOMAIN req' = Requests /\ \A s \in Requests : s # r => req'[s] = req[s]
  BY <1>1, <1>2 DEF RequestsFormed
<1>6. req'[r] = Written(t, req[r].own, period, rows)
  BY <1>1, <1>2 DEF RequestsFormed
<1>7. RequestsFormed'
  BY <1>1, <1>4, <1>5, <1>6 DEF RequestsFormed, Formed
<1>8. Kept(OtherThanPrices)
  BY <1>4, <1>5, <1>6 DEF Kept, OtherThanPrices, EditKinds
<1> QED BY <1>1, <1>2, <1>7, <1>8 DEF PricingTypeOK, pricingVars

LEMMA FinishTypeTypes ==
    ASSUME TypeOK, NEW r \in Requests, FinishType(r)
    PROVE  RequestsFormed' /\ Kept(OtherThanPrices) /\ PricingTypeOK'
<1>1. PricingTypeOK /\ RequestsFormed
  BY TypedRequests DEF TypeOK
<1>2. req[r].kind = "priced" /\ Formed(req[r])
  BY <1>1 DEF FinishType, RequestsFormed
<1>3. Priced(req[r])
  BY <1>2, Kinds
<1>4. type' \in [Types -> Periods \cup {Null}]
  BY <1>1, <1>3 DEF FinishType, Priced, PricingTypeOK
<1>5. pricing' \in [Rows -> PricingRow \cup {Null}]
  BY <1>1, <1>3 DEF FinishType, Priced, PricingTypeOK, Over
<1>6. used' \in [Rows -> {"no", "read", "ordered"}]
  BY <1>1 DEF FinishType, PricingTypeOK
<1>7. cache' \in Cache
  BY <1>1, <1>3 DEF FinishType, Priced, PricingTypeOK, Cache
<1>8. ASSUME NEW s \in Requests
      PROVE  /\ Formed(req'[s])
             /\ req'[s].kind \in OtherThanPrices => req'[s] = req[s]
  <2>1. CASE s = r
    BY <2>1 DEF FinishType, Formed, Done, OtherThanPrices, EditKinds
  <2>2. CASE s # r /\ s \in BeingPriced
    <3>1. Priced(req[s]) /\ req[s].kind = "priced"
      BY <1>1, <2>2, Kinds DEF BeingPriced, RequestsFormed
    <3>2. Priced([req[s] EXCEPT !.clean = FALSE]) /\ [req[s] EXCEPT !.clean = FALSE].kind = "priced"
      BY <3>1, OvertakenPriced
    <3>3. req'[s] = [req[s] EXCEPT !.clean = FALSE]
      BY <2>2 DEF FinishType
    <3> QED BY <3>2, <3>3 DEF Formed, OtherThanPrices, EditKinds
  <2>3. CASE s # r /\ s \notin BeingPriced
    BY <1>1, <2>3 DEF FinishType, RequestsFormed
  <2> QED BY <2>1, <2>2, <2>3
<1>9. DOMAIN req' = Requests
  BY DEF FinishType
<1> QED BY <1>4, <1>5, <1>6, <1>7, <1>8, <1>9 DEF PricingTypeOK, RequestsFormed, Kept

LEMMA CartTypes ==
    ASSUME TypeOK, CartStep
    PROVE  RequestsFormed' /\ Kept(OtherThanPrices) /\ PricingTypeOK' /\ UNCHANGED <<req, type, pricing, cache>>
<1>1. PricingTypeOK /\ RequestsFormed
  BY TypedRequests DEF TypeOK
<1>2. UNCHANGED <<req, type, pricing, cache>> /\ used' \in [Rows -> {"no", "read", "ordered"}]
  BY <1>1 DEF CartStep, Quote, Order, Drop, PricingTypeOK
<1> QED BY <1>1, <1>2 DEF RequestsFormed, Kept, PricingTypeOK

\* The steps about the event's row and its marketing actions.
OtherThanEdits == {"lineup", "entry", "stage", "update", "priced"}
AllKinds == EditKinds \cup OtherThanEdits
RowsTyped ==
    /\ event \in EventRow
    /\ key \in BOOLEAN
    /\ job \in [Jobs -> Job \cup {Null}]
    /\ excused \subseteq {"undated", "twice", "missed"}

LEMMA EditsAre ==
    ASSUME RequestsFormed, NEW r \in Requests, req[r].kind \in EditKinds
    PROVE  /\ req[r] \in Editing
           /\ req[r].seen \in EventRow /\ req[r].clean \in BOOLEAN
           /\ req[r].kind = "edit" => req[r].set \in EventChanges
<1>1. req[r] \in Editing
  BY Kinds DEF RequestsFormed
<1> QED BY <1>1 DEF Editing

LEMMA UpdatedRow ==
    ASSUME event \in EventRow, NEW q \in Editing
    PROVE  /\ Updated(q) \in EventRow
           /\ Updated(q).over = event.over
<1>1. CASE q.kind = "publish"
  <2>1. CASE q.seen.status = "Published"
    BY <1>1, <2>1 DEF Updated
  <2>2. CASE q.seen.status # "Published"
    BY <1>1, <2>2 DEF Updated, EventRow
  <2> QED BY <2>1, <2>2
<1>2. CASE q.kind = "unpublish"
  BY <1>2 DEF Updated, EventRow
<1>3. CASE q.kind = "cancel"
  BY <1>3 DEF Updated, EventRow
<1>4. CASE q.kind = "edit"
  <2>1. q.set \in EventChanges
    BY <1>4 DEF Editing
  <2>2. /\ q.set.date \in BOOLEAN \cup {Null} /\ q.set.image \in BOOLEAN \cup {Null}
        /\ q.set.venue \in {TRUE, Null}
    BY <2>1, ChangeAssumption
  <2>3. DateFor(q.seen, q.set.date) \in BOOLEAN \cup {Null}
    BY <2>2 DEF DateFor
  <2>4. event.date \in BOOLEAN /\ event.image \in BOOLEAN /\ event.venue \in BOOLEAN
    BY DEF EventRow
  <2>5. /\ Or(DateFor(q.seen, q.set.date), event.date) \in BOOLEAN
        /\ Or(q.set.image, event.image) \in BOOLEAN
        /\ Or(q.set.venue, event.venue) \in BOOLEAN
    BY <2>2, <2>3, <2>4 DEF Or
  <2>6. Updated(q) = [event EXCEPT !.date = Or(DateFor(q.seen, q.set.date), @),
                                   !.image = Or(q.set.image, @), !.venue = Or(q.set.venue, @)]
    BY <1>4 DEF Updated
  <2> HIDE DEF Or, DateFor
  <2> QED BY <2>5, <2>6 DEF EventRow
<1> QED BY <1>1, <1>2, <1>3, <1>4 DEF Editing

LEMMA EnqueuedJobs ==
    ASSUME job \in [Jobs -> Job \cup {Null}], \E j \in Jobs : job[j] = Null
    PROVE  /\ Enqueued(job, "list") \in [Jobs -> Job \cup {Null}]
           /\ \E j \in Jobs :
                /\ job[j] = Null
                /\ Enqueued(job, "list") = [job EXCEPT ![j] = NewJob("list")]
<1>1. FirstFree(job) \in Jobs /\ job[FirstFree(job)] = Null
  BY FreeJob
<1>2. NewJob("list") \in Job
  BY JobAssumption DEF NewJob, Job
<1>3. Enqueued(job, "list") = [job EXCEPT ![FirstFree(job)] = NewJob("list")]
  BY DEF Enqueued
<1> HIDE DEF NewJob
<1> QED BY <1>1, <1>2, <1>3

LEMMA FinishEditTypes ==
    ASSUME TypeOK, NEW r \in Requests, FinishEdit(r)
    PROVE  /\ RequestsFormed' /\ Kept(OtherThanEdits) /\ RowsTyped'
           /\ UNCHANGED <<pricingVars, key, lineup, sent>>
<1>1. RequestsFormed /\ RowsTyped
  BY TypedRequests DEF TypeOK, RowsTyped
<1>2. req[r].kind \in EditKinds
  BY DEF FinishEdit, EditKinds
<1>3. req[r] \in Editing
  BY <1>1, <1>2, EditsAre
<1>4. event' \in EventRow
  BY <1>1, <1>3, UpdatedRow DEF FinishEdit, RowsTyped
<1>5. job' \in [Jobs -> Job \cup {Null}]
  BY <1>1, EnqueuedJobs DEF FinishEdit, RowsTyped
<1>6. excused' \subseteq {"undated", "twice", "missed"}
  BY <1>1 DEF FinishEdit, RowsTyped
<1>7. ASSUME NEW s \in Requests
      PROVE  Formed(req'[s]) /\ (req'[s].kind \in OtherThanEdits => req'[s] = req[s])
  <2>1. CASE s = r
    BY <2>1 DEF FinishEdit, Formed, Done, OtherThanEdits
  <2>2. CASE s # r /\ "seen" \in DOMAIN req[s]
    <3>1. req[s] \in Editing /\ req[s].kind \in EditKinds
      BY <1>1, <2>2, WhoHasSeen, EditsAre DEF RequestsFormed
    <3>2. /\ [req[s] EXCEPT !.clean = FALSE] \in Editing
          /\ [req[s] EXCEPT !.clean = FALSE].kind = req[s].kind
      BY <3>1, OvertakenEdit
    <3>3. req'[s] = [req[s] EXCEPT !.clean = FALSE]
      BY <2>2 DEF FinishEdit
    <3> QED BY <3>1, <3>2, <3>3 DEF Formed, OtherThanEdits, EditKinds
  <2>3. CASE s # r /\ "seen" \notin DOMAIN req[s]
    BY <1>1, <2>3 DEF FinishEdit, RequestsFormed
  <2> QED BY <2>1, <2>2, <2>3
<1>8. DOMAIN req' = Requests
  BY DEF FinishEdit
<1>9. UNCHANGED <<pricingVars, key, lineup, sent>>
  BY DEF FinishEdit
<1> QED BY <1>1, <1>4, <1>5, <1>6, <1>7, <1>8, <1>9 DEF RequestsFormed, Kept, RowsTyped

LEMMA ReadTypes ==
    ASSUME TypeOK, NEW r \in Requests, NEW q \in Editing, Read(r, q)
    PROVE  /\ RequestsFormed' /\ Kept(OtherThanEdits)
           /\ UNCHANGED <<pricingVars, eventVars>>
<1>1. RequestsFormed
  BY TypedRequests
<1>2. DOMAIN req' = Requests /\ req'[r] = q /\ \A s \in Requests : s # r => req'[s] = req[s]
  BY <1>1 DEF Read, RequestsFormed
<1>3. RequestsFormed'
  BY <1>1, <1>2 DEF RequestsFormed, Formed
<1>4. Kept(OtherThanEdits)
  BY <1>2 DEF Kept, OtherThanEdits, Editing
<1> QED BY <1>3, <1>4 DEF Read

\* Which record a request that begins has read.
LEMMA Beginnings ==
    ASSUME TypeOK, NEW r \in Requests,
           \/ StartPublish(r) \/ StartUnpublish(r) \/ StartCancel(r)
           \/ \E set \in EventChanges : StartEdit(r, set)
    PROVE  \E q \in Editing : Read(r, q) /\ q.seen = event
<1>1. event \in EventRow
  BY DEF TypeOK
<1>2. CASE StartPublish(r)
  <2> PICK q : q = [kind |-> "publish", seen |-> event, clean |-> TRUE]
    OBVIOUS
  <2>1. q \in Editing /\ q.seen = event
    BY <1>1 DEF Editing
  <2>2. Read(r, q)
    BY <1>2 DEF StartPublish
  <2> QED BY <2>1, <2>2
<1>3. CASE StartUnpublish(r)
  <2> PICK q : q = [kind |-> "unpublish", seen |-> event, clean |-> TRUE]
    OBVIOUS
  <2>1. q \in Editing /\ q.seen = event
    BY <1>1 DEF Editing
  <2>2. Read(r, q)
    BY <1>3 DEF StartUnpublish
  <2> QED BY <2>1, <2>2
<1>4. CASE StartCancel(r)
  <2> PICK q : q = [kind |-> "cancel", seen |-> event, clean |-> TRUE]
    OBVIOUS
  <2>1. q \in Editing /\ q.seen = event
    BY <1>1 DEF Editing
  <2>2. Read(r, q)
    BY <1>4 DEF StartCancel
  <2> QED BY <2>1, <2>2
<1>5. ASSUME NEW set \in EventChanges, StartEdit(r, set)
      PROVE  \E q \in Editing : Read(r, q) /\ q.seen = event
  <2> PICK q : q = [kind |-> "edit", seen |-> event, clean |-> TRUE, set |-> set]
    OBVIOUS
  <2>1. q \in Editing /\ q.seen = event
    BY <1>1 DEF Editing
  <2>2. Read(r, q)
    BY <1>5 DEF StartEdit
  <2> QED BY <2>1, <2>2
<1> QED BY <1>2, <1>3, <1>4, <1>5

LEMMA EventTypes ==
    ASSUME TypeOK, EventStep
    PROVE  /\ RequestsFormed' /\ Kept(OtherThanEdits) /\ RowsTyped'
           /\ UNCHANGED <<pricingVars, key, lineup, sent>>
<1>1. RequestsFormed /\ RowsTyped
  BY TypedRequests DEF TypeOK, RowsTyped
<1>2. CASE EventEnds
  <2>1. event' \in EventRow
    BY <1>1, <1>2 DEF EventEnds, RowsTyped, EventRow
  <2> QED BY <1>1, <1>2, <2>1 DEF EventEnds, RequestsFormed, RowsTyped, Kept
<1>3. ASSUME NEW r \in Requests, FinishEdit(r)
      PROVE  /\ RequestsFormed' /\ Kept(OtherThanEdits) /\ RowsTyped'
             /\ UNCHANGED <<pricingVars, key, lineup, sent>>
  BY <1>3, FinishEditTypes
<1>4. ASSUME NEW r \in Requests,
             \/ StartPublish(r) \/ StartUnpublish(r) \/ StartCancel(r)
             \/ \E set \in EventChanges : StartEdit(r, set)
      PROVE  /\ RequestsFormed' /\ Kept(OtherThanEdits) /\ RowsTyped'
             /\ UNCHANGED <<pricingVars, key, lineup, sent>>
  <2>1. PICK q \in Editing : Read(r, q)
    BY <1>4, Beginnings
  <2>2. /\ RequestsFormed' /\ Kept(OtherThanEdits)
        /\ UNCHANGED <<pricingVars, eventVars>>
    BY <2>1, ReadTypes
  <2> QED BY <1>1, <2>2 DEF eventVars, RowsTyped
<1> QED BY <1>2, <1>3, <1>4 DEF EventStep

LEMMA JobTypes ==
    ASSUME TypeOK, JobStep
    PROVE  RowsTyped' /\ UNCHANGED <<pricingVars, req, key, lineup, sent>>
<1>1. /\ event \in EventRow /\ key \in BOOLEAN /\ job \in [Jobs -> Job \cup {Null}]
      /\ excused \subseteq {"undated", "twice", "missed"}
  BY DEF TypeOK
<1>2. PICK j \in Jobs :
        \/ StartJob(j) \/ CheckList(j) \/ FinishList(j) \/ FinishImport(j) \/ FailJob(j) \/ Lapse(j)
  BY DEF JobStep
<1>3. UNCHANGED <<pricingVars, req, key, lineup, sent>>
  BY <1>2 DEF StartJob, CheckList, FinishList, FinishImport, FailJob, Lapse
<1>4. event' \in EventRow
  <2>1. CASE FinishList(j)
    BY <1>1, <2>1 DEF FinishList, EventRow
  <2> QED BY <1>1, <1>2, <2>1 DEF StartJob, CheckList, FinishImport, FailJob, Lapse
<1>5. excused' \subseteq {"undated", "twice", "missed"}
  <2>1. Missing \subseteq {"undated", "twice", "missed"}
    BY <1>1 DEF Missing
  <2> QED BY <1>1, <1>2, <2>1 DEF StartJob, CheckList, FinishList, FinishImport, FailJob, Lapse
<1>6. \A v \in Job \cup {Null} : Set(j, v) => job' \in [Jobs -> Job \cup {Null}]
  BY <1>1 DEF Set
<1>7. \A k \in {"list", "import"} : NewJob(k) \in Job
  BY JobAssumption DEF NewJob, Job
<1>8. job[j] # Null => job[j] \in Job
  BY <1>1
<1>9. job' \in [Jobs -> Job \cup {Null}]
  <2>1. CASE StartJob(j)
    <3>1. [job[j] EXCEPT !.seen = event] \in Job
      BY <1>1, <1>8, <2>1 DEF StartJob, Job
    <3> QED BY <1>6, <2>1, <3>1 DEF StartJob
  <2>2. CASE CheckList(j)
    <3>1. [job[j] EXCEPT !.found = PendingImports # {}] \in Job
      BY <1>8, <2>2 DEF CheckList, Running, Job
    <3> QED BY <1>6, <2>2, <3>1 DEF CheckList
  <2>3. CASE FinishList(j)
    <3> HIDE DEF NewJob
    <3> QED BY <1>6, <1>7, <2>3 DEF FinishList
  <2>4. CASE FinishImport(j)
    BY <1>6, <1>7, <2>4 DEF FinishImport
  <2>5. CASE FailJob(j)
    <3>1. job[j] \in Job
      BY <1>8, <2>5 DEF FailJob, Running
    <3>2. TriesLeft(j) => [NewJob(job[j].kind) EXCEPT !.tries = job[j].tries + 1] \in Job
      <4>1. NewJob(job[j].kind) \in Job
        BY <1>7, <3>1 DEF Job
      <4>2. TriesLeft(j) => job[j].tries + 1 \in 0 .. MaxTries - 1
        BY <3>1, JobAssumption DEF TriesLeft, Job
      <4> HIDE DEF NewJob
      <4> QED BY <4>1, <4>2 DEF Job
    <3> QED BY <1>6, <2>5, <3>2 DEF FailJob
  <2>6. CASE Lapse(j)
    <3>1. Running(j) => [job[j] EXCEPT !.lapsed = TRUE] \in Job
      BY <1>8 DEF Running, Job
    <3> QED BY <1>6, <2>6, <3>1 DEF Lapse
  <2> QED BY <1>2, <2>1, <2>2, <2>3, <2>4, <2>5, <2>6
<1> QED BY <1>1, <1>3, <1>4, <1>5, <1>9 DEF RowsTyped

-----------------------------------------------------------------------------
(* The line-up.                                                            *)

LineTyped ==
    /\ lineup \subseteq Appearance
    /\ \A r \in lineup : \A s \in lineup : r.artist = s.artist => r = s
    /\ sent \in (SUBSET (Artists \X Nat \X (Stages \cup {Null}))) \cup {Null}

\* The lists that are sent name an artist once.
LEMMA SlotsOfLineups ==
    ASSUME NEW slots \in Lineups
    PROVE  /\ slots \in Seq(Artists \X (Stages \cup {Null}))
           /\ \A i, j \in DOMAIN slots : slots[i][1] = slots[j][1] => i = j
<1> DEFINE S == Artists \X ({g \in Stages : stage[g] # Null} \cup {Null})
<1>1. S \subseteq Artists \X (Stages \cup {Null})
  OBVIOUS
<1>2. \/ slots = << >> \/ (\E p \in S : slots = <<p>>)
      \/ (\E p, q \in S : slots = <<p, q>> /\ p[1] # q[1])
  BY DEF Lineups
<1> HIDE DEF S
<1>3. CASE slots = << >>
  BY <1>3
<1>4. CASE \E p \in S : slots = <<p>>
  BY <1>1, <1>4
<1>5. CASE \E p, q \in S : slots = <<p, q>> /\ p[1] # q[1]
  <2>1. PICK p, q \in S : slots = <<p, q>> /\ p[1] # q[1]
    BY <1>5
  <2>2. slots \in Seq(Artists \X (Stages \cup {Null}))
    BY <1>1, <2>1
  <2>3. DOMAIN slots = {1, 2} /\ slots[1] = p /\ slots[2] = q
    BY <2>1
  <2> QED BY <2>1, <2>2, <2>3
<1> QED BY <1>2, <1>3, <1>4, <1>5

\* What FinishLineup inserts.
NewAppearances(r) ==
    {[artist |-> req[r].slots[i][1], rank |-> i - 1, stage |-> req[r].slots[i][2], by |-> r] :
        i \in DOMAIN req[r].slots}

LEMMA LineupsAre ==
    ASSUME RequestsFormed, NEW r \in Requests, req[r].kind = "lineup"
    PROVE  /\ req[r] \in LiningUp /\ req[r].gone \subseteq Appearance /\ req[r].clean \in BOOLEAN
           /\ req[r].slots \in Seq(Artists \X (Stages \cup {Null}))
<1>1. req[r] \in LiningUp
  BY Kinds DEF RequestsFormed
<1> QED BY <1>1 DEF LiningUp

LEMMA NewAppearancesTyped ==
    ASSUME RequestsFormed, SlotsDiffer, NEW r \in Requests, req[r].kind = "lineup"
    PROVE  /\ NewAppearances(r) \subseteq Appearance
           /\ \A a \in NewAppearances(r) : \A b \in NewAppearances(r) : a.artist = b.artist => a = b
<1> DEFINE slots == req[r].slots
<1>1. slots \in Seq(Artists \X (Stages \cup {Null}))
  BY LineupsAre
<1>2. \A i, j \in DOMAIN slots : slots[i][1] = slots[j][1] => i = j
  BY DEF SlotsDiffer
<1> DEFINE A(i) == [artist |-> slots[i][1], rank |-> i - 1, stage |-> slots[i][2], by |-> r]
<1>3. ASSUME NEW i \in DOMAIN slots
      PROVE  A(i) \in Appearance /\ A(i).artist = slots[i][1]
  <2>1. i \in Nat /\ i >= 1 /\ slots[i] \in Artists \X (Stages \cup {Null})
    BY <1>1
  <2>2. i - 1 \in Nat
    BY <2>1
  <2> QED BY <2>1, <2>2 DEF Appearance
<1>4. NewAppearances(r) = {A(i) : i \in DOMAIN slots}
  BY DEF NewAppearances
<1> HIDE DEF A, slots
<1> QED BY <1>2, <1>3, <1>4

OtherThanLineups == EditKinds \cup {"entry", "stage", "update", "priced"}

\* A step about the line-up leaves other requests of its kind overtaken.
LEMMA OvertakenRequests ==
    ASSUME RequestsFormed, NEW r \in Requests, req' = Overtaken(r)
    PROVE  /\ RequestsFormed' /\ Kept(OtherThanLineups)
           /\ \A s \in Requests : req'[s].kind = "lineup" =>
                s # r /\ req[s].kind = "lineup" /\ req'[s] = [req[s] EXCEPT !.clean = FALSE]
<1>1. ASSUME NEW s \in Requests
      PROVE  /\ Formed(req'[s])
             /\ req'[s].kind \in OtherThanLineups => req'[s] = req[s]
             /\ req'[s].kind = "lineup" =>
                  s # r /\ req[s].kind = "lineup" /\ req'[s] = [req[s] EXCEPT !.clean = FALSE]
  <2>1. CASE s = r
    BY <2>1 DEF Overtaken, Formed, Done, OtherThanLineups, EditKinds
  <2>2. CASE s # r /\ req[s].kind = "lineup"
    <3>1. req[s] \in LiningUp
      BY <2>2, LineupsAre
    <3>2. /\ [req[s] EXCEPT !.clean = FALSE] \in LiningUp
          /\ [req[s] EXCEPT !.clean = FALSE].kind = "lineup"
      BY <2>2, <3>1, OvertakenLineup
    <3>3. req'[s] = [req[s] EXCEPT !.clean = FALSE]
      BY <2>2 DEF Overtaken
    <3> QED BY <2>2, <3>2, <3>3 DEF Formed, OtherThanLineups, EditKinds
  <2>3. CASE s # r /\ req[s].kind # "lineup"
    BY <2>3 DEF Overtaken, RequestsFormed
  <2> QED BY <2>1, <2>2, <2>3
<1>2. DOMAIN req' = Requests
  BY DEF Overtaken
<1> QED BY <1>1, <1>2 DEF RequestsFormed, Kept

LineInv == LineTyped /\ SlotsDiffer /\ ClearsAll /\ LineupAsSent
Slot(a) == <<a.artist, a.rank, a.stage>>

LEMMA StartLineupKeeps ==
    ASSUME TypeOK, LineInv, NEW r \in Requests, NEW slots \in Lineups, StartLineup(r, slots)
    PROVE  RequestsFormed' /\ Kept(OtherThanLineups) /\ LineInv'
<1>1. RequestsFormed
  BY TypedRequests
<1> PICK q : q = [kind |-> "lineup", slots |-> slots, gone |-> Cleared(slots), clean |-> TRUE]
  OBVIOUS
<1>2. /\ q.kind = "lineup" /\ q.slots = slots /\ q.gone = lineup
      /\ q \in LiningUp
  <2>1. slots \in Seq(Artists \X (Stages \cup {Null}))
    BY SlotsOfLineups
  <2>2. Cleared(slots) \in SUBSET Appearance
    BY DEF LineInv, LineTyped, Cleared
  <2> QED BY <2>1, <2>2 DEF LiningUp, Cleared
<1>3. req' = [req EXCEPT ![r] = q] /\ UNCHANGED <<lineup, sent>>
  BY DEF StartLineup, eventVars
<1>4. DOMAIN req' = Requests /\ req'[r] = q /\ \A s \in Requests : s # r => req'[s] = req[s]
  BY <1>1, <1>3 DEF RequestsFormed
<1>5. RequestsFormed'
  BY <1>1, <1>2, <1>4 DEF RequestsFormed, Formed
<1>6. Kept(OtherThanLineups)
  BY <1>2, <1>4 DEF Kept, OtherThanLineups, EditKinds
<1>7. SlotsDiffer'
  <2>1. \A i, j \in DOMAIN slots : slots[i][1] = slots[j][1] => i = j
    BY SlotsOfLineups
  <2> QED BY <1>2, <1>4, <2>1 DEF LineInv, SlotsDiffer
<1>8. ClearsAll'
  BY <1>2, <1>3, <1>4 DEF LineInv, ClearsAll
<1> QED BY <1>3, <1>5, <1>6, <1>7, <1>8 DEF LineInv, LineTyped, LineupAsSent

\* A step about the line-up leaves no list that has not been overtaken.
LEMMA OvertakenLists ==
    ASSUME RequestsFormed, SlotsDiffer, NEW r \in Requests, req' = Overtaken(r)
    PROVE  SlotsDiffer' /\ ClearsAll'
<1>1. ASSUME NEW s \in Requests, req'[s].kind = "lineup"
      PROVE  req[s].kind = "lineup" /\ req'[s].slots = req[s].slots /\ req'[s].clean = FALSE
  <2>1. req[s].kind = "lineup" /\ req'[s] = [req[s] EXCEPT !.clean = FALSE]
    BY <1>1, OvertakenRequests
  <2>2. req[s] \in LiningUp
    BY <2>1, LineupsAre
  <2> QED BY <2>1, <2>2, OvertakenLineup
<1>2. SlotsDiffer'
  <2>1. SUFFICES ASSUME NEW s \in Requests, req'[s].kind = "lineup",
                        NEW i \in DOMAIN req'[s].slots, NEW j \in DOMAIN req'[s].slots,
                        req'[s].slots[i][1] = req'[s].slots[j][1]
                 PROVE  i = j
    BY DEF SlotsDiffer
  <2>2. req[s].kind = "lineup" /\ req'[s].slots = req[s].slots
    BY <1>1, <2>1
  <2>3. i \in DOMAIN req[s].slots /\ j \in DOMAIN req[s].slots
        /\ req[s].slots[i][1] = req[s].slots[j][1]
    BY <2>1, <2>2
  <2> QED BY <2>2, <2>3 DEF SlotsDiffer
<1>3. ClearsAll'
  <2>1. \A s \in Requests : ~(req'[s].kind = "lineup" /\ req'[s].clean)
    BY <1>1
  <2> QED BY <2>1 DEF ClearsAll
<1> QED BY <1>2, <1>3

LEMMA FinishLineupKeeps ==
    ASSUME TypeOK, LineInv, NEW r \in Requests, FinishLineup(r)
    PROVE  RequestsFormed' /\ Kept(OtherThanLineups) /\ LineInv'
<1> DEFINE new == NewAppearances(r)
<1>1. RequestsFormed /\ req[r].kind = "lineup" /\ SlotsDiffer
  BY TypedRequests DEF FinishLineup, LineInv
<1>2. /\ \A a \in lineup \ req[r].gone : \A b \in new : a.artist # b.artist
      /\ lineup' = (lineup \ req[r].gone) \cup new
      /\ sent' = IF req[r].clean THEN {Slot(a) : a \in new} ELSE Null
      /\ req' = Overtaken(r)
  BY DEF FinishLineup, NewAppearances, Slot
<1>3. /\ new \subseteq Appearance
      /\ \A a \in new : \A b \in new : a.artist = b.artist => a = b
  BY <1>1, NewAppearancesTyped
<1> HIDE DEF new
<1>4. LineTyped'
  <2>1. lineup' \subseteq Appearance
    BY <1>2, <1>3 DEF LineInv, LineTyped
  <2>2. \A a, b \in lineup' : a.artist = b.artist => a = b
    BY <1>2, <1>3 DEF LineInv, LineTyped
  <2>3. \A a \in new : Slot(a) \in Artists \X Nat \X (Stages \cup {Null})
    BY <1>3 DEF Appearance, Slot
  <2>4. sent' \in (SUBSET (Artists \X Nat \X (Stages \cup {Null}))) \cup {Null}
    <3> HIDE DEF Slot
    <3> QED BY <1>2, <2>3
  <2> QED BY <2>1, <2>2, <2>4 DEF LineTyped
<1>5. LineupAsSent'
  <2>1. CASE req[r].clean
    <3>1. lineup \subseteq req[r].gone
      BY <1>1, <2>1 DEF LineInv, ClearsAll
    <3>2. lineup' = new /\ sent' = {Slot(a) : a \in new}
      BY <1>2, <2>1, <3>1
    <3> QED BY <3>2 DEF LineupAsSent, Slot
  <2>2. CASE ~req[r].clean
    BY <1>2, <2>2 DEF LineupAsSent
  <2> QED BY <2>1, <2>2
<1>6. RequestsFormed' /\ Kept(OtherThanLineups) /\ SlotsDiffer' /\ ClearsAll'
  BY <1>1, <1>2, OvertakenRequests, OvertakenLists
<1> QED BY <1>4, <1>5, <1>6 DEF LineInv

LEMMA AddArtistKeeps ==
    ASSUME TypeOK, LineInv, NEW r \in Requests, NEW artist \in Artists, NEW rank \in AddedRanks,
           NEW g \in Stages \cup {Null}, AddArtist(r, artist, rank, g)
    PROVE  RequestsFormed' /\ Kept(OtherThanLineups) /\ LineInv'
<1>1. RequestsFormed /\ SlotsDiffer
  BY TypedRequests DEF LineInv
<1> PICK n : n = [artist |-> artist, rank |-> rank, stage |-> g, by |-> r]
  OBVIOUS
<1>2. n \in Appearance /\ n.artist = artist /\ Slot(n) = <<artist, rank, g>>
  BY DEF Appearance, AddedRanks, Slot
<1>3. /\ \A a \in lineup : a.artist # n.artist
      /\ lineup' = lineup \cup {n}
      /\ sent' = IF sent = Null THEN Null ELSE sent \cup {Slot(n)}
      /\ req' = Overtaken(r)
  BY <1>2 DEF AddArtist
<1>4. LineTyped'
  <2>1. lineup' \subseteq Appearance /\ \A a, b \in lineup' : a.artist = b.artist => a = b
    BY <1>2, <1>3 DEF LineInv, LineTyped
  <2>2. Slot(n) \in Artists \X Nat \X (Stages \cup {Null})
    BY <1>2 DEF Slot, Appearance
  <2>3. sent' \in (SUBSET (Artists \X Nat \X (Stages \cup {Null}))) \cup {Null}
    <3> HIDE DEF Slot
    <3> QED BY <1>3, <2>2 DEF LineInv, LineTyped
  <2> QED BY <2>1, <2>3 DEF LineTyped
<1>5. LineupAsSent'
  <2>1. CASE sent = Null
    BY <1>3, <2>1 DEF LineupAsSent
  <2>2. CASE sent # Null
    <3>1. sent = {Slot(a) : a \in lineup}
      BY <2>2 DEF LineInv, LineupAsSent, Slot
    <3>2. sent' = sent \cup {Slot(n)}
      BY <1>3, <2>2
    <3>3. sent' = {Slot(a) : a \in lineup'}
      <4> HIDE DEF Slot
      <4> QED BY <1>3, <3>1, <3>2
    <3> QED BY <3>3 DEF LineupAsSent, Slot
  <2> QED BY <2>1, <2>2
<1>6. RequestsFormed' /\ Kept(OtherThanLineups) /\ SlotsDiffer' /\ ClearsAll'
  BY <1>1, <1>3, OvertakenRequests, OvertakenLists
<1> QED BY <1>4, <1>5, <1>6 DEF LineInv

\* Where lists are kept as they are, so is what is said of the line-up.
LEMMA KeptLists ==
    ASSUME LineInv, Kept({"lineup"}), UNCHANGED <<lineup, sent>>
    PROVE  LineInv'
<1>1. \A s \in Requests : req'[s].kind = "lineup" => req'[s] = req[s]
  BY DEF Kept
<1> QED BY <1>1 DEF LineInv, LineTyped, SlotsDiffer, ClearsAll, LineupAsSent

LEMMA CascadeKeeps ==
    ASSUME LineInv, Kept({"lineup"}), Cascade
    PROVE  LineInv'
<1>1. \A s \in Requests : req'[s].kind = "lineup" => req'[s] = req[s]
  BY DEF Kept
<1> DEFINE Stands(g) == g = Null \/ stage'[g] # Null
<1>2. /\ lineup' = {a \in lineup : Stands(a.stage)}
      /\ sent' = IF sent = Null THEN Null ELSE {p \in sent : Stands(p[3])}
  BY DEF Cascade
<1> HIDE DEF Stands
<1>3. LineTyped'
  BY <1>2 DEF LineInv, LineTyped
<1>4. SlotsDiffer' /\ ClearsAll'
  BY <1>1, <1>2 DEF LineInv, SlotsDiffer, ClearsAll
<1>5. LineupAsSent'
  <2>1. CASE sent = Null
    BY <1>2, <2>1 DEF LineupAsSent
  <2>2. CASE sent # Null
    <3>1. sent = {Slot(a) : a \in lineup}
      BY <2>2 DEF LineInv, LineupAsSent, Slot
    <3>2. \A a \in lineup : Slot(a)[3] = a.stage
      BY DEF Slot
    <3>3. sent' = {Slot(a) : a \in lineup'}
      <4> HIDE DEF Slot
      <4> QED BY <1>2, <2>2, <3>1, <3>2
    <3> QED BY <3>3 DEF LineupAsSent, Slot
  <2> QED BY <2>1, <2>2
<1> QED BY <1>3, <1>4, <1>5 DEF LineInv

-----------------------------------------------------------------------------
(* Artists, venues and stages.                                             *)

OtherThanPlaces == EditKinds \cup {"lineup", "update", "priced"}

LEMMA ChangesAre ==
    ASSUME RequestsFormed, NEW r \in Requests, req[r].kind = "entry"
    PROVE  /\ req[r] \in Changing
           /\ req[r].id \in Entries /\ req[r].user \in People /\ req[r].row \in Entry
           /\ req[r].to \in Orgs \cup {Null} /\ req[r].clean \in BOOLEAN
           /\ req[r].does \in {"update", "toggle", "assign"}
<1>1. req[r] \in Changing
  BY Kinds DEF RequestsFormed
<1> QED BY <1>1 DEF Changing

LEMMA StagingsAre ==
    ASSUME RequestsFormed, NEW r \in Requests, req[r].kind = "stage"
    PROVE  /\ req[r] \in Staging
           /\ req[r].id \in Stages /\ req[r].venue \in Venues /\ req[r].user \in People
           /\ req[r].clean \in BOOLEAN /\ req[r].does \in {"create", "delete"}
<1>1. req[r] \in Staging
  BY Kinds DEF RequestsFormed
<1> QED BY <1>1 DEF Staging

\* What a request makes of the row.
LEMMA AfterIs ==
    ASSUME NEW q \in Changing, NEW row \in Entry
    PROVE  /\ After(q, row) \in Entry /\ After(q, row) # Null
           /\ q.does = "update" => After(q, row).editor = q.user
           /\ q.does # "update" => After(q, row).editor = row.editor
           /\ q.does = "toggle" => After(q, row).private = ~q.row.private
           /\ q.does # "toggle" => After(q, row).private = row.private
           /\ q.does = "assign" => After(q, row).org = q.to
           /\ q.does # "assign" => After(q, row).org = row.org
<1>1. /\ q.does \in {"update", "toggle", "assign"}
      /\ q.user \in People /\ q.row \in Entry /\ q.to \in Orgs \cup {Null}
  BY DEF Changing
<1>2. CASE q.does = "update"
  BY <1>1, <1>2, EntryAssumption DEF After, Entry
<1>3. CASE q.does = "toggle"
  <2>1. q.row.private \in BOOLEAN
    BY <1>1 DEF Entry
  <2>2. After(q, row) = [row EXCEPT !.private = ~q.row.private]
    BY <1>3 DEF After
  <2> QED BY <1>3, <2>1, <2>2, EntryAssumption DEF Entry
<1>4. CASE q.does = "assign"
  BY <1>1, <1>4, EntryAssumption DEF After, Entry
<1> QED BY <1>1, <1>2, <1>3, <1>4

\* Whether a request may write depends on these columns only.
LEMMA SameRight ==
    ASSUME NEW u, NEW x, NEW a, NEW b, a.private = b.private, a.org = b.org
    PROVE  MayWrite(u, x, a) <=> MayWrite(u, x, b)
BY DEF MayWrite

\* Who may write an entry: administrators, and the organization's people where it
\* is private.
LEMMA RightToWrite ==
    ASSUME NEW u \in People, NEW x, NEW row, MayWrite(u, x, row)
    PROVE  u \in Admins \/ (row.private /\ <<u, row.org>> \in Members)
<1> DEFINE o == IF row.private THEN row.org ELSE Null
           scope == IF x \in Venues THEN "venue:write" ELSE "artist:write"
<1>1. scope \in ScopesOf(Roles(u, o))
  BY DEF MayWrite, Allowed, WriteScope
<1>2. u \in Admins \/ <<u, o>> \in Members
  <2>1. SUFFICES ASSUME u \notin Admins, <<u, o>> \notin Members
                 PROVE  FALSE
    OBVIOUS
  <2>2. Roles(u, o) = {"User"}
    BY <2>1 DEF Roles
  <2>3. ScopesOf({"User"}) = UserScopes
    BY DEF ScopesOf, RoleScopes
  <2> HIDE DEF scope
  <2>4. scope \in UserScopes
    BY <1>1, <2>2, <2>3
  <2> QED BY <2>4 DEF UserScopes, scope
<1>3. <<u, Null>> \notin Members
  BY MemberAssumption
<1> QED BY <1>2, <1>3

\* What may be said of requests that are kept, when the rows are.
LEMMA PlacesKept ==
    ASSUME PlacesInv, Kept({"entry", "stage"}), UNCHANGED placeVars
    PROVE  PlacesInv'
<1>1. \A s \in Requests : req'[s].kind \in {"entry", "stage"} => req'[s] = req[s]
  BY DEF Kept
<1>2. entry' = entry /\ stage' = stage /\ public' = public
  BY DEF placeVars
<1>3. PublicAsMeant' /\ StagesStand'
  BY <1>2 DEF PlacesInv, PublicAsMeant, StagesStand
<1>4. EntryAsRead'
  BY <1>1, <1>2 DEF PlacesInv, EntryAsRead
<1>5. StageAsRead'
  BY <1>1, <1>2 DEF PlacesInv, StageAsRead, MayWrite
<1>6. OneCreation'
  BY <1>1 DEF PlacesInv, OneCreation
<1> QED BY <1>3, <1>4, <1>5, <1>6 DEF PlacesInv

LEMMA CreateEntryKeeps ==
    ASSUME TypeOK, PlacesInv, NEW r \in Requests, NEW u \in People, NEW x \in Entries,
           NEW o \in Orgs \cup {Null}, NEW spotify \in BOOLEAN, CreateEntry(r, u, x, o, spotify)
    PROVE  RequestsFormed' /\ Kept(OtherThanPlaces) /\ PlacesTypeOK' /\ PlacesInv'
<1> PICK kept : kept = FromSpotify(o, spotify)
  OBVIOUS
<1> PICK row : row = NewEntry(u, kept)
  OBVIOUS
<1>1. RequestsFormed /\ PlacesTypeOK
  BY TypedRequests DEF TypeOK
<1>2. row \in Entry /\ row # Null /\ row.private = (kept # Null)
  <2>1. kept \in Orgs \cup {Null}
    BY DEF FromSpotify
  <2>2. row \in Entry
    BY <2>1 DEF NewEntry, Entry
  <2>3. row.private = (kept # Null)
    BY DEF NewEntry
  <2> QED BY <2>2, <2>3, EntryAssumption
<1>3. /\ entry[x] = Null
      /\ entry' = [entry EXCEPT ![x] = row]
      /\ public' = [public EXCEPT ![x] = (kept = Null)]
      /\ req' = [req EXCEPT ![r] = Done]
      /\ stage' = stage
  BY DEF CreateEntry
<1>4. DOMAIN req' = Requests /\ req'[r] = Done /\ \A s \in Requests : s # r => req'[s] = req[s]
  BY <1>1, <1>3 DEF RequestsFormed
<1>5. RequestsFormed'
  BY <1>1, <1>4 DEF RequestsFormed, Formed
<1>6. \A s \in Requests : req'[s].kind # "done" => req'[s] = req[s]
  BY <1>4 DEF Done
<1>7. Kept(OtherThanPlaces)
  BY <1>6 DEF Kept, OtherThanPlaces, EditKinds
<1>8. PlacesTypeOK'
  BY <1>1, <1>2, <1>3 DEF PlacesTypeOK
<1>9. /\ entry'[x] = row /\ \A y \in Entries : y # x => entry'[y] = entry[y]
      /\ public'[x] = (kept = Null) /\ \A y \in Entries : y # x => public'[y] = public[y]
  BY <1>1, <1>3 DEF PlacesTypeOK
<1>10. PublicAsMeant'
  <2>1. SUFFICES ASSUME NEW y \in Entries, entry'[y] # Null /\ public'[y] # Null
                 PROVE  public'[y] = ~entry'[y].private
    BY DEF PublicAsMeant
  <2>2. CASE y = x
    BY <1>2, <1>9, <2>2
  <2>3. CASE y # x
    BY <1>9, <2>1, <2>3 DEF PlacesInv, PublicAsMeant
  <2> QED BY <2>2, <2>3
<1>11. EntryAsRead'
  BY <1>3, <1>6, <1>9, ChangesAre, <1>1 DEF PlacesInv, EntryAsRead
<1>12. StageAsRead'
  <2>1. SUFFICES ASSUME NEW s \in Requests, req'[s].kind = "stage"
                 PROVE  LET q == req'[s] IN
                        /\ entry'[q.venue] # Null
                        /\ q.does = "create" => stage'[q.id] = Null
                        /\ q.does = "delete" /\ stage'[q.id] # Null => stage'[q.id] = q.venue
                        /\ q.does = "delete" /\ q.clean => MayWrite(q.user, q.venue, entry'[q.venue])
    BY DEF StageAsRead, MayWrite
  <2>2. req'[s] = req[s] /\ req[s].kind = "stage" /\ req[s].venue \in Entries
    BY <1>1, <1>6, <2>1, StagingsAre DEF Entries
  <2>3. req[s].venue # x
    BY <1>3, <2>2 DEF PlacesInv, StageAsRead
  <2>4. entry'[req[s].venue] = entry[req[s].venue]
    BY <1>9, <2>2, <2>3
  <2> QED BY <1>3, <2>2, <2>4 DEF PlacesInv, StageAsRead
<1>13. OneCreation'
  BY <1>6 DEF PlacesInv, OneCreation
<1>14. StagesStand'
  BY <1>1, <1>2, <1>3, <1>9 DEF PlacesInv, StagesStand, PlacesTypeOK, Entries
<1> QED BY <1>5, <1>7, <1>8, <1>10, <1>11, <1>12, <1>13, <1>14 DEF PlacesInv

\* A request about an entry begins.
LEMMA PrepareKeeps ==
    ASSUME TypeOK, PlacesInv, NEW r \in Requests, NEW u \in People, NEW x \in Entries,
           NEW does \in {"update", "toggle", "assign"}, NEW to \in Orgs \cup {Null},
           entry[x] # Null,
           does = "update" => MayWrite(u, x, entry[x]),
           does = "assign" => entry[x].org = Null,
           Prepare(r, u, does, x, to)
    PROVE  RequestsFormed' /\ Kept(OtherThanPlaces) /\ PlacesTypeOK' /\ PlacesInv'
<1> PICK q : q = [kind |-> "entry", does |-> does, id |-> x, user |-> u,
                  row |-> entry[x], to |-> to, clean |-> TRUE]
  OBVIOUS
<1>1. RequestsFormed /\ PlacesTypeOK
  BY TypedRequests DEF TypeOK
<1>2. /\ q \in Changing /\ q.kind = "entry" /\ q.does = does /\ q.id = x /\ q.user = u
      /\ q.row = entry[x]
  BY <1>1 DEF PlacesTypeOK, Changing
<1>3. req' = [req EXCEPT ![r] = q] /\ entry' = entry /\ stage' = stage /\ public' = public
  BY DEF Prepare, placeVars
<1>4. DOMAIN req' = Requests /\ req'[r] = q /\ \A s \in Requests : s # r => req'[s] = req[s]
  BY <1>1, <1>3 DEF RequestsFormed
<1> HIDE DEF Changing
<1>5. RequestsFormed'
  BY <1>1, <1>2, <1>4 DEF RequestsFormed, Formed
<1>6. \A s \in Requests : req'[s].kind # "entry" => req'[s] = req[s]
  BY <1>2, <1>4
<1>7. Kept(OtherThanPlaces)
  BY <1>6 DEF Kept, OtherThanPlaces, EditKinds
<1>8. PlacesTypeOK' /\ PublicAsMeant' /\ StagesStand'
  BY <1>1, <1>3 DEF PlacesTypeOK, PlacesInv, PublicAsMeant, StagesStand
<1>9. EntryAsRead'
  BY <1>2, <1>3, <1>4 DEF PlacesInv, EntryAsRead
<1>10. StageAsRead' /\ OneCreation'
  BY <1>3, <1>6 DEF PlacesInv, StageAsRead, OneCreation, MayWrite
<1> QED BY <1>5, <1>7, <1>8, <1>9, <1>10 DEF PlacesInv

\* A request about a stage begins.
LEMMA StageRequestKeeps ==
    ASSUME TypeOK, PlacesInv, NEW r \in Requests, NEW u \in People, NEW s \in Stages,
           NEW does \in {"create", "delete"}, NEW v \in Venues, entry[v] # Null,
           does = "create" =>
                stage[s] = Null /\ \A p \in Requests : req[p].kind = "stage" => req[p].id # s,
           does = "delete" => stage[s] = v /\ stage[s] # Null /\ MayWrite(u, v, entry[v]),
           StageRequest(r, u, does, s, v)
    PROVE  RequestsFormed' /\ Kept(OtherThanPlaces) /\ PlacesTypeOK' /\ PlacesInv'
<1> PICK q : q = [kind |-> "stage", does |-> does, id |-> s, venue |-> v,
                  user |-> u, clean |-> TRUE]
  OBVIOUS
<1>1. RequestsFormed /\ PlacesTypeOK
  BY TypedRequests DEF TypeOK
<1>2. /\ q \in Staging /\ q.kind = "stage" /\ q.does = does /\ q.id = s /\ q.user = u
      /\ q.venue = v
  BY DEF Staging
<1>3. req' = [req EXCEPT ![r] = q] /\ entry' = entry /\ stage' = stage /\ public' = public
  BY DEF StageRequest, placeVars
<1>4. DOMAIN req' = Requests /\ req'[r] = q /\ \A p \in Requests : p # r => req'[p] = req[p]
  BY <1>1, <1>3 DEF RequestsFormed
<1> HIDE DEF Staging
<1>5. RequestsFormed'
  BY <1>1, <1>2, <1>4 DEF RequestsFormed, Formed
<1>6. \A p \in Requests : req'[p].kind # "stage" => req'[p] = req[p]
  BY <1>2, <1>4
<1>7. Kept(OtherThanPlaces)
  BY <1>6 DEF Kept, OtherThanPlaces, EditKinds
<1>8. PlacesTypeOK' /\ PublicAsMeant' /\ StagesStand'
  BY <1>1, <1>3 DEF PlacesTypeOK, PlacesInv, PublicAsMeant, StagesStand
<1>9. EntryAsRead'
  BY <1>3, <1>6 DEF PlacesInv, EntryAsRead
<1>10. StageAsRead'
  <2>1. SUFFICES ASSUME NEW p \in Requests, req'[p].kind = "stage"
                 PROVE  LET w == req'[p] IN
                        /\ entry'[w.venue] # Null
                        /\ w.does = "create" => stage'[w.id] = Null
                        /\ w.does = "delete" /\ stage'[w.id] # Null => stage'[w.id] = w.venue
                        /\ w.does = "delete" /\ w.clean => MayWrite(w.user, w.venue, entry'[w.venue])
    BY DEF StageAsRead, MayWrite
  <2>2. CASE p = r
    BY <1>2, <1>3, <1>4, <2>2
  <2>3. CASE p # r
    BY <1>3, <1>4, <2>1, <2>3 DEF PlacesInv, StageAsRead
  <2> QED BY <2>2, <2>3
<1>11. OneCreation'
  <2>1. SUFFICES ASSUME NEW p \in Requests, NEW w \in Requests,
                        req'[p].kind = "stage", req'[w].kind = "stage", req'[p].id = req'[w].id,
                        req'[p].does = "create", p # w
                 PROVE  FALSE
    BY DEF OneCreation
  <2>2. CASE p = r
    <3>1. does = "create" /\ req[w].kind = "stage" /\ req[w].id = s
      BY <1>2, <1>4, <2>1, <2>2
    <3> QED BY <3>1
  <2>3. CASE w = r
    <3>1. req[p].kind = "stage" /\ req[p].id = s /\ req[p].does = "create"
      BY <1>2, <1>4, <2>1, <2>3
    <3>2. stage[s] = Null
      BY <3>1 DEF PlacesInv, StageAsRead
    <3>3. does = "create"
      BY <3>2
    <3> QED BY <3>1, <3>3
  <2>4. CASE p # r /\ w # r
    BY <1>4, <2>1, <2>4 DEF PlacesInv, OneCreation
  <2> QED BY <2>2, <2>3, <2>4
<1> QED BY <1>5, <1>7, <1>8, <1>9, <1>10, <1>11 DEF PlacesInv

\* The others that a finished request may have overtaken.
LEMMA FinishEntryRequests ==
    ASSUME TypeOK, NEW r \in Requests, FinishEntry(r)
    PROVE  /\ RequestsFormed' /\ Kept(OtherThanPlaces)
           /\ req[r] \in Changing /\ req[r].kind = "entry" /\ req'[r] = Done
           /\ \A s \in Requests : s # r =>
                \/ req'[s] = req[s]
                \/ req[s].kind \in {"entry", "stage"} /\ req'[s] = [req[s] EXCEPT !.clean = FALSE]
           /\ LET q == req[r]
                  row == entry[q.id] IN
              After(q, row).private # row.private \/ After(q, row).org # row.org =>
                \A s \in Reliant(q.id) : s # r => req'[s] = [req[s] EXCEPT !.clean = FALSE]
<1> DEFINE q == req[r]
           changed == After(q, entry[q.id]).private # entry[q.id].private
                        \/ After(q, entry[q.id]).org # entry[q.id].org
<1>1. RequestsFormed
  BY TypedRequests
<1>2. q.kind = "entry" /\ q \in Changing
  BY <1>1, ChangesAre DEF FinishEntry
<1>3. req' = [s \in Requests |->
                IF s = r THEN Done
                ELSE IF changed /\ s \in Reliant(q.id) THEN [req[s] EXCEPT !.clean = FALSE]
                ELSE req[s]]
  BY DEF FinishEntry
<1> HIDE DEF changed
<1>4. ASSUME NEW s \in Requests
      PROVE  /\ Formed(req'[s])
             /\ req'[s].kind \in OtherThanPlaces => req'[s] = req[s]
             /\ s # r => \/ req'[s] = req[s]
                         \/ req[s].kind \in {"entry", "stage"} /\ req'[s] = [req[s] EXCEPT !.clean = FALSE]
  <2>1. CASE s = r
    BY <1>3, <2>1 DEF Formed, Done, OtherThanPlaces, EditKinds
  <2>2. CASE s # r /\ changed /\ s \in Reliant(q.id)
    <3>1. req'[s] = [req[s] EXCEPT !.clean = FALSE]
      BY <1>3, <2>2
    <3>2. req[s].kind = "entry" \/ req[s].kind = "stage"
      BY <2>2 DEF Reliant
    <3>3. CASE req[s].kind = "entry"
      <4>1. req[s] \in Changing
        BY <1>1, <3>3, ChangesAre
      <4>2. req'[s] \in Changing /\ req'[s].kind = "entry"
        BY <3>1, <3>3, <4>1, OvertakenChange
      <4> QED BY <3>1, <3>3, <4>2 DEF Formed, OtherThanPlaces, EditKinds
    <3>4. CASE req[s].kind = "stage"
      <4>1. req[s] \in Staging
        BY <1>1, <3>4, StagingsAre
      <4>2. req'[s] \in Staging /\ req'[s].kind = "stage"
        BY <3>1, <3>4, <4>1, OvertakenStaging
      <4> QED BY <3>1, <3>4, <4>2 DEF Formed, OtherThanPlaces, EditKinds
    <3> QED BY <3>2, <3>3, <3>4
  <2>3. CASE s # r /\ ~(changed /\ s \in Reliant(q.id))
    BY <1>1, <1>3, <2>3 DEF RequestsFormed
  <2> QED BY <2>1, <2>2, <2>3
<1>5. changed => \A s \in Reliant(q.id) : s # r => req'[s] = [req[s] EXCEPT !.clean = FALSE]
  BY <1>3 DEF Reliant
<1>6. DOMAIN req' = Requests /\ req'[r] = Done
  BY <1>3
<1> QED BY <1>2, <1>4, <1>5, <1>6 DEF RequestsFormed, Kept, changed

LEMMA FinishEntryKeeps ==
    ASSUME TypeOK, PlacesInv, NEW r \in Requests, FinishEntry(r)
    PROVE  RequestsFormed' /\ Kept(OtherThanPlaces) /\ PlacesTypeOK' /\ PlacesInv'
<1> PICK q : q = req[r]
  OBVIOUS
<1> PICK row : row = entry[q.id]
  OBVIOUS
<1> PICK new : new = After(q, row)
  OBVIOUS
<1>1. RequestsFormed /\ PlacesTypeOK
  BY TypedRequests DEF TypeOK
<1>2. /\ RequestsFormed' /\ Kept(OtherThanPlaces)
      /\ q \in Changing /\ q.kind = "entry" /\ req'[r] = Done
      /\ \A s \in Requests : s # r =>
            \/ req'[s] = req[s]
            \/ req[s].kind \in {"entry", "stage"} /\ req'[s] = [req[s] EXCEPT !.clean = FALSE]
      /\ new.private # row.private \/ new.org # row.org =>
            \A s \in Reliant(q.id) : s # r => req'[s] = [req[s] EXCEPT !.clean = FALSE]
  BY FinishEntryRequests
<1>3. /\ row \in Entry /\ q.id \in Entries /\ q.row \in Entry
      /\ q.does \in {"update", "toggle", "assign"}
  <2>1. row # Null
    BY <1>2 DEF PlacesInv, EntryAsRead
  <2> QED BY <1>1, <1>2, <2>1, ChangesAre DEF PlacesTypeOK
<1>4. /\ new \in Entry /\ new # Null
      /\ q.does = "toggle" => new.private = ~q.row.private
      /\ q.does # "toggle" => new.private = row.private
  BY <1>2, <1>3, AfterIs
<1>5. /\ entry' = [entry EXCEPT ![q.id] = new] /\ stage' = stage
      /\ public' = [public EXCEPT ![q.id] =
                        IF q.does # "toggle" \/ @ = Null THEN @
                        ELSE IF q.row.private = row.private THEN ~@ ELSE Null]
  BY DEF FinishEntry
<1>6. /\ entry'[q.id] = new /\ \A y \in Entries : y # q.id => entry'[y] = entry[y]
      /\ \A y \in Entries : y # q.id => public'[y] = public[y]
      /\ public'[q.id] = IF q.does # "toggle" \/ public[q.id] = Null THEN public[q.id]
                         ELSE IF q.row.private = row.private THEN ~public[q.id] ELSE Null
  BY <1>1, <1>3, <1>5 DEF PlacesTypeOK
<1>7. PlacesTypeOK'
  <2>1. \A y \in Entries : public'[y] \in BOOLEAN \cup {Null}
    <3> TAKE y \in Entries
    <3>1. CASE y # q.id
      BY <1>1, <1>6, <3>1 DEF PlacesTypeOK
    <3>2. CASE y = q.id
      <4>1. public[y] = Null \/ public[y] \in BOOLEAN
        BY <1>1 DEF PlacesTypeOK
      <4> QED BY <1>6, <3>2, <4>1
    <3> QED BY <3>1, <3>2
  <2>2. public' \in [Entries -> BOOLEAN \cup {Null}]
    BY <1>1, <1>5, <2>1 DEF PlacesTypeOK
  <2> QED BY <1>1, <1>4, <1>5, <2>2 DEF PlacesTypeOK
<1>8. PublicAsMeant'
  <2>1. SUFFICES ASSUME NEW y \in Entries, entry'[y] # Null /\ public'[y] # Null
                 PROVE  public'[y] = ~entry'[y].private
    BY DEF PublicAsMeant
  <2>2. CASE y # q.id
    BY <1>6, <2>1, <2>2 DEF PlacesInv, PublicAsMeant
  <2>3. CASE y = q.id
    <3>1. row # Null /\ entry'[y] = new /\ row.private \in BOOLEAN /\ q.row.private \in BOOLEAN
      BY <1>3, <1>6, <2>3, EntryAssumption DEF Entry
    <3>2. public[y] # Null => public[y] = ~row.private
      BY <2>3, <3>1 DEF PlacesInv, PublicAsMeant
    <3>3. CASE q.does # "toggle"
      BY <1>4, <1>6, <2>1, <2>3, <3>1, <3>2, <3>3
    <3>4. CASE q.does = "toggle"
      <4>1. public[y] # Null /\ q.row.private = row.private /\ public'[y] = ~public[y]
        BY <1>6, <2>1, <2>3, <3>4
      <4>2. new.private = ~row.private
        BY <1>4, <3>4, <4>1
      <4> QED BY <3>1, <3>2, <4>1, <4>2
    <3> QED BY <3>3, <3>4
  <2> QED BY <2>2, <2>3
<1>9. ASSUME NEW s \in Requests, req'[s].kind = "entry"
      PROVE  /\ s # r /\ req[s].kind = "entry" /\ req'[s].does = req[s].does
             /\ req'[s].id = req[s].id /\ req'[s].row = req[s].row /\ req'[s].user = req[s].user
             /\ req'[s].clean => req'[s] = req[s]
             /\ req[s].id = q.id /\ req'[s].clean => new.private = row.private /\ new.org = row.org
  <2>1. s # r
    BY <1>2, <1>9 DEF Done
  <2>2. req[s].kind = "entry" /\ req[s] \in Changing
    <3>1. CASE req'[s] = req[s]
      BY <1>1, <1>9, <3>1, ChangesAre
    <3>2. CASE req[s].kind = "stage" /\ req'[s] = [req[s] EXCEPT !.clean = FALSE]
      BY <1>1, <1>9, <3>2, StagingsAre, OvertakenStaging
    <3> QED BY <1>1, <1>2, <2>1, <3>1, <3>2, ChangesAre
  <2>3. req'[s] = req[s] \/ req'[s] = [req[s] EXCEPT !.clean = FALSE]
    BY <1>2, <2>1
  <2>4. LET w == [req[s] EXCEPT !.clean = FALSE] IN
        w.does = req[s].does /\ w.id = req[s].id /\ w.row = req[s].row /\ w.user = req[s].user
        /\ w.clean = FALSE
    BY <2>2, OvertakenChange
  <2>5. req[s].id = q.id => s \in Reliant(q.id)
    BY <2>2 DEF Reliant
  <2>6. req'[s].clean => req'[s] = req[s]
    BY <2>3, <2>4
  <2>7. req[s].id = q.id /\ (new.private # row.private \/ new.org # row.org) => ~req'[s].clean
    BY <1>2, <2>1, <2>4, <2>5
  <2> QED BY <2>1, <2>2, <2>3, <2>4, <2>6, <2>7
<1>10. EntryAsRead'
  <2>1. SUFFICES ASSUME NEW s \in Requests, req'[s].kind = "entry"
                 PROVE  LET w == req'[s] IN
                        /\ entry'[w.id] # Null
                        /\ w.clean => entry'[w.id].private = w.row.private /\ entry'[w.id].org = w.row.org
                        /\ w.does = "update" => MayWrite(w.user, w.id, w.row)
                        /\ w.does = "assign" => w.row.org = Null
    BY DEF EntryAsRead, MayWrite
  <2>2. /\ req[s].kind = "entry" /\ req'[s].does = req[s].does
        /\ req'[s].id = req[s].id /\ req'[s].row = req[s].row /\ req'[s].user = req[s].user
        /\ req'[s].clean => req[s].clean
        /\ req[s].id = q.id /\ req'[s].clean => new.private = row.private /\ new.org = row.org
    BY <1>9, <2>1
  <2>3. /\ entry[req[s].id] # Null
        /\ req[s].clean => entry[req[s].id].private = req[s].row.private
                             /\ entry[req[s].id].org = req[s].row.org
        /\ req[s].does = "update" => MayWrite(req[s].user, req[s].id, req[s].row)
        /\ req[s].does = "assign" => req[s].row.org = Null
        /\ req[s].id \in Entries
    BY <1>1, <2>2, ChangesAre DEF PlacesInv, EntryAsRead
  <2>4. CASE req[s].id = q.id
    BY <1>4, <1>6, <2>2, <2>3, <2>4
  <2>5. CASE req[s].id # q.id
    BY <1>6, <2>2, <2>3, <2>5
  <2> QED BY <2>4, <2>5
<1>11. ASSUME NEW s \in Requests, req'[s].kind = "stage"
       PROVE  /\ s # r /\ req[s].kind = "stage" /\ req'[s].does = req[s].does
              /\ req'[s].id = req[s].id /\ req'[s].venue = req[s].venue /\ req'[s].user = req[s].user
              /\ req'[s].clean => req'[s] = req[s]
              /\ req[s].venue = q.id /\ req'[s].clean => new.private = row.private /\ new.org = row.org
  <2>1. s # r
    BY <1>2, <1>11 DEF Done
  <2>2. req[s].kind = "stage" /\ req[s] \in Staging
    <3>1. CASE req'[s] = req[s]
      BY <1>1, <1>11, <3>1, StagingsAre
    <3>2. CASE req[s].kind = "entry" /\ req'[s] = [req[s] EXCEPT !.clean = FALSE]
      BY <1>1, <1>11, <3>2, ChangesAre, OvertakenChange
    <3> QED BY <1>1, <1>2, <2>1, <3>1, <3>2, StagingsAre
  <2>3. req'[s] = req[s] \/ req'[s] = [req[s] EXCEPT !.clean = FALSE]
    BY <1>2, <2>1
  <2>4. LET w == [req[s] EXCEPT !.clean = FALSE] IN
        w.does = req[s].does /\ w.id = req[s].id /\ w.venue = req[s].venue /\ w.user = req[s].user
        /\ w.clean = FALSE
    BY <2>2, OvertakenStaging
  <2>5. req[s].venue = q.id => s \in Reliant(q.id)
    BY <2>2 DEF Reliant
  <2>6. req'[s].clean => req'[s] = req[s]
    BY <2>3, <2>4
  <2>7. req[s].venue = q.id /\ (new.private # row.private \/ new.org # row.org) => ~req'[s].clean
    BY <1>2, <2>1, <2>4, <2>5
  <2> QED BY <2>1, <2>2, <2>3, <2>4, <2>6, <2>7
<1>12. StageAsRead'
  <2>1. SUFFICES ASSUME NEW s \in Requests, req'[s].kind = "stage"
                 PROVE  LET w == req'[s] IN
                        /\ entry'[w.venue] # Null
                        /\ w.does = "create" => stage'[w.id] = Null
                        /\ w.does = "delete" /\ stage'[w.id] # Null => stage'[w.id] = w.venue
                        /\ w.does = "delete" /\ w.clean => MayWrite(w.user, w.venue, entry'[w.venue])
    BY DEF StageAsRead, MayWrite
  <2>2. /\ req[s].kind = "stage" /\ req'[s].does = req[s].does
        /\ req'[s].id = req[s].id /\ req'[s].venue = req[s].venue /\ req'[s].user = req[s].user
        /\ req'[s].clean => req[s].clean
        /\ req[s].venue = q.id /\ req'[s].clean => new.private = row.private /\ new.org = row.org
    BY <1>11, <2>1
  <2>3. /\ entry[req[s].venue] # Null
        /\ req[s].does = "create" => stage[req[s].id] = Null
        /\ req[s].does = "delete" /\ stage[req[s].id] # Null => stage[req[s].id] = req[s].venue
        /\ req[s].does = "delete" /\ req[s].clean =>
              MayWrite(req[s].user, req[s].venue, entry[req[s].venue])
        /\ req[s].venue \in Entries
    BY <1>1, <2>2, StagingsAre DEF PlacesInv, StageAsRead, Entries
  <2>4. CASE req[s].venue = q.id
    <3>1. req'[s].clean => (MayWrite(req[s].user, req[s].venue, new)
                              <=> MayWrite(req[s].user, req[s].venue, row))
      BY <2>2, <2>4, SameRight
    <3> QED BY <1>4, <1>5, <1>6, <2>2, <2>3, <2>4, <3>1
  <2>5. CASE req[s].venue # q.id
    BY <1>5, <1>6, <2>2, <2>3, <2>5
  <2> QED BY <2>4, <2>5
<1>13. OneCreation'
  BY <1>11 DEF PlacesInv, OneCreation
<1>14. StagesStand'
  BY <1>1, <1>4, <1>5, <1>6 DEF PlacesInv, StagesStand, PlacesTypeOK, Entries
<1> QED BY <1>2, <1>7, <1>8, <1>10, <1>12, <1>13, <1>14 DEF PlacesInv

LEMMA FinishStageKeeps ==
    ASSUME TypeOK, PlacesInv, NEW r \in Requests, FinishStage(r)
    PROVE  RequestsFormed' /\ Kept(OtherThanPlaces) /\ PlacesTypeOK' /\ PlacesInv'
<1> PICK q : q = req[r]
  OBVIOUS
<1>1. RequestsFormed /\ PlacesTypeOK
  BY TypedRequests DEF TypeOK
<1>2. /\ q.kind = "stage" /\ q.id \in Stages /\ q.venue \in Venues /\ q.does \in {"create", "delete"}
  BY <1>1, StagingsAre DEF FinishStage
<1>3. /\ stage' = [stage EXCEPT ![q.id] = IF q.does = "create" THEN q.venue ELSE Null]
      /\ req' = [req EXCEPT ![r] = Done]
      /\ entry' = entry /\ public' = public
  BY DEF FinishStage
<1>4. DOMAIN req' = Requests /\ req'[r] = Done /\ \A s \in Requests : s # r => req'[s] = req[s]
  BY <1>1, <1>3 DEF RequestsFormed
<1>5. RequestsFormed'
  BY <1>1, <1>4 DEF RequestsFormed, Formed
<1>6. \A s \in Requests : req'[s].kind # "done" => s # r /\ req'[s] = req[s]
  BY <1>4 DEF Done
<1>7. Kept(OtherThanPlaces)
  BY <1>6 DEF Kept, OtherThanPlaces, EditKinds
<1>8. PlacesTypeOK'
  BY <1>1, <1>2, <1>3 DEF PlacesTypeOK
<1>9. PublicAsMeant' /\ EntryAsRead' /\ OneCreation'
  BY <1>3, <1>6 DEF PlacesInv, PublicAsMeant, EntryAsRead, OneCreation
<1>10. \A y \in Stages : stage'[y] = IF y = q.id THEN (IF q.does = "create" THEN q.venue ELSE Null)
                                     ELSE stage[y]
  BY <1>1, <1>3 DEF PlacesTypeOK
<1>11. StageAsRead'
  <2>1. SUFFICES ASSUME NEW s \in Requests, req'[s].kind = "stage"
                 PROVE  LET w == req'[s] IN
                        /\ entry'[w.venue] # Null
                        /\ w.does = "create" => stage'[w.id] = Null
                        /\ w.does = "delete" /\ stage'[w.id] # Null => stage'[w.id] = w.venue
                        /\ w.does = "delete" /\ w.clean => MayWrite(w.user, w.venue, entry'[w.venue])
    BY DEF StageAsRead, MayWrite
  <2>2. s # r /\ req'[s] = req[s] /\ req[s].kind = "stage" /\ req[s].id \in Stages
        /\ req[s].does \in {"create", "delete"}
    BY <1>1, <1>6, <2>1, StagingsAre
  <2>3. /\ entry[req[s].venue] # Null
        /\ req[s].does = "create" => stage[req[s].id] = Null
        /\ req[s].does = "delete" /\ stage[req[s].id] # Null => stage[req[s].id] = req[s].venue
        /\ req[s].does = "delete" /\ req[s].clean =>
              MayWrite(req[s].user, req[s].venue, entry[req[s].venue])
    BY <2>2 DEF PlacesInv, StageAsRead
  <2>4. CASE req[s].id = q.id
    <3>1. q.does # "create" /\ req[s].does # "create"
      BY <1>2, <2>2, <2>4 DEF PlacesInv, OneCreation
    <3> QED BY <1>3, <1>10, <2>2, <2>3, <2>4, <3>1
  <2>5. CASE req[s].id # q.id
    BY <1>3, <1>10, <2>2, <2>3, <2>5
  <2> QED BY <2>4, <2>5
<1>12. StagesStand'
  <2>1. entry[q.venue] # Null
    BY <1>2 DEF PlacesInv, StageAsRead
  <2> QED BY <1>3, <1>10, <2>1 DEF PlacesInv, StagesStand
<1> QED BY <1>5, <1>7, <1>8, <1>9, <1>11, <1>12 DEF PlacesInv

LEMMA EntryStepKeeps ==
    ASSUME TypeOK, PlacesInv, EntryStep \/ StageStart
    PROVE  RequestsFormed' /\ Kept(OtherThanPlaces) /\ PlacesTypeOK' /\ PlacesInv'
<1>1. PlacesTypeOK
  BY DEF TypeOK
<1>2. ASSUME NEW r \in Requests, NEW u \in People, NEW x \in Entries, StartUpdate(r, u, x)
      PROVE  RequestsFormed' /\ Kept(OtherThanPlaces) /\ PlacesTypeOK' /\ PlacesInv'
  <2>1. entry[x] # Null /\ MayWrite(u, x, entry[x]) /\ Prepare(r, u, "update", x, Null)
    BY <1>2 DEF StartUpdate
  <2> QED BY <2>1, PrepareKeeps
<1>3. ASSUME NEW r \in Requests, NEW u \in People, NEW x \in Entries, StartToggle(r, u, x)
      PROVE  RequestsFormed' /\ Kept(OtherThanPlaces) /\ PlacesTypeOK' /\ PlacesInv'
  <2>1. entry[x] # Null /\ Prepare(r, u, "toggle", x, Null)
    BY <1>3 DEF StartToggle
  <2> QED BY <2>1, PrepareKeeps
<1>4. ASSUME NEW r \in Requests, NEW u \in People, NEW x \in Entries, NEW o \in Orgs,
             StartAssign(r, u, x, o)
      PROVE  RequestsFormed' /\ Kept(OtherThanPlaces) /\ PlacesTypeOK' /\ PlacesInv'
  <2>1. entry[x] # Null /\ entry[x].org = Null /\ Prepare(r, u, "assign", x, o)
    BY <1>4 DEF StartAssign, Assignable
  <2> QED BY <2>1, PrepareKeeps
<1>5. ASSUME NEW r \in Requests, NEW u \in People, NEW s \in Stages, StartRemoval(r, u, s)
      PROVE  RequestsFormed' /\ Kept(OtherThanPlaces) /\ PlacesTypeOK' /\ PlacesInv'
  <2>1. stage[s] # Null /\ MayWrite(u, stage[s], entry[stage[s]])
        /\ StageRequest(r, u, "delete", s, stage[s])
    BY <1>5 DEF StartRemoval
  <2>2. stage[s] \in Venues /\ entry[stage[s]] # Null
    BY <1>1, <2>1 DEF PlacesTypeOK, PlacesInv, StagesStand
  <2> QED BY <2>1, <2>2, StageRequestKeeps
<1>6. ASSUME NEW r \in Requests, NEW u \in People, NEW s \in Stages, NEW v \in Venues,
             StartStage(r, u, s, v)
      PROVE  RequestsFormed' /\ Kept(OtherThanPlaces) /\ PlacesTypeOK' /\ PlacesInv'
  <2>1. /\ entry[v] # Null /\ stage[s] = Null
        /\ \A q \in Requests : req[q].kind = "stage" => req[q].id # s
        /\ StageRequest(r, u, "create", s, v)
    BY <1>6 DEF StartStage
  <2> QED BY <2>1, StageRequestKeeps
<1> QED BY <1>2, <1>3, <1>4, <1>5, <1>6, FinishEntryKeeps, CreateEntryKeeps DEF EntryStep, StageStart

\* An entry is listed as it was decided.
LEMMA ListedAsDecided ==
    ASSUME TypeOK, PlacesInv
    PROVE  ListedAsMeant
<1>1. SUFFICES ASSUME NEW x \in Known(Entries), public[x] # Null, NEW u \in People \cup {Null}
               PROVE  /\ x \in Listed(u) <=> public[x] \/ u \in Admins \/ Belongs(u, x)
                      /\ entry[x].org # Null =>
                           (x \in ListedFor(u, entry[x].org) <=> public[x] \/ Belongs(u, x))
  BY DEF ListedAsMeant
<1>2. x \in Entries /\ entry[x] # Null
  BY DEF Known
<1>3. public[x] = ~entry[x].private
  BY <1>1, <1>2 DEF PlacesInv, PublicAsMeant
<1>4. public[x] \in BOOLEAN /\ entry[x].private \in BOOLEAN
  BY <1>1, <1>2 DEF TypeOK, PlacesTypeOK, Entry
<1>5. x \in Listed(u) <=> Belongs(u, x) \/ ~entry[x].private \/ u \in Admins
  BY DEF Listed
<1>6. x \in ListedFor(u, entry[x].org) <=> Belongs(u, x) \/ ~entry[x].private
  BY DEF ListedFor
<1> QED BY <1>3, <1>4, <1>5, <1>6

\* Only requests about them change artists, venues and stages.
AreChangesAllowed ==
    /\ \A x \in Known(Entries) : entry'[x].editor # entry[x].editor => ByRight(x, x)
    /\ \A s \in Stages : stage[s] # Null /\ stage'[s] = Null => ByRight(s, stage[s])
IsOrganizationKept ==
    \A x \in Known(Entries) :
        entry[x].org # Null /\ entry'[x].org # entry[x].org =>
            \E r \in Requests :
                req[r].kind = "entry" /\ req[r].id = x /\ req'[r] = Done /\ ~req[r].clean

LEMMA FinishEntryAllowed ==
    ASSUME TypeOK, PlacesInv, NEW r \in Requests, FinishEntry(r)
    PROVE  AreChangesAllowed /\ IsOrganizationKept
<1> PICK q : q = req[r]
  OBVIOUS
<1> PICK row : row = entry[q.id]
  OBVIOUS
<1>1. RequestsFormed /\ PlacesTypeOK
  BY TypedRequests DEF TypeOK
<1>2. q \in Changing /\ q.kind = "entry" /\ req'[r] = Done /\ q.user \in People /\ q.id \in Entries
      /\ q.clean \in BOOLEAN
  BY <1>1, FinishEntryRequests, ChangesAre
<1>3. /\ row # Null
      /\ q.clean => row.private = q.row.private /\ row.org = q.row.org
      /\ q.does = "update" => MayWrite(q.user, q.id, q.row)
      /\ q.does = "assign" => q.row.org = Null
  BY <1>2 DEF PlacesInv, EntryAsRead
<1>4. row \in Entry
  BY <1>1, <1>2, <1>3 DEF PlacesTypeOK
<1>5. /\ entry'[q.id] = After(q, row) /\ \A y \in Entries : y # q.id => entry'[y] = entry[y]
      /\ stage' = stage
  BY <1>1, <1>2 DEF FinishEntry, PlacesTypeOK
<1>6. /\ q.does # "update" => After(q, row).editor = row.editor
      /\ q.does # "assign" => After(q, row).org = row.org
  BY <1>2, <1>4, AfterIs
<1>7. ASSUME NEW x \in Known(Entries), entry'[x].editor # entry[x].editor
      PROVE  ByRight(x, x)
  <2>1. x = q.id /\ q.does = "update"
    BY <1>5, <1>6, <1>7 DEF Known
  <2>2. q.user \in Admins \/ (q.row.private /\ <<q.user, q.row.org>> \in Members)
    BY <1>2, <1>3, <2>1, RightToWrite
  <2>3. q.user \in Admins \/ ~q.clean \/ (row.private /\ <<q.user, row.org>> \in Members)
    BY <1>2, <1>3, <2>2
  <2> QED BY <1>2, <2>1, <2>3 DEF ByRight, Belongs
<1>8. ASSUME NEW x \in Known(Entries), entry[x].org # Null, entry'[x].org # entry[x].org
      PROVE  \E p \in Requests :
                req[p].kind = "entry" /\ req[p].id = x /\ req'[p] = Done /\ ~req[p].clean
  <2>1. x = q.id /\ q.does = "assign"
    BY <1>5, <1>6, <1>8 DEF Known
  <2>2. ~q.clean
    BY <1>3, <1>8, <2>1
  <2> QED BY <1>2, <2>1, <2>2
<1> QED BY <1>5, <1>7, <1>8 DEF AreChangesAllowed, IsOrganizationKept

LEMMA FinishStageAllowed ==
    ASSUME TypeOK, PlacesInv, NEW r \in Requests, FinishStage(r)
    PROVE  AreChangesAllowed /\ IsOrganizationKept
<1> PICK q : q = req[r]
  OBVIOUS
<1>1. RequestsFormed /\ PlacesTypeOK
  BY TypedRequests DEF TypeOK
<1>2. /\ q.kind = "stage" /\ q.id \in Stages /\ q.venue \in Venues /\ q.user \in People
      /\ q.does \in {"create", "delete"} /\ q.clean \in BOOLEAN
  BY <1>1, StagingsAre DEF FinishStage
<1>3. /\ stage' = [stage EXCEPT ![q.id] = IF q.does = "create" THEN q.venue ELSE Null]
      /\ req' = [req EXCEPT ![r] = Done] /\ entry' = entry
  BY DEF FinishStage
<1>4. req'[r] = Done
  BY <1>1, <1>3 DEF RequestsFormed
<1>5. ASSUME NEW s \in Stages, stage[s] # Null, stage'[s] = Null
      PROVE  ByRight(s, stage[s])
  <2>1. s = q.id
    BY <1>1, <1>3, <1>5 DEF PlacesTypeOK
  <2>2. q.does = "delete" /\ stage[s] = q.venue
    BY <1>2, <1>5, <2>1 DEF PlacesInv, StageAsRead
  <2>3. q.clean => MayWrite(q.user, q.venue, entry[q.venue])
    BY <1>2, <2>2 DEF PlacesInv, StageAsRead
  <2>4. q.user \in Admins \/ ~q.clean
        \/ (entry[q.venue].private /\ <<q.user, entry[q.venue].org>> \in Members)
    BY <1>2, <2>3, RightToWrite
  <2> QED BY <1>2, <1>4, <2>1, <2>2, <2>4 DEF ByRight, Belongs
<1> QED BY <1>3, <1>5 DEF AreChangesAllowed, IsOrganizationKept

LEMMA PlacesUnchangedAllowed ==
    ASSUME UNCHANGED <<entry, stage>>
    PROVE  AreChangesAllowed /\ IsOrganizationKept
<1>1. entry' = entry /\ stage' = stage
  OBVIOUS
<1> QED BY <1>1 DEF AreChangesAllowed, IsOrganizationKept

LEMMA PlacesStepAllowed ==
    ASSUME TypeOK, PlacesInv, EntryStep \/ StageStart \/ \E r \in Requests : FinishStage(r)
    PROVE  AreChangesAllowed /\ IsOrganizationKept
<1>1. PlacesTypeOK
  BY DEF TypeOK
<1>2. ASSUME NEW r \in Requests, NEW u \in People, NEW x \in Entries, NEW o \in Orgs \cup {Null},
             NEW spotify \in BOOLEAN, CreateEntry(r, u, x, o, spotify)
      PROVE  AreChangesAllowed /\ IsOrganizationKept
  <2>1. x \notin Known(Entries) /\ stage' = stage /\ \A y \in Known(Entries) : entry'[y] = entry[y]
    BY <1>1, <1>2 DEF CreateEntry, Known, PlacesTypeOK
  <2> QED BY <2>1 DEF AreChangesAllowed, IsOrganizationKept
<1>3. ASSUME UNCHANGED placeVars
      PROVE  AreChangesAllowed /\ IsOrganizationKept
  BY <1>3, PlacesUnchangedAllowed DEF placeVars
<1>4. ASSUME StageStart
      PROVE  UNCHANGED placeVars
  BY <1>4 DEF StageStart, StartRemoval, StartStage, StageRequest
<1>5. ASSUME NEW r \in Requests, NEW u \in People, NEW x \in Entries,
             StartUpdate(r, u, x) \/ StartToggle(r, u, x) \/ \E o \in Orgs : StartAssign(r, u, x, o)
      PROVE  UNCHANGED placeVars
  BY <1>5 DEF StartUpdate, StartToggle, StartAssign, Prepare
<1> QED BY <1>2, <1>3, <1>4, <1>5, FinishEntryAllowed, FinishStageAllowed DEF EntryStep

-----------------------------------------------------------------------------
(* The marketing actions.                                                  *)

JobInv == LooksAreLists /\ Series /\ GoesOn

\* Only what is said of one action may change.
LEMMA OneJob ==
    ASSUME job \in [Jobs -> Job \cup {Null}], NEW j \in Jobs, NEW v, Set(j, v)
    PROVE  job'[j] = v /\ \A i \in Jobs : i # j => job'[i] = job[i]
BY DEF Set

LEMMA Booleans == Null # TRUE /\ Null # FALSE
BY NullAssumption

LEMMA StartJobKeeps ==
    ASSUME TypeOK, JobInv, NEW j \in Jobs, StartJob(j)
    PROVE  JobInv'
<1> DEFINE v == [job[j] EXCEPT !.seen = event]
<1>1. /\ job[j] \in Job /\ job[j] # Null /\ job[j].seen = Null /\ event # Null
      /\ event' = event /\ key' = key /\ excused' = excused
  BY RecordAssumption DEF StartJob, TypeOK
<1>2. job'[j] = v /\ \A i \in Jobs : i # j => job'[i] = job[i]
  BY OneJob DEF StartJob, TypeOK
<1>3. /\ v # Null /\ v.kind = job[j].kind /\ v.seen = event /\ v.lapsed = job[j].lapsed
      /\ v.found = job[j].found
  <2>1. v \in Job
    BY <1>1 DEF TypeOK, Job
  <2> QED BY <1>1, <2>1, RecordAssumption DEF Job
<1> HIDE DEF v
<1>4. LooksAreLists'
  BY <1>1, <1>2, <1>3 DEF JobInv, LooksAreLists, Checked
<1>5. Imports' = Imports /\ Beginning' = Beginning
  BY <1>1, <1>2, <1>3 DEF Imports, Beginning
<1>6. \A i \in Imports : job'[i].lapsed = job[i].lapsed
  BY <1>1, <1>2, <1>3 DEF Imports
<1>7. Series'
  BY <1>1, <1>5, <1>6 DEF JobInv, Series
<1>8. GoesOn'
  BY <1>1, <1>2, <1>3 DEF JobInv, GoesOn
<1> QED BY <1>4, <1>7, <1>8 DEF JobInv

LEMMA CheckListKeeps ==
    ASSUME TypeOK, JobInv, NEW j \in Jobs, CheckList(j)
    PROVE  JobInv'
<1> PICK b : b = (PendingImports # {})
  OBVIOUS
<1> DEFINE v == [job[j] EXCEPT !.found = b]
<1>1. /\ job[j] \in Job /\ job[j] # Null /\ job[j].seen # Null /\ job[j].kind = "list"
      /\ job[j].found = Null
      /\ event' = event /\ key' = key
      /\ excused' = IF \E i \in Checked : job[i].found = FALSE
                    THEN excused \cup {"twice"} ELSE excused
  BY DEF CheckList, Running, TypeOK
<1>2. job'[j] = v /\ \A i \in Jobs : i # j => job'[i] = job[i]
  <2>1. Set(j, v)
    BY DEF CheckList
  <2> QED BY <2>1, OneJob DEF TypeOK
<1>3. /\ v # Null /\ v.kind = "list" /\ v.seen # Null /\ v.lapsed = job[j].lapsed
      /\ v.found = b /\ b \in BOOLEAN
  <2>1. v \in Job /\ b \in BOOLEAN
    BY <1>1 DEF Job
  <2> QED BY <1>1, <2>1, RecordAssumption DEF Job
<1> HIDE DEF v
<1>4. LooksAreLists'
  BY <1>1, <1>2, <1>3 DEF JobInv, LooksAreLists, Checked
<1>5. Imports' = Imports /\ \A i \in Imports : i # j /\ job'[i] = job[i]
  BY <1>1, <1>2, <1>3 DEF Imports
<1>6. Series'
  <2>1. SUFFICES ASSUME "twice" \notin excused'
                 PROVE  /\ \A i \in Imports' : ~job'[i].lapsed
                        /\ \A i, k \in Imports' : i = k
                        /\ \A i, k \in Beginning' : i = k
                        /\ Beginning' # {} => Imports' = {}
    BY DEF Series
  <2>2. "twice" \notin excused /\ ~ \E i \in Checked : job[i].found = FALSE
    BY <1>1, <2>1
  <2>3. Beginning = {}
    BY <2>2, Booleans DEF Beginning, Checked
  <2>4. (\A i \in Imports : ~job[i].lapsed) /\ (\A i, k \in Imports : i = k)
    BY <2>2 DEF JobInv, Series
  <2>5. \A i \in Beginning' : i = j /\ b = FALSE
    BY <1>2, <1>3, <2>3 DEF Beginning
  <2>6. b = FALSE => Imports = {}
    <3>1. PendingImports = {i \in Imports : ~job[i].lapsed}
      BY DEF PendingImports, Imports
    <3> QED BY <2>4, <3>1
  <2> QED BY <1>5, <2>4, <2>5, <2>6
<1>7. GoesOn'
  <2>1. SUFFICES ASSUME event'.status = "Published" /\ ~event'.over /\ key' /\ "missed" \notin excused'
                 PROVE  \E i \in Jobs : job'[i] # Null /\ (job'[i].kind = "import" \/ job'[i].found # TRUE)
    BY DEF GoesOn
  <2>2. CASE b = FALSE
    BY <1>2, <1>3, <2>2
  <2>3. CASE b # FALSE
    <3>1. PICK i \in PendingImports : TRUE
      BY <2>3
    <3>2. i \in Jobs /\ i \in Imports /\ job[i] # Null /\ job[i].kind = "import"
      BY DEF PendingImports, Imports
    <3>3. job'[i] = job[i]
      BY <1>5, <3>2
    <3> QED BY <3>2, <3>3
  <2> QED BY <2>2, <2>3
<1> QED BY <1>4, <1>6, <1>7 DEF JobInv

\* An action that ends, or is tried again from its start.
LEMMA FreshJob ==
    ASSUME NEW kind \in {"list", "import"}
    PROVE  /\ NewJob(kind) # Null /\ NewJob(kind).kind = kind /\ NewJob(kind).found = Null
           /\ NewJob(kind).lapsed = FALSE
<1>1. NewJob(kind) \in Job
  BY JobAssumption DEF NewJob, Job
<1>2. NewJob(kind).kind = kind /\ NewJob(kind).found = Null /\ NewJob(kind).lapsed = FALSE
  BY DEF NewJob
<1> QED BY <1>1, <1>2, RecordAssumption

LEMMA EndedJob ==
    ASSUME JobInv, NEW j \in Jobs, job[j] # Null, \A i \in Jobs : i # j => job'[i] = job[i],
           job'[j] # Null =>
                job'[j].kind = job[j].kind /\ job'[j].found = Null /\ job'[j].lapsed = FALSE,
           "twice" \in excused' <=> "twice" \in excused
    PROVE  LooksAreLists' /\ Series'
<1>1. LooksAreLists'
  BY DEF JobInv, LooksAreLists, Checked
<1>2. Imports' \subseteq Imports /\ Beginning' \subseteq Beginning
  BY Booleans DEF Imports, Beginning
<1>3. \A i \in Imports' : job'[i].lapsed = FALSE \/ job'[i] = job[i]
  BY DEF Imports
<1>4. Series'
  <2>1. SUFFICES ASSUME "twice" \notin excused'
                 PROVE  /\ \A i \in Imports' : ~job'[i].lapsed
                        /\ \A i, k \in Imports' : i = k
                        /\ \A i, k \in Beginning' : i = k
                        /\ Beginning' # {} => Imports' = {}
    BY DEF Series
  <2>2. /\ \A i \in Imports : ~job[i].lapsed
        /\ \A i, k \in Imports : i = k
        /\ \A i, k \in Beginning : i = k
        /\ Beginning # {} => Imports = {}
    BY <2>1 DEF JobInv, Series
  <2>3. \A i \in Imports' : ~job'[i].lapsed
    BY <1>2, <1>3, <2>2
  <2> QED BY <1>2, <2>2, <2>3
<1> QED BY <1>1, <1>4

LEMMA FinishListKeeps ==
    ASSUME TypeOK, JobInv, NEW j \in Jobs, FinishList(j)
    PROVE  JobInv'
<1>1. /\ job[j] \in Job /\ job[j] # Null /\ job[j].kind = "list" /\ key' = key
      /\ event \in EventRow
  BY DEF FinishList, Running, TypeOK
<1>2. event'.status = event.status /\ event'.over = event.over
  BY <1>1 DEF FinishList, EventRow
<1>3. CASE ~key /\ Set(j, Null) /\ UNCHANGED <<event, excused>>
  <2>1. job'[j] = Null /\ \A i \in Jobs : i # j => job'[i] = job[i]
    BY <1>3, OneJob DEF TypeOK
  <2>2. LooksAreLists' /\ Series'
    BY <1>1, <1>3, <2>1, EndedJob
  <2>3. GoesOn'
    BY <1>1, <1>3 DEF GoesOn
  <2> QED BY <2>2, <2>3 DEF JobInv
<1>4. CASE job[j].found = TRUE /\ Set(j, Null) /\ UNCHANGED excused
  <2>1. job'[j] = Null /\ \A i \in Jobs : i # j => job'[i] = job[i]
    BY <1>4, OneJob DEF TypeOK
  <2>2. LooksAreLists' /\ Series'
    BY <1>1, <1>4, <2>1, EndedJob
  <2>3. GoesOn'
    <3>1. SUFFICES ASSUME event.status = "Published" /\ ~event.over /\ key /\ "missed" \notin excused
                   PROVE  \E i \in Jobs : job'[i] # Null /\ (job'[i].kind = "import" \/ job'[i].found # TRUE)
      BY <1>1, <1>2, <1>4 DEF GoesOn
    <3>2. PICK i \in Jobs : job[i] # Null /\ (job[i].kind = "import" \/ job[i].found # TRUE)
      BY <3>1 DEF JobInv, GoesOn
    <3>3. i # j
      BY <1>1, <1>4, <3>2
    <3> QED BY <2>1, <3>2, <3>3
  <2> QED BY <2>2, <2>3 DEF JobInv
<1>5. CASE job[j].found = FALSE /\ Set(j, NewJob("import")) /\ excused' = excused \ {"missed"}
  <2>1. /\ job'[j] # Null /\ job'[j].kind = "import" /\ job'[j].found = Null /\ job'[j].lapsed = FALSE
        /\ \A i \in Jobs : i # j => job'[i] = job[i]
    BY <1>5, OneJob, FreshJob DEF TypeOK
  <2>2. LooksAreLists'
    BY <2>1 DEF JobInv, LooksAreLists, Checked
  <2>3. j \in Beginning
    BY <1>1, <1>5 DEF Beginning
  <2>4. Imports' \subseteq Imports \cup {j} /\ Beginning' \subseteq Beginning \ {j}
    BY <2>1, Booleans DEF Imports, Beginning
  <2>5. Series'
    <3>1. SUFFICES ASSUME "twice" \notin excused'
                   PROVE  /\ \A i \in Imports' : ~job'[i].lapsed
                          /\ \A i, k \in Imports' : i = k
                          /\ \A i, k \in Beginning' : i = k
                          /\ Beginning' # {} => Imports' = {}
      BY DEF Series
    <3>2. "twice" \notin excused
      BY <1>5, <3>1
    <3>3. Imports = {} /\ \A i, k \in Beginning : i = k
      BY <2>3, <3>2 DEF JobInv, Series
    <3>4. Imports' \subseteq {j} /\ Beginning' = {}
      BY <2>3, <2>4, <3>3
    <3>5. \A i \in Imports' : ~job'[i].lapsed
      BY <2>1, <3>4
    <3> QED BY <3>4, <3>5
  <2>6. GoesOn'
    BY <2>1 DEF GoesOn
  <2> QED BY <2>2, <2>5, <2>6 DEF JobInv
<1> QED BY <1>3, <1>4, <1>5 DEF FinishList

LEMMA FinishImportKeeps ==
    ASSUME TypeOK, JobInv, NEW j \in Jobs, FinishImport(j)
    PROVE  JobInv'
<1>1. /\ job[j] \in Job /\ job[j] # Null /\ job[j].kind = "import"
      /\ key' = key /\ event' = event
  BY DEF FinishImport, Running, TypeOK
<1>2. CASE IsEventOnSale(job[j].seen)
  <2>1. Set(j, NewJob("import")) /\ excused' = excused
    BY <1>2 DEF FinishImport
  <2>2. /\ job'[j] # Null /\ job'[j].kind = "import" /\ job'[j].found = Null /\ job'[j].lapsed = FALSE
        /\ \A i \in Jobs : i # j => job'[i] = job[i]
    BY <2>1, OneJob, FreshJob DEF TypeOK
  <2>3. LooksAreLists' /\ Series'
    BY <1>1, <2>1, <2>2, EndedJob
  <2>4. GoesOn'
    BY <2>2 DEF GoesOn
  <2> QED BY <2>3, <2>4 DEF JobInv
<1>3. CASE ~IsEventOnSale(job[j].seen)
  <2>1. Set(j, Null) /\ excused' = IF job[j].seen.status # event.status THEN Missing ELSE excused
    BY <1>3 DEF FinishImport
  <2>2. job'[j] = Null /\ \A i \in Jobs : i # j => job'[i] = job[i]
    BY <2>1, OneJob DEF TypeOK
  <2>3. "twice" \in excused' <=> "twice" \in excused
    BY <2>1 DEF Missing
  <2>4. LooksAreLists' /\ Series'
    BY <1>1, <2>2, <2>3, EndedJob
  <2>5. GoesOn'
    BY <1>1, <1>3, <2>1 DEF GoesOn, IsEventOnSale, Missing
  <2> QED BY <2>4, <2>5 DEF JobInv
<1> QED BY <1>2, <1>3

LEMMA FailJobKeeps ==
    ASSUME TypeOK, JobInv, NEW j \in Jobs, FailJob(j)
    PROVE  JobInv'
<1>1. /\ job[j] \in Job /\ job[j] # Null /\ job[j].kind \in {"list", "import"}
      /\ key' = key /\ event' = event
  BY DEF FailJob, Running, TypeOK, Job
<1>2. CASE TriesLeft(j) /\ ~job[j].lapsed
  <2> DEFINE v == [NewJob(job[j].kind) EXCEPT !.tries = job[j].tries + 1]
  <2>1. Set(j, v) /\ excused' = excused
    BY <1>2 DEF FailJob
  <2>2. v # Null /\ v.kind = job[j].kind /\ v.found = Null /\ v.lapsed = FALSE
    <3>1. v.kind = job[j].kind /\ v.found = Null /\ v.lapsed = FALSE
      BY <1>1 DEF NewJob
    <3>2. job[j].tries + 1 \in 0 .. MaxTries - 1
      BY <1>1, <1>2, JobAssumption DEF TriesLeft, Job
    <3>3. NewJob(job[j].kind) \in Job
      BY <1>1, JobAssumption DEF NewJob, Job
    <3>4. v \in Job
      <4> HIDE DEF NewJob
      <4> QED BY <3>2, <3>3 DEF Job
    <3> QED BY <3>1, <3>4, RecordAssumption
  <2> HIDE DEF v
  <2>3. job'[j] = v /\ \A i \in Jobs : i # j => job'[i] = job[i]
    BY <2>1, OneJob DEF TypeOK
  <2>4. LooksAreLists' /\ Series'
    BY <1>1, <2>1, <2>2, <2>3, EndedJob
  <2>5. GoesOn'
    BY <1>1, <2>1, <2>2, <2>3, Booleans DEF JobInv, GoesOn
  <2> QED BY <2>4, <2>5 DEF JobInv
<1>3. CASE ~(TriesLeft(j) /\ ~job[j].lapsed)
  <2>1. Set(j, Null) /\ excused' = Missing
    BY <1>3 DEF FailJob
  <2>2. job'[j] = Null /\ \A i \in Jobs : i # j => job'[i] = job[i]
    BY <2>1, OneJob DEF TypeOK
  <2>3. ("twice" \in excused' <=> "twice" \in excused) /\ "missed" \in excused'
    BY <2>1 DEF Missing
  <2>4. LooksAreLists' /\ Series'
    BY <1>1, <2>2, <2>3, EndedJob
  <2> QED BY <2>3, <2>4 DEF JobInv, GoesOn
<1> QED BY <1>2, <1>3

LEMMA LapseKeeps ==
    ASSUME TypeOK, JobInv, NEW j \in Jobs, Lapse(j)
    PROVE  JobInv'
<1>1. job[j] \in Job /\ job[j] # Null /\ key' = key /\ event' = event
  BY DEF Lapse, TypeOK
<1>2. CASE Running(j)
  <2> DEFINE v == [job[j] EXCEPT !.lapsed = TRUE]
  <2>1. /\ Set(j, v)
        /\ excused' = IF job[j].kind = "import" THEN excused \cup {"twice"} ELSE excused
    BY <1>2 DEF Lapse
  <2>2. v # Null /\ v.kind = job[j].kind /\ v.found = job[j].found /\ v.seen = job[j].seen
    <3>1. v \in Job
      BY <1>1 DEF Job
    <3> QED BY <1>1, <3>1, RecordAssumption DEF Job
  <2> HIDE DEF v
  <2>3. job'[j] = v /\ \A i \in Jobs : i # j => job'[i] = job[i]
    BY <2>1, OneJob DEF TypeOK
  <2>4. LooksAreLists'
    BY <1>1, <2>2, <2>3 DEF JobInv, LooksAreLists, Checked
  <2>5. Imports' = Imports /\ Beginning' = Beginning
    BY <1>1, <2>2, <2>3 DEF Imports, Beginning
  <2>6. Series'
    <3>1. CASE job[j].kind = "import"
      BY <2>1, <3>1 DEF Series
    <3>2. CASE job[j].kind # "import"
      <4>1. \A i \in Imports : job'[i] = job[i]
        BY <2>3, <3>2 DEF Imports
      <4> QED BY <2>1, <2>5, <3>2, <4>1 DEF JobInv, Series
    <3> QED BY <3>1, <3>2
  <2>7. GoesOn'
    <3>1. "missed" \notin excused' => "missed" \notin excused
      BY <2>1
    <3> QED BY <1>1, <2>2, <2>3, <3>1 DEF JobInv, GoesOn
  <2> QED BY <2>4, <2>6, <2>7 DEF JobInv
<1>3. CASE ~Running(j)
  <2>1. Set(j, Null) /\ excused' = Missing
    BY <1>3 DEF Lapse
  <2>2. job'[j] = Null /\ \A i \in Jobs : i # j => job'[i] = job[i]
    BY <2>1, OneJob DEF TypeOK
  <2>3. ("twice" \in excused' <=> "twice" \in excused) /\ "missed" \in excused'
    BY <2>1 DEF Missing
  <2>4. LooksAreLists' /\ Series'
    BY <1>1, <2>2, <2>3, EndedJob
  <2> QED BY <2>3, <2>4 DEF JobInv, GoesOn
<1> QED BY <1>2, <1>3

LEMMA JobStepKeeps ==
    ASSUME TypeOK, JobInv, JobStep
    PROVE  JobInv'
BY StartJobKeeps, CheckListKeeps, FinishListKeeps, FinishImportKeeps, FailJobKeeps, LapseKeeps
   DEF JobStep

\* What the actions promise of the imports.
LEMMA ImportsDo ==
    ASSUME JobInv
    PROVE  ImportsGoOn
<1>1. OneImportSeries
  <2>1. SUFFICES ASSUME "twice" \notin excused
                 PROVE  Cardinality(Imports) <= 1
    BY DEF OneImportSeries, Imports
  <2>2. \A i, j \in Imports : i = j
    BY <2>1 DEF JobInv, Series
  <2>3. CASE Imports = {}
    BY <2>3, FS_EmptySet
  <2>4. CASE Imports # {}
    <3>1. PICK i \in Imports : TRUE
      BY <2>4
    <3>2. Imports = {i}
      BY <2>2
    <3>3. Cardinality({i}) = 1
      BY FS_Singleton
    <3> QED BY <3>2, <3>3
  <2> QED BY <2>3, <2>4
<1>2. ImportsContinue
  BY DEF JobInv, GoesOn, ImportsContinue
<1> QED BY <1>1, <1>2 DEF ImportsGoOn

-----------------------------------------------------------------------------
(* The event's row.                                                        *)

RowInv == SeenAsIs /\ PublishedHasDate

LEMMA RowKept ==
    ASSUME RowInv, Kept(EditKinds), event'.status = event.status, event'.date = event.date,
           "undated" \in excused' <=> "undated" \in excused
    PROVE  RowInv'
BY DEF RowInv, Kept, SeenAsIs, PublishedHasDate

LEMMA JobStepKeepsRow ==
    ASSUME TypeOK, RowInv, JobStep
    PROVE  RowInv'
<1>1. PICK j \in Jobs :
        \/ StartJob(j) \/ CheckList(j) \/ FinishList(j) \/ FinishImport(j) \/ FailJob(j) \/ Lapse(j)
  BY DEF JobStep
<1>2. Kept(EditKinds)
  BY JobTypes DEF Kept
<1>3. event \in EventRow
  BY DEF TypeOK
<1>4. event'.status = event.status /\ event'.date = event.date
  <2>1. CASE FinishList(j)
    BY <1>3, <2>1 DEF FinishList, EventRow
  <2> QED BY <1>1, <2>1 DEF StartJob, CheckList, FinishImport, FailJob, Lapse
<1>5. "undated" \in excused' <=> "undated" \in excused
  <2>1. "undated" \in Missing <=> "undated" \in excused
    BY DEF Missing
  <2> QED BY <1>1, <2>1 DEF StartJob, CheckList, FinishList, FinishImport, FailJob, Lapse
<1> QED BY <1>2, <1>4, <1>5, RowKept

\* A request begins with what it reads.
LEMMA ReadKeeps ==
    ASSUME TypeOK, RowInv, JobInv, NEW r \in Requests, NEW q \in Editing, Read(r, q), q.seen = event
    PROVE  RowInv' /\ JobInv'
<1>1. RequestsFormed
  BY TypedRequests
<1>2. /\ req'[r] = q /\ \A s \in Requests : s # r => req'[s] = req[s]
      /\ event' = event /\ excused' = excused /\ job' = job /\ key' = key
  BY <1>1 DEF Read, RequestsFormed, eventVars
<1>3. RowInv'
  BY <1>2 DEF RowInv, SeenAsIs, PublishedHasDate
<1>4. JobInv'
  BY <1>2 DEF JobInv, LooksAreLists, Checked, Series, Imports, Beginning, GoesOn
<1> QED BY <1>3, <1>4

LEMMA FinishEditKeepsRow ==
    ASSUME TypeOK, RowInv, NEW r \in Requests, FinishEdit(r)
    PROVE  RowInv'
<1> PICK q : q = req[r]
  OBVIOUS
<1>1. RequestsFormed /\ event \in EventRow
  BY TypedRequests DEF TypeOK
<1>2. q.kind \in EditKinds
  BY DEF FinishEdit, EditKinds
<1>3. q \in Editing /\ q.seen \in EventRow /\ q.clean \in BOOLEAN
  BY <1>1, <1>2, EditsAre
<1>4. /\ event' = Updated(q)
      /\ excused' = (IF ReliesOnOldDate(q) THEN excused \cup {"undated"} ELSE excused)
                        \ (IF event'.status = "Draft" THEN {"undated"} ELSE {})
      /\ req' = [s \in Requests |->
                    IF s = r THEN Done
                    ELSE IF "seen" \in DOMAIN req[s] THEN [req[s] EXCEPT !.clean = FALSE] ELSE req[s]]
  BY DEF FinishEdit
<1>5. SeenAsIs'
  <2>1. ASSUME NEW s \in Requests, req'[s].kind \in EditKinds
        PROVE  ~req'[s].clean
    <3>1. s # r
      BY <1>4, <2>1 DEF Done, EditKinds
    <3>2. "seen" \in DOMAIN req[s]
      <4>1. SUFFICES ASSUME "seen" \notin DOMAIN req[s]
                     PROVE  FALSE
        OBVIOUS
      <4>2. req'[s] = req[s] /\ Formed(req[s])
        BY <1>1, <1>4, <3>1, <4>1 DEF RequestsFormed
      <4> QED BY <2>1, <4>1, <4>2, WhoHasSeen
    <3>3. req[s].kind \in EditKinds
      BY <1>1, <3>2, WhoHasSeen DEF RequestsFormed
    <3>4. req[s] \in Editing
      BY <1>1, <3>3, EditsAre
    <3>5. [req[s] EXCEPT !.clean = FALSE].clean = FALSE
      BY <3>4, OvertakenEdit
    <3>6. req'[s] = [req[s] EXCEPT !.clean = FALSE]
      BY <1>4, <3>1, <3>2
    <3> QED BY <3>5, <3>6
  <2> QED BY <2>1 DEF SeenAsIs
<1>6. q.clean => q.seen.status = event.status /\ q.seen.date = event.date
  BY <1>2 DEF RowInv, SeenAsIs
<1>7. event'.status = "Published" /\ "undated" \notin excused' =>
        "undated" \notin excused /\ ~ReliesOnOldDate(q)
  BY <1>4
<1>8. ASSUME event'.status = "Published", "undated" \notin excused'
      PROVE  event'.date = TRUE
  <2>1. /\ event.status = "Published" => event.date = TRUE
        /\ ~ReliesOnOldDate(q)
    BY <1>1, <1>7, <1>8 DEF RowInv, PublishedHasDate, EventRow
  <2>2. event.date \in BOOLEAN /\ q.seen.date \in BOOLEAN /\ q.seen.status \in {"Draft", "Published"}
    BY <1>1, <1>3 DEF EventRow
  <2>3. CASE q.kind = "publish" /\ q.seen.status = "Published"
    BY <1>4, <1>8, <2>1, <2>3 DEF Updated
  <2>4. CASE q.kind = "publish" /\ q.seen.status # "Published"
    <3>1. event' = [event EXCEPT !.status = "Published", !.date = ~q.seen.date \/ @]
      BY <1>4, <2>4 DEF Updated
    <3>2. event'.date = (~q.seen.date \/ event.date)
      BY <1>1, <3>1 DEF EventRow
    <3>3. q.seen.date => q.clean
      BY <2>1, <2>2, <2>4 DEF ReliesOnOldDate
    <3>4. q.seen.date => event.date
      BY <1>6, <3>3
    <3> QED BY <2>2, <3>2, <3>4
  <2>5. CASE q.kind = "unpublish"
    BY <1>1, <1>4, <1>8, <2>5 DEF Updated, EventRow
  <2>6. CASE q.kind = "cancel"
    BY <1>1, <1>4, <1>8, <2>1, <2>6 DEF Updated, EventRow
  <2>7. CASE q.kind = "edit"
    <3>1. event' = [event EXCEPT !.date = Or(DateFor(q.seen, q.set.date), @),
                                 !.image = Or(q.set.image, @), !.venue = Or(q.set.venue, @)]
      BY <1>4, <2>7 DEF Updated
    <3>2. event'.status = event.status /\ event'.date = Or(DateFor(q.seen, q.set.date), event.date)
      BY <1>1, <3>1 DEF EventRow
    <3>3. event.date = TRUE
      BY <1>8, <2>1, <3>2
    <3>4. q.set.date \in BOOLEAN \cup {Null}
      BY <1>3, <2>7, ChangeAssumption DEF Editing
    <3>5. q.set.date = FALSE => q.seen.status = "Published"
      <4>1. SUFFICES ASSUME q.set.date = FALSE, q.seen.status = "Draft"
                     PROVE  FALSE
        BY <2>2
      <4>2. q.clean
        BY <1>3, <2>1, <2>7, <4>1 DEF ReliesOnOldDate
      <4> QED BY <1>6, <1>8, <3>2, <4>1, <4>2
    <3>6. DateFor(q.seen, q.set.date) \in {TRUE, Null}
      BY <3>4, <3>5 DEF DateFor
    <3> QED BY <3>2, <3>3, <3>6 DEF Or
  <2> QED BY <1>2, <2>3, <2>4, <2>5, <2>6, <2>7 DEF EditKinds
<1> QED BY <1>5, <1>8 DEF RowInv, PublishedHasDate

LEMMA FinishEditKeepsJobs ==
    ASSUME TypeOK, JobInv, NEW r \in Requests, FinishEdit(r)
    PROVE  JobInv'
<1> PICK q : q = req[r]
  OBVIOUS
<1>1. RequestsFormed /\ event \in EventRow /\ job \in [Jobs -> Job \cup {Null}]
  BY TypedRequests DEF TypeOK
<1>2. q \in Editing
  BY <1>1, EditsAre DEF FinishEdit, EditKinds
<1>3. event' = Updated(q) /\ event'.over = event.over /\ key' = key
  BY <1>1, <1>2, UpdatedRow DEF FinishEdit
<1>4. ("twice" \in excused' <=> "twice" \in excused) /\ ("missed" \in excused' <=> "missed" \in excused)
  BY DEF FinishEdit
<1>5. CASE q.kind = "publish"
  <2>1. PICK j \in Jobs : job[j] = Null /\ job' = [job EXCEPT ![j] = NewJob("list")]
    BY <1>1, <1>5, EnqueuedJobs DEF FinishEdit
  <2>2. /\ job'[j] # Null /\ job'[j].kind = "list" /\ job'[j].found = Null
        /\ \A i \in Jobs : i # j => job'[i] = job[i]
    BY <1>1, <2>1, FreshJob
  <2>3. LooksAreLists'
    BY <2>2 DEF JobInv, LooksAreLists, Checked
  <2>4. Imports' = Imports /\ Beginning' = Beginning /\ \A i \in Imports : job'[i] = job[i]
    BY <2>1, <2>2, Booleans DEF Imports, Beginning
  <2>5. Series'
    BY <1>4, <2>4 DEF JobInv, Series
  <2>6. GoesOn'
    BY <2>2, Booleans DEF GoesOn
  <2> QED BY <2>3, <2>5, <2>6 DEF JobInv
<1>6. CASE q.kind # "publish"
  <2>1. job' = job
    BY <1>6 DEF FinishEdit
  <2>2. event'.status = "Published" => event.status = "Published"
    BY <1>1, <1>2, <1>3, <1>6 DEF Updated, Editing, EventRow
  <2>3. LooksAreLists' /\ Series'
    BY <1>4, <2>1 DEF JobInv, LooksAreLists, Checked, Series, Imports, Beginning
  <2>4. GoesOn'
    BY <1>3, <1>4, <2>1, <2>2 DEF JobInv, GoesOn
  <2> QED BY <2>3, <2>4 DEF JobInv
<1> QED BY <1>5, <1>6

LEMMA EventStepKeeps ==
    ASSUME TypeOK, RowInv, JobInv, EventStep
    PROVE  RowInv' /\ JobInv'
<1>1. CASE EventEnds
  <2>1. /\ event'.status = event.status /\ event'.date = event.date /\ event'.over = TRUE
        /\ excused' = excused /\ job' = job /\ key' = key /\ req' = req
    BY <1>1 DEF EventEnds, TypeOK, EventRow
  <2>2. RowInv'
    BY <2>1 DEF RowInv, SeenAsIs, PublishedHasDate
  <2>3. JobInv'
    BY <2>1 DEF JobInv, LooksAreLists, Checked, Series, Imports, Beginning, GoesOn
  <2> QED BY <2>2, <2>3
<1>2. ASSUME NEW r \in Requests,
             \/ StartPublish(r) \/ StartUnpublish(r) \/ StartCancel(r)
             \/ \E set \in EventChanges : StartEdit(r, set)
      PROVE  RowInv' /\ JobInv'
  <2>1. PICK q \in Editing : Read(r, q) /\ q.seen = event
    BY <1>2, Beginnings
  <2> QED BY <2>1, ReadKeeps
<1> QED BY <1>1, <1>2, FinishEditKeepsRow, FinishEditKeepsJobs DEF EventStep

-----------------------------------------------------------------------------
(* Prices.                                                                 *)

LEMMA PricedAre ==
    ASSUME RequestsFormed, NEW r \in BeingPriced
    PROVE  /\ r \in Requests /\ req[r].kind = "priced" /\ Priced(req[r])
           /\ req[r].type \in Types /\ req[r].row \in Periods /\ Writable(req[r].rows)
<1>1. r \in Requests /\ req[r].kind = "priced"
  BY DEF BeingPriced
<1>2. Priced(req[r])
  BY <1>1, Kinds DEF RequestsFormed
<1> QED BY <1>1, <1>2 DEF Priced, Writable

\* Where requests about prices are kept as they are, so is what is said of them.
LEMMA PricesKept ==
    ASSUME PricingInv, Kept({"update", "priced"}), UNCHANGED pricingVars
    PROVE  PricingInv'
<1>1. type' = type /\ pricing' = pricing /\ used' = used /\ cache' = cache
  BY DEF pricingVars
<1>2. \A s \in Requests : req'[s].kind \in {"update", "priced"} => req'[s] = req[s]
  BY DEF Kept
<1>3. BeingPriced' \subseteq BeingPriced /\ \A s \in BeingPriced' : req'[s] = req[s]
  BY <1>2 DEF BeingPriced
<1>4. UsedExist' /\ PricesFit' /\ CacheIsTrue'
  BY <1>1 DEF PricingInv, UsedExist, PricesFit, CacheIsTrue
<1>5. Apart'
  BY <1>3 DEF PricingInv, Apart
<1>6. KnownType'
  BY <1>1, <1>2 DEF PricingInv, KnownType
<1>7. ASSUME NEW s \in BeingPriced'
      PROVE  OwnRows(s)' /\ Respects(s)' /\ WillFit(s)' /\ CacheSeen(s)'
  <2>1. OwnRows(s) /\ Respects(s) /\ WillFit(s) /\ CacheSeen(s) /\ req'[s] = req[s]
    BY <1>3 DEF PricingInv
  <2>2. OwnRows(s)' /\ Respects(s)'
    BY <1>1, <2>1 DEF OwnRows, Respects
  <2>3. WillFit(s)'
    BY <1>1, <2>1 DEF WillFit
  <2>4. CacheSeen(s)'
    BY <1>1, <2>1 DEF CacheSeen
  <2> QED BY <2>2, <2>3, <2>4
<1> QED BY <1>4, <1>5, <1>6, <1>7 DEF PricingInv

\* A cart refers to prices that are there, and to none that is being deleted.
LEMMA CartKeeps ==
    ASSUME TypeOK, PricingInv, CartStep
    PROVE  PricingInv'
<1>1. UNCHANGED <<req, type, pricing, cache>> /\ PricingTypeOK
  BY CartTypes DEF TypeOK
<1>2. PICK p \in Rows : /\ \A x \in Rows : x # p => used'[x] = used[x]
                        /\ used'[p] # "no" => pricing[p] # Null
                        /\ used'[p] = "ordered" => used[p] = "ordered" \/ p \notin Deleting
  <2>1. PICK p \in Rows :
            \/ Order(p) \/ Drop(p)
            \/ \E t \in Types : \E time \in 0 .. (IF type[t] = Null THEN 0 ELSE type[t].to) : Quote(t, time, p)
    BY DEF CartStep
  <2>2. CASE Order(p) \/ Drop(p)
    BY <1>1, <2>2 DEF Order, Drop, PricingTypeOK
  <2>3. ASSUME NEW t \in Types, NEW time, Quote(t, time, p)
        PROVE  (\A x \in Rows : x # p => used'[x] = used[x]) /\ used'[p] = "read" /\ pricing[p] # Null
    <3>1. p \in OnlinePrices(t, time) \cup BoxOfficePrices(t, time)
      BY <2>3 DEF Quote
    <3>2. p \in Existing(pricing)
      BY <3>1 DEF OnlinePrices, BoxOfficePrices, Candidates, InForce, OfType
    <3> QED BY <1>1, <2>3, <3>2 DEF Quote, Existing, PricingTypeOK
  <2> QED BY <2>1, <2>2, <2>3
<1>3. BeingPriced' = BeingPriced
  BY <1>1 DEF BeingPriced
<1>4. UsedExist'
  BY <1>1, <1>2 DEF PricingInv, UsedExist
<1>5. PricesFit' /\ CacheIsTrue' /\ Apart' /\ KnownType'
  <2>1. PricesFit'
    BY <1>1 DEF PricingInv, PricesFit
  <2>2. CacheIsTrue'
    BY <1>1 DEF PricingInv, CacheIsTrue
  <2>3. Apart' /\ KnownType'
    BY <1>1, <1>3 DEF PricingInv, Apart, KnownType
  <2> QED BY <2>1, <2>2, <2>3
<1>6. ASSUME NEW s \in BeingPriced
      PROVE  OwnRows(s)' /\ Respects(s)' /\ WillFit(s)' /\ CacheSeen(s)'
  <2>1. OwnRows(s) /\ Respects(s) /\ WillFit(s) /\ CacheSeen(s) /\ req'[s] = req[s]
    BY <1>1 DEF PricingInv
  <2>2. OwnRows(s)'
    BY <1>1, <2>1 DEF OwnRows
  <2>3. Writable(req[s].rows)
    BY TypedRequests, PricedAre
  <2>4. Respects(s)'
    <3>1. p \notin Deleting /\ p \in DOMAIN req[s].rows => req[s].rows[p] # Null
      BY DEF Deleting
    <3> QED BY <1>1, <1>2, <2>1, <2>3, <3>1 DEF Respects, Writable
  <2>5. WillFit(s)'
    BY <1>1, <2>1 DEF WillFit
  <2>6. CacheSeen(s)'
    BY <1>1, <2>1 DEF CacheSeen
  <2> QED BY <2>2, <2>4, <2>5, <2>6
<1> QED BY <1>3, <1>4, <1>5, <1>6 DEF PricingInv

\* A request that has worked on prices of a type, which no other works on.
LEMMA NewWriter ==
    ASSUME TypeOK, PricingInv, NEW r \in Requests, r \notin BeingPriced,
           NEW t \in Types, NEW period \in Periods, NEW rows, Writable(rows),
           NEW w, IsWritten(w, t, period, rows),
           req' = [req EXCEPT ![r] = w], UNCHANGED pricingVars,
           \A s \in BeingPriced : req[s].type # t /\ DOMAIN rows \cap DOMAIN req[s].rows = {},
           \A p \in DOMAIN rows :
                /\ pricing[p] # Null => pricing[p].type = t
                /\ rows[p] # Null => rows[p].type = t
                /\ pricing[p] = Null => rows[p] # Null
                /\ used[p] = "ordered" => rows[p] # Null
                /\ pricing[p] # Null /\ rows[p] # Null /\ pricing[p].status # "Published" =>
                        rows[p].price = pricing[p].price,
           Fits(Over(rows, pricing), t, period)
    PROVE  PricingInv'
<1>1. type' = type /\ pricing' = pricing /\ used' = used /\ cache' = cache
  BY DEF pricingVars
<1>2. RequestsFormed
  BY TypedRequests
<1>3. req'[r] = w /\ \A s \in Requests : s # r => req'[s] = req[s]
  BY <1>2 DEF RequestsFormed
<1>4. /\ w.kind = "priced" /\ w.type = t /\ w.row = period /\ w.rows = rows
      /\ w.min = CachedMin(Over(rows, pricing)) /\ w.max = CachedMax(Over(rows, pricing))
  BY DEF IsWritten
<1>5. BeingPriced' = BeingPriced \cup {r} /\ \A s \in BeingPriced : s # r /\ s \in Requests
  BY <1>3, <1>4 DEF BeingPriced
<1>6. UsedExist' /\ PricesFit' /\ CacheIsTrue'
  BY <1>1 DEF PricingInv, UsedExist, PricesFit, CacheIsTrue
<1>7. Apart'
  <2>1. SUFFICES ASSUME NEW a \in BeingPriced', NEW b \in BeingPriced', a # b
                 PROVE  req'[a].type # req'[b].type /\ DOMAIN req'[a].rows \cap DOMAIN req'[b].rows = {}
    BY DEF Apart
  <2>2. CASE a = r
    BY <1>3, <1>4, <1>5, <2>1, <2>2
  <2>3. CASE b = r
    BY <1>3, <1>4, <1>5, <2>1, <2>3
  <2>4. CASE a # r /\ b # r
    BY <1>3, <1>5, <2>1, <2>4 DEF PricingInv, Apart
  <2> QED BY <2>2, <2>3, <2>4
<1>8. KnownType'
  BY <1>1, <1>3, <1>4 DEF PricingInv, KnownType
<1>9. OwnRows(r)' /\ Respects(r)'
  BY <1>1, <1>3, <1>4 DEF OwnRows, Respects
<1>10. WillFit(r)'
  BY <1>1, <1>3, <1>4 DEF WillFit
<1>11. CacheSeen(r)'
  BY <1>1, <1>3, <1>4 DEF CacheSeen
<1>12. ASSUME NEW s \in BeingPriced
       PROVE  OwnRows(s)' /\ Respects(s)' /\ WillFit(s)' /\ CacheSeen(s)'
  <2>1. OwnRows(s) /\ Respects(s) /\ WillFit(s) /\ CacheSeen(s) /\ req'[s] = req[s]
    BY <1>3, <1>5 DEF PricingInv
  <2>2. OwnRows(s)' /\ Respects(s)'
    BY <1>1, <2>1 DEF OwnRows, Respects
  <2>3. WillFit(s)'
    BY <1>1, <2>1 DEF WillFit
  <2>4. CacheSeen(s)'
    BY <1>1, <2>1 DEF CacheSeen
  <2> QED BY <2>2, <2>3, <2>4
<1> QED BY <1>5, <1>6, <1>7, <1>8, <1>9, <1>10, <1>11, <1>12 DEF PricingInv

LEMMA CreateTypeKeeps ==
    ASSUME TypeOK, PricingInv, NEW r \in Requests, NEW t \in Types, NEW period \in NewPeriods,
           NEW offer \in Offers \cup {Null}, CreateType(r, t, period, offer)
    PROVE  PricingInv'
<1> DEFINE A == IF offer = Null THEN << >>
                ELSE [p \in {NewRow(2)} |-> PricingRowOf(t, "Published", offer)]
           rows == Over([p \in {NewRow(1)} |-> DefaultOf(t, period)], A)
           new == IF offer = Null THEN {} ELSE {NewRow(2)}
<1>1. PricingTypeOK /\ period \in Periods /\ RequestsFormed
  BY OfferAssumption, TypedRequests DEF TypeOK
<1>2. /\ Cardinality(Unused) >= 2
      /\ req' = [req EXCEPT ![r] = Written(t, TRUE, period, rows)]
      /\ UNCHANGED pricingVars
      /\ req[r].kind = "idle" /\ type[t] = Null /\ \A q \in BeingPriced : req[q].type # t
  BY DEF CreateType, Idle
<1>3. /\ Writable(rows)
      /\ DOMAIN rows = {NewRow(1)} \cup new
      /\ rows[NewRow(1)] = DefaultOf(t, period)
      /\ \A p \in new : rows[p] = PricingRowOf(t, "Published", offer)
  <2>1. /\ PricingTypeOK /\ Cardinality(Unused) >= 2 /\ t \in Types /\ period \in Periods
        /\ offer \in Offers \cup {Null}
    BY <1>1, <1>2
  <2> QED BY ONLY <2>1, CreatedRows
<1>4. /\ NewRow(1) \in Unused /\ NewRow(2) \in Unused /\ NewRow(1) # NewRow(2)
      /\ \A p \in new : p = NewRow(2) /\ offer # Null
  BY <1>2, NewRows
<1> HIDE DEF rows, new, A
<1>5. IsWritten(Written(t, TRUE, period, rows), t, period, rows)
  <2>1. PricingTypeOK /\ t \in Types /\ period \in Periods /\ Writable(rows)
    BY <1>1, <1>3
  <2> QED BY ONLY <2>1, WrittenIsPriced
<1>6. /\ DefaultOf(t, period).type = t /\ DefaultOf(t, period).status = "Default"
      /\ DefaultOf(t, period).from = period.from /\ DefaultOf(t, period).to = period.to
      /\ PricingRowOf(t, "Published", offer).type = t
      /\ PricingRowOf(t, "Published", offer).status = "Published"
  BY DEF DefaultOf, PricingRowOf
<1>7. DefaultOf(t, period) # Null /\ (offer # Null => PricingRowOf(t, "Published", offer) # Null)
  BY <1>1, RowsOfOffers, RowAssumption, OfferAssumption
<1> HIDE DEF DefaultOf, PricingRowOf
<1>8. \A p \in DOMAIN rows : p \in Rows /\ pricing[p] = Null /\ \A s \in BeingPriced : p \notin DOMAIN req[s].rows
  BY <1>3, <1>4 DEF Unused
<1>9. \A p \in DOMAIN rows : rows[p] # Null /\ rows[p].type = t
  BY <1>3, <1>4, <1>6, <1>7
<1>10. \A p \in DOMAIN rows : used[p] = "no"
  BY <1>1, <1>8 DEF PricingInv, UsedExist, PricingTypeOK
<1>11. Fits(Over(rows, pricing), t, period)
  <2> PICK after : after = Over(rows, pricing)
    OBVIOUS
  <2>1. DOMAIN after = Rows /\ \A p \in Rows : after[p] = IF p \in DOMAIN rows THEN rows[p] ELSE pricing[p]
    BY <1>1, <1>3 DEF Over, Writable, PricingTypeOK
  <2>2. \A p \in Rows : pricing[p] # Null => pricing[p].type # t
    BY <1>1, <1>2 DEF PricingInv, PricesFit, Existing, PricingTypeOK
  <2>3. \A p \in Rows : after[p] # Null /\ after[p].type = t => p \in DOMAIN rows
    BY <2>1, <2>2
  <2>4. \A p \in OfType(after, t, "Published") : p = NewRow(2)
    BY <1>3, <1>4, <1>6, <2>1, <2>3 DEF OfType, Existing
  <2>5. \A p \in OfType(after, t, "Default") : p = NewRow(1)
    BY <1>3, <1>4, <1>6, <2>1, <2>3 DEF OfType, Existing
  <2>6. after[NewRow(1)] = DefaultOf(t, period) /\ NewRow(1) \in Rows
    BY <1>3, <1>8, <2>1
  <2>7. NewRow(1) \in OfType(after, t, "Default")
    BY <1>6, <1>7, <2>1, <2>6 DEF OfType, Existing
  <2>8. \A p, q \in OfType(after, t, "Published") : p = q
    BY <2>4
  <2>9. after[NewRow(1)].from = period.from /\ after[NewRow(1)].to = period.to
    BY <1>6, <2>6
  <2>10. Fits(after, t, period)
    BY <2>5, <2>7, <2>8, <2>9 DEF Fits
  <2> QED BY <2>10
<1>12. r \notin BeingPriced
  BY <1>2 DEF BeingPriced
<1>13. \A s \in BeingPriced : req[s].type # t /\ DOMAIN rows \cap DOMAIN req[s].rows = {}
  BY <1>2, <1>8
<1>14. \A p \in DOMAIN rows :
          /\ pricing[p] # Null => pricing[p].type = t
          /\ rows[p] # Null => rows[p].type = t
          /\ pricing[p] = Null => rows[p] # Null
          /\ used[p] = "ordered" => rows[p] # Null
          /\ pricing[p] # Null /\ rows[p] # Null /\ pricing[p].status # "Published" =>
                rows[p].price = pricing[p].price
  BY <1>8, <1>9, <1>10
<1> PICK w : w = Written(t, TRUE, period, rows)
  OBVIOUS
<1>15. /\ IsWritten(w, t, period, rows) /\ req' = [req EXCEPT ![r] = w] /\ UNCHANGED pricingVars
       /\ TypeOK /\ PricingInv /\ r \in Requests /\ t \in Types /\ period \in Periods /\ Writable(rows)
  BY <1>1, <1>2, <1>3, <1>5
<1> QED BY ONLY <1>11, <1>12, <1>13, <1>14, <1>15, NewWriter

\* What an update writes, row by row.
LEMMA RowByRow ==
    ASSUME PricingTypeOK, Cardinality(Unused) >= 2, NEW t \in Types, NEW period \in Periods,
           NEW list, list # Null => PriceList(list) /\ DOMAIN list.named \subseteq Nameable(t)
    PROVE  LET rows == UpdatedRows(t, period, list) IN
           /\ Writable(rows)
           /\ NewRow(1) \in DOMAIN rows /\ rows[NewRow(1)] = DefaultOf(t, period)
           /\ OfType(pricing, t, "Default") \subseteq DOMAIN rows
           /\ \A p \in DOMAIN rows : p # NewRow(1) =>
                \/ p \in OfType(pricing, t, "Default") /\ rows[p] = Destroyed(p)
                \/ list # Null /\ p \in Nameable(t) /\ rows[p] = Destroyed(p)
                \/ /\ list # Null /\ p \in Nameable(t) \cup Unused
                   /\ \E offer \in OfferRows : rows[p] = PricingRowOf(t, "Published", offer)
<1> DEFINE rows == UpdatedRows(t, period, list)
           new == IF list = Null THEN {} ELSE IF list.added = Null THEN {} ELSE {NewRow(2)}
           named == IF list = Null THEN {} ELSE Nameable(t)
<1>1. /\ Writable(rows)
      /\ DOMAIN rows = OfType(pricing, t, "Default") \cup {NewRow(1)} \cup named \cup new
      /\ rows[NewRow(1)] = DefaultOf(t, period)
      /\ \A p \in OfType(pricing, t, "Default") : rows[p] = Destroyed(p)
      /\ \A p \in named :
            IF p \in DOMAIN list.named
            THEN rows[p] = PricingRowOf(t, "Published", list.named[p])
            ELSE rows[p] = Destroyed(p)
      /\ \A p \in new : rows[p] = PricingRowOf(t, "Published", list.added)
  BY RowsOfUpdate
<1>2. /\ \A p \in new : list # Null /\ p = NewRow(2) /\ list.added # Null
      /\ \A p \in named : list # Null /\ p \in Nameable(t)
  OBVIOUS
<1>3. list # Null =>
        /\ \A p \in DOMAIN list.named : list.named[p] \in OfferRows
        /\ list.added # Null => list.added \in OfferRows
  BY OfferAssumption DEF PriceList
<1>4. NewRow(2) \in Unused
  BY NewRows
<1> HIDE DEF rows, new, named
<1>5. ASSUME NEW p \in DOMAIN rows, p # NewRow(1)
      PROVE  \/ p \in OfType(pricing, t, "Default") /\ rows[p] = Destroyed(p)
             \/ list # Null /\ p \in Nameable(t) /\ rows[p] = Destroyed(p)
             \/ /\ list # Null /\ p \in Nameable(t) \cup Unused
                /\ \E offer \in OfferRows : rows[p] = PricingRowOf(t, "Published", offer)
  <2>1. CASE p \in OfType(pricing, t, "Default")
    BY <1>1, <2>1
  <2>2. CASE p \in named
    BY <1>1, <1>2, <1>3, <2>2
  <2>3. CASE p \in new
    BY <1>1, <1>2, <1>3, <1>4, <2>3
  <2> QED BY <1>1, <1>5, <2>1, <2>2, <2>3
<1> QED BY <1>1, <1>5 DEF rows

\* Prices that are valid do not meet.
LEMMA ValidApart ==
    ASSUME NEW rows, NEW t, NEW period, ValidPrices(rows, t, period)
    PROVE  \A p, q \in OfType(rows, t, "Published") :
              p # q /\ ~rows[p].box /\ ~rows[q].box => ~Overlaps(rows[p], rows[q])
<1> PICK here : here = OfType(rows, t, "Published")
  OBVIOUS
<1>1. \A p \in here :
        ~rows[p].box => \A q \in here \ {p} : ~rows[q].box => ~Overlaps(rows[p], rows[q])
  BY DEF ValidPrices
<1>2. ASSUME NEW p \in here, NEW q \in here, p # q, ~rows[p].box, ~rows[q].box
      PROVE  ~Overlaps(rows[p], rows[q])
  BY ONLY <1>1, <1>2
<1> QED BY <1>2

LEMMA WriteTypeKeeps ==
    ASSUME TypeOK, PricingInv, NEW r \in Requests, WriteType(r)
    PROVE  PricingInv'
<1> PICK t : t = req[r].type
  OBVIOUS
<1> PICK period : period = Merged(type[t], req[r].set)
  OBVIOUS
<1> PICK list : list = req[r].list
  OBVIOUS
<1> PICK rows : rows = UpdatedRows(t, period, list)
  OBVIOUS
<1>1. PricingTypeOK /\ RequestsFormed
  BY TypedRequests DEF TypeOK
<1>2. type[t] # Null
  BY DEF PricingInv, KnownType, WriteType
<1>3. /\ t \in Types /\ req[r].own \in BOOLEAN /\ period \in Periods /\ Writable(rows)
      /\ req[r].kind = "update" /\ ~Locked(t)
      /\ Cardinality(Unused) >= 2
      /\ list # Null =>
            /\ PriceList(list)
            /\ DOMAIN list.named \subseteq Nameable(t)
            /\ ValidPrices(Over(rows, pricing), t, period)
      /\ req' = [req EXCEPT ![r] = Written(t, req[r].own, period, rows)]
      /\ UNCHANGED pricingVars
  BY <1>2, WriteTypeGives
<1>4. /\ NewRow(1) \in DOMAIN rows /\ rows[NewRow(1)] = DefaultOf(t, period)
      /\ OfType(pricing, t, "Default") \subseteq DOMAIN rows
      /\ \A p \in DOMAIN rows : p # NewRow(1) =>
            \/ p \in OfType(pricing, t, "Default") /\ rows[p] = Destroyed(p)
            \/ list # Null /\ p \in Nameable(t) /\ rows[p] = Destroyed(p)
            \/ /\ list # Null /\ p \in Nameable(t) \cup Unused
               /\ \E offer \in OfferRows : rows[p] = PricingRowOf(t, "Published", offer)
  BY <1>1, <1>3, RowByRow
<1>5. NewRow(1) \in Unused
  BY <1>3, NewRows
<1>6. /\ DefaultOf(t, period) # Null
      /\ DefaultOf(t, period).type = t /\ DefaultOf(t, period).status = "Default"
      /\ DefaultOf(t, period).from = period.from /\ DefaultOf(t, period).to = period.to
  BY <1>3, RowsOfOffers, RowAssumption DEF DefaultOf
<1>7. \A offer \in OfferRows :
        /\ PricingRowOf(t, "Published", offer) # Null
        /\ PricingRowOf(t, "Published", offer).type = t
        /\ PricingRowOf(t, "Published", offer).status = "Published"
  BY <1>3, RowsOfOffers, RowAssumption DEF PricingRowOf
<1> HIDE DEF DefaultOf, PricingRowOf
<1>8. \A p \in Unused : p \in Rows /\ pricing[p] = Null /\ used[p] # "ordered"
                        /\ \A s \in BeingPriced : p \notin DOMAIN req[s].rows
  BY DEF Unused, PricingInv, UsedExist
<1>9. \A p \in Nameable(t) \cup OfType(pricing, t, "Default") :
        p \in Rows /\ pricing[p] # Null /\ pricing[p].type = t
  BY <1>1 DEF Nameable, OfType, Existing, PricingTypeOK
<1>10. \A p \in Rows : pricing[p] # Null =>
          /\ Destroyed(p) # Null =>
                /\ Destroyed(p).type = pricing[p].type /\ Destroyed(p).status = "Deleted"
                /\ Destroyed(p).price = pricing[p].price
          /\ used[p] = "ordered" => Destroyed(p) # Null
  BY <1>1, WhatDestroyedLeaves
<1>11. ASSUME NEW p \in DOMAIN rows
       PROVE  /\ pricing[p] # Null => pricing[p].type = t
              /\ rows[p] # Null => rows[p].type = t
              /\ pricing[p] = Null => rows[p] # Null
              /\ used[p] = "ordered" => rows[p] # Null
              /\ pricing[p] # Null /\ rows[p] # Null /\ pricing[p].status # "Published" =>
                    rows[p].price = pricing[p].price
  <2>1. CASE p = NewRow(1)
    BY <1>4, <1>5, <1>6, <1>8, <2>1
  <2>2. CASE p \in Nameable(t) \cup OfType(pricing, t, "Default") /\ rows[p] = Destroyed(p)
    BY <1>9, <1>10, <2>2
  <2>3. CASE /\ p \in Nameable(t) \cup Unused
             /\ \E offer \in OfferRows : rows[p] = PricingRowOf(t, "Published", offer)
    <3>1. rows[p] # Null /\ rows[p].type = t
      BY <1>7, <2>3
    <3>2. p \in Nameable(t) => pricing[p].status = "Published"
      BY DEF Nameable, OfType
    <3> QED BY <1>8, <1>9, <2>3, <3>1, <3>2
  <2> QED BY <1>4, <2>1, <2>2, <2>3
<1>12. \A s \in BeingPriced : req[s].type # t
  BY <1>3 DEF Locked
<1>13. ASSUME NEW s \in BeingPriced, NEW p \in DOMAIN rows
       PROVE  p \notin DOMAIN req[s].rows
  <2>1. OwnRows(s)
    BY DEF PricingInv
  <2>2. pricing[p] # Null /\ p \in DOMAIN req[s].rows => pricing[p].type = req[s].type
    BY <2>1 DEF OwnRows
  <2>3. pricing[p] # Null => p \notin DOMAIN req[s].rows
    BY <1>11, <1>12, <2>2
  <2>4. pricing[p] = Null => p \in Unused
    BY <1>4, <1>5, <1>9
  <2> QED BY <1>8, <2>3, <2>4
<1>14. Fits(Over(rows, pricing), t, period)
  <2> PICK after : after = Over(rows, pricing)
    OBVIOUS
  <2>1. DOMAIN after = Rows /\ \A p \in Rows : after[p] = IF p \in DOMAIN rows THEN rows[p] ELSE pricing[p]
    BY <1>1, <1>3 DEF Over, Writable, PricingTypeOK
  <2>2. Fits(pricing, t, type[t])
    BY <1>2, <1>3 DEF PricingInv, PricesFit
  <2>3. \A p, q \in OfType(after, t, "Published") :
            p # q /\ ~after[p].box /\ ~after[q].box => ~Overlaps(after[p], after[q])
    <3>1. CASE list = Null
      <4>1. ASSUME NEW p \in OfType(after, t, "Published")
            PROVE  p \in OfType(pricing, t, "Published") /\ after[p] = pricing[p]
        <5>1. p \in Rows /\ after[p] # Null /\ after[p].type = t /\ after[p].status = "Published"
          BY <2>1 DEF OfType, Existing
        <5>2. p \notin DOMAIN rows
          <6>1. SUFFICES ASSUME p \in DOMAIN rows
                         PROVE  FALSE
            OBVIOUS
          <6>2. after[p] = rows[p]
            BY <2>1, <5>1, <6>1
          <6>3. p # NewRow(1)
            BY ONLY <1>4, <1>6, <5>1, <6>2
          <6>4. p \in OfType(pricing, t, "Default") /\ rows[p] = Destroyed(p)
            BY <1>4, <3>1, <6>1, <6>3
          <6> QED BY <1>9, <1>10, <5>1, <6>2, <6>4
        <5>3. after[p] = pricing[p]
          BY <2>1, <5>1, <5>2
        <5> QED BY <1>1, <5>1, <5>3 DEF OfType, Existing, PricingTypeOK
      <4> QED BY <2>2, <4>1 DEF Fits
    <3>2. CASE list # Null
      <4>1. ValidPrices(after, t, period)
        BY <1>3, <3>2
      <4> QED BY ONLY <4>1, ValidApart
    <3> QED BY <3>1, <3>2
  <2>4. ASSUME NEW p \in OfType(after, t, "Default")
        PROVE  p = NewRow(1)
    <3>1. p \in Rows /\ after[p] # Null /\ after[p].type = t /\ after[p].status = "Default"
      BY <2>1 DEF OfType, Existing
    <3>2. CASE p \in DOMAIN rows
      <4>1. SUFFICES ASSUME p # NewRow(1)
                     PROVE  FALSE
        OBVIOUS
      <4>2. after[p] = rows[p]
        BY <2>1, <3>1, <3>2
      <4>3. rows[p] = Destroyed(p) => p \in Rows /\ pricing[p] # Null
        BY <1>4, <1>7, <1>9, <3>1, <3>2, <4>1, <4>2
      <4>4. rows[p] # Destroyed(p)
        BY <1>10, <3>1, <4>2, <4>3
      <4>5. PICK offer \in OfferRows : rows[p] = PricingRowOf(t, "Published", offer)
        BY ONLY <1>4, <3>2, <4>1, <4>4
      <4> QED BY ONLY <1>7, <3>1, <4>2, <4>5
    <3>3. CASE p \notin DOMAIN rows
      <4>1. after[p] = pricing[p]
        BY <2>1, <3>1, <3>3
      <4>2. p \in OfType(pricing, t, "Default")
        BY <1>1, <3>1, <4>1 DEF OfType, Existing, PricingTypeOK
      <4> QED BY <1>4, <3>3, <4>2
    <3> QED BY <3>2, <3>3
  <2>5. NewRow(1) \in Rows /\ after[NewRow(1)] = DefaultOf(t, period)
    BY <1>4, <1>5, <1>8, <2>1
  <2>6. NewRow(1) \in OfType(after, t, "Default")
    BY <1>6, <2>1, <2>5 DEF OfType, Existing
  <2>7. after[NewRow(1)].from = period.from /\ after[NewRow(1)].to = period.to
    BY <1>6, <2>5
  <2>8. Fits(after, t, period)
    <3> HIDE DEF OfType, Overlaps
    <3> QED BY <2>3, <2>4, <2>6, <2>7 DEF Fits
  <2> QED BY <2>8
<1>15. IsWritten(Written(t, req[r].own, period, rows), t, period, rows)
  <2>1. PricingTypeOK /\ t \in Types /\ req[r].own \in BOOLEAN /\ period \in Periods /\ Writable(rows)
    BY <1>1, <1>3
  <2> QED BY ONLY <2>1, WrittenIsPriced
<1>16. r \notin BeingPriced
  BY <1>3 DEF BeingPriced
<1>17. \A s \in BeingPriced : req[s].type # t /\ DOMAIN rows \cap DOMAIN req[s].rows = {}
  BY <1>12, <1>13
<1> PICK w : w = Written(t, req[r].own, period, rows)
  OBVIOUS
<1>18. /\ IsWritten(w, t, period, rows) /\ req' = [req EXCEPT ![r] = w] /\ UNCHANGED pricingVars
       /\ TypeOK /\ PricingInv /\ r \in Requests /\ t \in Types /\ period \in Periods /\ Writable(rows)
  BY <1>1, <1>3, <1>15
<1> QED BY ONLY <1>11, <1>14, <1>16, <1>17, <1>18, NewWriter

LEMMA StartTypeKeeps ==
    ASSUME TypeOK, PricingInv, NEW r \in Requests, NEW t \in Types, NEW own \in BOOLEAN,
           NEW set \in TypeChanges, NEW list \in ListsFor(t, own), StartType(r, t, own, set, list)
    PROVE  PricingInv'
<1> PICK q : q = [kind |-> "update", type |-> t, own |-> own, set |-> set, list |-> list]
  OBVIOUS
<1>1. q.kind = "update" /\ q.type = t
  OBVIOUS
<1>2. /\ req' = [req EXCEPT ![r] = q] /\ type[t] # Null /\ req[r].kind = "idle"
      /\ type' = type /\ pricing' = pricing /\ used' = used /\ cache' = cache
  BY DEF StartType, pricingVars, Idle
<1>3. req'[r] = q /\ \A s \in Requests : s # r => req'[s] = req[s]
  BY <1>2, TypedRequests DEF RequestsFormed
<1>4. BeingPriced' = BeingPriced /\ \A s \in BeingPriced : req'[s] = req[s]
  BY <1>1, <1>2, <1>3 DEF BeingPriced
<1>5. UsedExist' /\ PricesFit' /\ CacheIsTrue'
  BY <1>2 DEF PricingInv, UsedExist, PricesFit, CacheIsTrue
<1>6. Apart'
  BY <1>4 DEF PricingInv, Apart
<1>7. KnownType'
  BY <1>1, <1>2, <1>3 DEF PricingInv, KnownType
<1>8. ASSUME NEW s \in BeingPriced
      PROVE  OwnRows(s)' /\ Respects(s)' /\ WillFit(s)' /\ CacheSeen(s)'
  <2>1. OwnRows(s) /\ Respects(s) /\ WillFit(s) /\ CacheSeen(s) /\ req'[s] = req[s]
    BY <1>4 DEF PricingInv
  <2>2. OwnRows(s)' /\ Respects(s)'
    BY <1>2, <2>1 DEF OwnRows, Respects
  <2>3. WillFit(s)'
    BY <1>2, <2>1 DEF WillFit
  <2>4. CacheSeen(s)'
    BY <1>2, <2>1 DEF CacheSeen
  <2> QED BY <2>2, <2>3, <2>4
<1> QED BY <1>4, <1>5, <1>6, <1>7, <1>8 DEF PricingInv

\* What becomes of other types' rows does not disturb the prices of a type.
LEMMA FitsElsewhere ==
    ASSUME NEW f, NEW g, NEW t, NEW period, DOMAIN f = DOMAIN g,
           \A p \in DOMAIN f :
                \/ f[p] = g[p]
                \/ (f[p] = Null \/ f[p].type # t) /\ (g[p] = Null \/ g[p].type # t),
           Fits(f, t, period)
    PROVE  Fits(g, t, period)
<1>1. ASSUME NEW status
      PROVE  /\ OfType(g, t, status) = OfType(f, t, status)
             /\ \A p \in OfType(f, t, status) : g[p] = f[p]
  BY DEF OfType, Existing
<1> HIDE DEF OfType, Overlaps
<1> QED BY <1>1 DEF Fits

LEMMA FinishTypeKeeps ==
    ASSUME TypeOK, PricingInv, NEW r \in Requests, FinishType(r)
    PROVE  PricingInv'
<1> PICK q : q = req[r]
  OBVIOUS
<1>1. PricingTypeOK /\ RequestsFormed
  BY TypedRequests DEF TypeOK
<1>2. r \in BeingPriced /\ q.kind = "priced"
  BY DEF FinishType, BeingPriced
<1>3. Priced(q) /\ q.type \in Types /\ q.row \in Periods /\ Writable(q.rows)
  BY <1>1, <1>2, PricedAre
<1>4. /\ type' = [type EXCEPT ![q.type] = q.row]
      /\ pricing' = Over(q.rows, pricing)
      /\ used' = [p \in Rows |-> IF pricing'[p] = Null THEN "no" ELSE used[p]]
      /\ cache' = IF q.own THEN [min |-> q.min, max |-> q.max, stale |-> ~q.clean]
                  ELSE [cache EXCEPT !.stale = TRUE]
      /\ req' = [s \in Requests |->
                    IF s = r THEN Done
                    ELSE IF s \in BeingPriced THEN [req[s] EXCEPT !.clean = FALSE] ELSE req[s]]
  BY DEF FinishType
<1>5. OwnRows(r) /\ Respects(r) /\ WillFit(r) /\ CacheSeen(r)
  BY <1>2 DEF PricingInv
<1>6. /\ DOMAIN pricing' = Rows /\ DOMAIN pricing = Rows /\ DOMAIN q.rows \subseteq Rows
      /\ \A p \in Rows : pricing'[p] = IF p \in DOMAIN q.rows THEN q.rows[p] ELSE pricing[p]
  BY <1>1, <1>3, <1>4 DEF Over, Writable, PricingTypeOK
<1>7. \A p \in DOMAIN q.rows :
        /\ pricing[p] = Null \/ pricing[p].type = q.type
        /\ pricing'[p] = Null \/ pricing'[p].type = q.type
  BY <1>5, <1>6 DEF OwnRows
<1>8. \A p \in Rows : /\ used'[p] # "no" => pricing'[p] # Null
                      /\ used'[p] = "ordered" => used[p] = "ordered"
  BY <1>4
<1>9. /\ type'[q.type] = q.row /\ q.row # Null
      /\ \A t \in Types : t # q.type => type'[t] = type[t]
  BY <1>1, <1>3, <1>4, RowAssumption DEF PricingTypeOK
<1>10. UsedExist'
  BY <1>8 DEF UsedExist
<1>11. PricesFit'
  <2>1. SUFFICES ASSUME NEW t \in Types
                 PROVE  /\ type'[t] # Null => Fits(pricing', t, type'[t])
                        /\ type'[t] = Null => \A p \in Existing(pricing') : pricing'[p].type # t
    BY DEF PricesFit
  <2>2. CASE t = q.type
    BY <1>4, <1>5, <1>9, <2>2 DEF WillFit
  <2>3. CASE t # q.type
    <3>1. /\ type[t] # Null => Fits(pricing, t, type[t])
          /\ type[t] = Null => \A p \in Existing(pricing) : pricing[p].type # t
      BY DEF PricingInv, PricesFit
    <3>2. \A p \in Rows :
            \/ pricing[p] = pricing'[p]
            \/ (pricing[p] = Null \/ pricing[p].type # t) /\ (pricing'[p] = Null \/ pricing'[p].type # t)
      BY <1>6, <1>7, <2>3
    <3>3. type'[t] = type[t]
      BY <1>9, <2>3
    <3>4. CASE type[t] # Null
      <4>1. Fits(pricing', t, type[t])
        BY <1>6, <3>1, <3>2, <3>4, FitsElsewhere
      <4> QED BY <3>3, <3>4, <4>1
    <3>5. CASE type[t] = Null
      BY <1>6, <3>1, <3>2, <3>3, <3>5 DEF Existing
    <3> QED BY <3>4, <3>5
  <2> QED BY <2>2, <2>3
<1>12. CacheIsTrue'
  <2>1. ~cache'.stale => q.own /\ q.clean
    BY <1>1, <1>4 DEF PricingTypeOK, Cache
  <2>2. q.own => cache'.min = q.min /\ cache'.max = q.max
    BY <1>4
  <2>3. q.clean => q.min = CachedMin(pricing') /\ q.max = CachedMax(pricing')
    BY <1>4, <1>5 DEF CacheSeen
  <2> QED BY <2>1, <2>2, <2>3 DEF CacheIsTrue
<1>13. ASSUME NEW s \in BeingPriced, s # r
       PROVE  /\ Priced(req[s]) /\ req'[s].kind = "priced" /\ req'[s].type = req[s].type
              /\ req'[s].row = req[s].row /\ req'[s].rows = req[s].rows /\ req'[s].clean = FALSE
              /\ Writable(req[s].rows)
  <2>1. Priced(req[s]) /\ s \in Requests /\ req[s].kind = "priced" /\ Writable(req[s].rows)
    BY <1>1, PricedAre
  <2>2. req'[s] = [req[s] EXCEPT !.clean = FALSE]
    BY <1>4, <1>13, <2>1
  <2> QED BY <2>1, <2>2, OvertakenPriced
<1>14. ASSUME NEW s \in Requests, req'[s].kind \in {"priced", "update"}
       PROVE  s # r /\ (s \in BeingPriced \/ req'[s] = req[s])
  BY <1>4, <1>14 DEF Done
<1>15. BeingPriced' \subseteq BeingPriced \ {r}
  <2>1. SUFFICES ASSUME NEW s \in Requests, req'[s].kind = "priced"
                 PROVE  s \in BeingPriced \ {r}
    BY DEF BeingPriced
  <2> QED BY <1>14, <2>1 DEF BeingPriced
<1>16. Apart'
  <2>1. SUFFICES ASSUME NEW a \in BeingPriced', NEW b \in BeingPriced', a # b
                 PROVE  req'[a].type # req'[b].type /\ DOMAIN req'[a].rows \cap DOMAIN req'[b].rows = {}
    BY DEF Apart
  <2>2. /\ a \in BeingPriced /\ b \in BeingPriced /\ a # r /\ b # r
    BY <1>15
  <2>3. req[a].type # req[b].type /\ DOMAIN req[a].rows \cap DOMAIN req[b].rows = {}
    BY <2>1, <2>2 DEF PricingInv, Apart
  <2> QED BY <1>13, <2>2, <2>3
<1>17. KnownType'
  <2>1. SUFFICES ASSUME NEW s \in Requests, req'[s].kind = "update"
                 PROVE  type'[req'[s].type] # Null
    BY DEF KnownType
  <2>2. s \notin BeingPriced
    BY <1>13, <1>14, <2>1
  <2>3. req'[s] = req[s]
    BY <1>14, <2>1, <2>2
  <2>4. Updating(req[s])
    BY <1>1, <2>1, <2>3, Kinds DEF RequestsFormed
  <2>5. type[req[s].type] # Null /\ req[s].type \in Types
    BY <2>1, <2>3, <2>4 DEF PricingInv, KnownType, Updating
  <2> QED BY <1>9, <2>3, <2>5
<1>18. ASSUME NEW s \in BeingPriced'
       PROVE  OwnRows(s)' /\ Respects(s)' /\ WillFit(s)' /\ CacheSeen(s)'
  <2> PICK u : u = req[s]
    OBVIOUS
  <2>1. s \in BeingPriced /\ s # r
    BY <1>15
  <2>2. /\ Priced(u) /\ req'[s].type = u.type /\ req'[s].row = u.row
        /\ req'[s].rows = u.rows /\ req'[s].clean = FALSE /\ Writable(u.rows)
    BY <1>13, <2>1
  <2>3. OwnRows(s) /\ Respects(s) /\ WillFit(s)
    BY <2>1 DEF PricingInv
  <2>4. u.type # q.type /\ DOMAIN u.rows \cap DOMAIN q.rows = {}
    BY <1>2, <2>1 DEF PricingInv, Apart
  <2>5. \A p \in DOMAIN u.rows : p \in Rows /\ pricing'[p] = pricing[p]
    BY <1>6, <2>2, <2>4 DEF Writable
  <2>6. OwnRows(s)'
    BY <2>2, <2>3, <2>5 DEF OwnRows
  <2>7. Respects(s)'
    BY <1>8, <2>2, <2>3, <2>5 DEF Respects
  <2>8. WillFit(s)'
    <3> PICK f : f = Over(u.rows, pricing)
      OBVIOUS
    <3> PICK g : g = Over(u.rows, pricing')
      OBVIOUS
    <3>1. /\ DOMAIN f = Rows /\ DOMAIN g = Rows
          /\ \A p \in Rows : f[p] = IF p \in DOMAIN u.rows THEN u.rows[p] ELSE pricing[p]
          /\ \A p \in Rows : g[p] = IF p \in DOMAIN u.rows THEN u.rows[p] ELSE pricing'[p]
      BY <1>6, <2>2 DEF Over, Writable
    <3>2. Fits(f, u.type, u.row)
      BY <2>3 DEF WillFit
    <3>3. \A p \in DOMAIN f :
            \/ f[p] = g[p]
            \/ (f[p] = Null \/ f[p].type # u.type) /\ (g[p] = Null \/ g[p].type # u.type)
      BY <1>6, <1>7, <2>4, <3>1
    <3>4. Fits(g, u.type, u.row)
      BY <3>1, <3>2, <3>3, FitsElsewhere
    <3> QED BY <2>2, <3>4 DEF WillFit
  <2>9. CacheSeen(s)'
    BY <2>2 DEF CacheSeen
  <2> QED BY <2>6, <2>7, <2>8, <2>9
<1> QED BY <1>10, <1>11, <1>12, <1>16, <1>17, <1>18 DEF PricingInv

\* Of two periods that hold a common time one begins or ends in the other.
LEMMA CommonTime ==
    ASSUME NEW a \in PricingRow, NEW b \in PricingRow, NEW time \in Int,
           a.from <= time, time < a.to, b.from <= time, time < b.to
    PROVE  Overlaps(a, b)
<1>1. a.from \in Nat /\ a.to \in Nat /\ b.from \in Nat /\ b.to \in Nat
  BY DEF PricingRow
<1>2. CASE b.from <= a.from
  BY <1>1, <1>2 DEF Overlaps
<1>3. CASE a.from < b.from /\ a.to <= b.to
  BY <1>1, <1>3 DEF Overlaps
<1>4. CASE a.from < b.from /\ b.to < a.to
  BY <1>1, <1>4 DEF Overlaps
<1> QED BY <1>1, <1>2, <1>3, <1>4

\* Prices that fit a type determine the one of each time.
LEMMA PricesDetermine ==
    ASSUME PricingTypeOK, PricesFit
    PROVE  PriceIsDetermined
<1>1. SUFFICES ASSUME NEW t \in Types, type[t] # Null, NEW time \in type[t].from .. type[t].to - 1
               PROVE  Cardinality(OnlinePrices(t, time)) = 1
  BY DEF PriceIsDetermined
<1>2. /\ type[t].from \in Nat /\ type[t].to \in Nat /\ time \in Int
      /\ type[t].from <= time /\ time < type[t].to
  <2>1. type[t] \in Periods
    BY <1>1 DEF PricingTypeOK
  <2>2. type[t].from \in Nat /\ type[t].to \in Nat
    BY <2>1 DEF Periods
  <2> QED BY <2>2
<1>3. Fits(pricing, t, type[t])
  BY <1>1 DEF PricesFit
<1>4. ASSUME NEW status, NEW p
      PROVE  p \in InForce(pricing, t, status, time) <=>
                 /\ p \in OfType(pricing, t, status) /\ pricing[p] \in PricingRow
                 /\ pricing[p].from <= time /\ time < pricing[p].to
  BY DEF InForce, OfType, Existing, PricingTypeOK
<1> PICK S : S = {p \in InForce(pricing, t, "Published", time) : ~pricing[p].box}
  OBVIOUS
<1>5. ASSUME NEW p \in S, NEW q \in S
      PROVE  p = q
  <2>1. /\ p \in OfType(pricing, t, "Published") /\ q \in OfType(pricing, t, "Published")
        /\ Overlaps(pricing[p], pricing[q]) /\ ~pricing[p].box /\ ~pricing[q].box
    BY <1>2, <1>4, CommonTime
  <2> HIDE DEF OfType, Overlaps
  <2> QED BY <1>3, <2>1 DEF Fits
<1>6. PICK d \in OfType(pricing, t, "Default") :
          /\ \A e \in OfType(pricing, t, "Default") : e = d
          /\ pricing[d].from = type[t].from /\ pricing[d].to = type[t].to
  <2> HIDE DEF OfType
  <2> QED BY <1>3 DEF Fits
<1>7. InForce(pricing, t, "Default", time) = {d}
  <2>1. pricing[d] \in PricingRow
    BY DEF OfType, Existing, PricingTypeOK
  <2>2. d \in InForce(pricing, t, "Default", time)
    BY <1>2, <1>4, <1>6, <2>1
  <2>3. \A p \in InForce(pricing, t, "Default", time) : p = d
    BY <1>4, <1>6
  <2> QED BY <2>2, <2>3
<1>8. PICK x : Candidates(t, time) = {x}
  <2>1. CASE S = {}
    BY <1>7, <2>1 DEF Candidates
  <2>2. CASE S # {}
    <3>1. PICK x \in S : TRUE
      BY <2>2
    <3>2. S = {x}
      BY <1>5, <3>1
    <3> QED BY <2>2, <3>2 DEF Candidates
  <2> QED BY <2>1, <2>2
<1>9. Cardinality(Candidates(t, time)) = 1
  BY <1>8, FS_Singleton
<1> QED BY <1>9 DEF OnlinePrices

\* The step of the purchase history.
IsHistoryKept ==
    \A p \in Rows :
        /\ used[p] = "ordered" /\ pricing[p].status # "Published"
        => pricing'[p] # Null /\ pricing'[p].price = pricing[p].price

LEMMA HistoryUnchanged ==
    ASSUME PricingInv, pricing' = pricing
    PROVE  IsHistoryKept
BY DEF PricingInv, UsedExist, IsHistoryKept

LEMMA FinishTypeKeepsHistory ==
    ASSUME TypeOK, PricingInv, NEW r \in Requests, FinishType(r)
    PROVE  IsHistoryKept
<1>1. RequestsFormed /\ PricingTypeOK
  BY TypedRequests DEF TypeOK
<1>2. r \in BeingPriced /\ pricing' = Over(req[r].rows, pricing)
  BY DEF FinishType, BeingPriced
<1>3. Writable(req[r].rows) /\ Respects(r) /\ UsedExist
  BY <1>1, <1>2, PricedAre DEF PricingInv
<1>4. \A p \in Rows : pricing'[p] = IF p \in DOMAIN req[r].rows THEN req[r].rows[p] ELSE pricing[p]
  BY <1>1, <1>2, <1>3 DEF Over, Writable, PricingTypeOK
<1>5. SUFFICES ASSUME NEW p \in Rows, used[p] = "ordered", pricing[p].status # "Published"
               PROVE  pricing'[p] # Null /\ pricing'[p].price = pricing[p].price
  BY DEF IsHistoryKept
<1>6. pricing[p] # Null
  BY <1>3, <1>5 DEF UsedExist
<1>7. CASE p \in DOMAIN req[r].rows
  BY <1>3, <1>4, <1>5, <1>6, <1>7 DEF Respects
<1>8. CASE p \notin DOMAIN req[r].rows
  BY <1>4, <1>6, <1>8
<1> QED BY <1>7, <1>8

LEMMA PricingStepKeeps ==
    ASSUME TypeOK, PricingInv, PricingStep
    PROVE  /\ RequestsFormed' /\ Kept(OtherThanPrices) /\ PricingTypeOK' /\ PricingInv'
           /\ IsHistoryKept /\ UNCHANGED eventVars
<1>1. UNCHANGED eventVars
  BY DEF PricingStep
<1>2. CASE CartStep
  <2>1. pricing' = pricing
    BY <1>2, CartTypes
  <2> QED BY <1>1, <1>2, <2>1, CartTypes, CartKeeps, HistoryUnchanged
<1>3. ASSUME NEW r \in Requests, NEW t \in Types, NEW period \in NewPeriods,
             NEW offer \in Offers \cup {Null}, CreateType(r, t, period, offer)
      PROVE  RequestsFormed' /\ Kept(OtherThanPrices) /\ PricingTypeOK' /\ PricingInv' /\ IsHistoryKept
  <2>1. pricing' = pricing
    BY <1>3 DEF CreateType, pricingVars
  <2>2. RequestsFormed' /\ Kept(OtherThanPrices) /\ PricingTypeOK'
    BY <1>3, CreateTypeTypes
  <2> QED BY <1>3, <2>1, <2>2, CreateTypeKeeps, HistoryUnchanged
<1>4. ASSUME NEW r \in Requests, NEW t \in Types, NEW own \in BOOLEAN,
             NEW set \in TypeChanges, NEW list \in ListsFor(t, own), StartType(r, t, own, set, list)
      PROVE  RequestsFormed' /\ Kept(OtherThanPrices) /\ PricingTypeOK' /\ PricingInv' /\ IsHistoryKept
  <2>1. pricing' = pricing
    BY <1>4 DEF StartType, pricingVars
  <2>2. RequestsFormed' /\ Kept(OtherThanPrices) /\ PricingTypeOK'
    BY <1>4, StartTypeTypes
  <2> QED BY <1>4, <2>1, <2>2, StartTypeKeeps, HistoryUnchanged
<1>5. ASSUME NEW r \in Requests, WriteType(r)
      PROVE  RequestsFormed' /\ Kept(OtherThanPrices) /\ PricingTypeOK' /\ PricingInv' /\ IsHistoryKept
  <2>1. pricing' = pricing /\ req[r].kind = "update"
    BY <1>5 DEF WriteType, pricingVars
  <2>2. type[req[r].type] # Null
    BY <2>1 DEF PricingInv, KnownType
  <2>3. RequestsFormed' /\ Kept(OtherThanPrices) /\ PricingTypeOK'
    BY <1>5, <2>2, WriteTypeTypes
  <2> QED BY <1>5, <2>1, <2>3, WriteTypeKeeps, HistoryUnchanged
<1>6. ASSUME NEW r \in Requests, FinishType(r)
      PROVE  RequestsFormed' /\ Kept(OtherThanPrices) /\ PricingTypeOK' /\ PricingInv' /\ IsHistoryKept
  BY <1>6, FinishTypeTypes, FinishTypeKeeps, FinishTypeKeepsHistory
<1> QED BY <1>1, <1>2, <1>3, <1>4, <1>5, <1>6 DEF PricingStep, TypeStep

-----------------------------------------------------------------------------
(* The whole: from the initial states, and step by step.                   *)

LEMMA FirstPrices ==
    ASSUME PricingInit
    PROVE  /\ PricingTypeOK /\ UsedExist /\ PricesFit /\ CacheIsTrue
<1>1. 1 \in Rows /\ 2 \in Rows
  BY BoundAssumption DEF Rows
<1> PICK default : default = DefaultOf(FirstType, FirstPeriod)
  OBVIOUS
<1> PICK published : published = PricingRowOf(FirstType, "Published", FirstOffer)
  OBVIOUS
<1>2. default \in PricingRow /\ published \in PricingRow /\ default # Null /\ published # Null
  BY RowsOfOffers, TypeAssumption, RowAssumption
<1>3. /\ default.type = FirstType /\ default.status = "Default" /\ default.price = FirstPeriod.price
      /\ default.from = FirstPeriod.from /\ default.to = FirstPeriod.to
      /\ published.type = FirstType /\ published.status = "Published"
      /\ published.price = FirstOffer.price
  BY DEF DefaultOf, PricingRowOf
<1>4. /\ DOMAIN pricing = Rows /\ pricing[1] = default /\ pricing[2] = published
      /\ \A p \in Rows \ {1, 2} : pricing[p] = Null
  BY <1>1 DEF PricingInit
<1>5. /\ type[FirstType] = FirstPeriod /\ FirstPeriod # Null
      /\ \A t \in Types \ {FirstType} : type[t] = Null
      /\ \A p \in Rows : used[p] = "no"
  BY TypeAssumption, RowAssumption DEF PricingInit
<1>6. pricing \in [Rows -> PricingRow \cup {Null}]
  <2>1. pricing = [p \in Rows |-> IF p = 1 THEN default ELSE IF p = 2 THEN published ELSE Null]
    BY DEF PricingInit
  <2> QED BY <1>2, <2>1
<1>7. type \in [Types -> Periods \cup {Null}] /\ used \in [Rows -> {"no", "read", "ordered"}]
  BY TypeAssumption DEF PricingInit
<1>8. ValidPricing(pricing) = {1, 2}
  BY <1>1, <1>2, <1>3, <1>4 DEF ValidPricing, Existing
<1> PICK prices : prices = {FirstPeriod.price, FirstOffer.price}
  OBVIOUS
<1>9. {pricing[p].price : p \in ValidPricing(pricing)} = prices
  BY <1>3, <1>4, <1>8
<1>10. /\ cache = [min |-> CHOOSE x \in prices : \A y \in prices : x <= y,
                   max |-> CHOOSE x \in prices : \A y \in prices : x >= y, stale |-> FALSE]
  BY DEF PricingInit
<1>11. cache.min = CachedMin(pricing) /\ cache.max = CachedMax(pricing) /\ cache.stale = FALSE
  <2> DEFINE P == {pricing[p].price : p \in ValidPricing(pricing)}
  <2>1. /\ CachedMin(pricing) = IF P = {} THEN 0 ELSE CHOOSE x \in P : \A y \in P : x <= y
        /\ CachedMax(pricing) = IF P = {} THEN 0 ELSE CHOOSE x \in P : \A y \in P : x >= y
    BY DEF CachedMin, CachedMax
  <2> HIDE DEF P
  <2>2. P = prices /\ P # {}
    BY <1>9 DEF P
  <2>3. /\ CachedMin(pricing) = CHOOSE x \in prices : \A y \in prices : x <= y
        /\ CachedMax(pricing) = CHOOSE x \in prices : \A y \in prices : x >= y
    BY ONLY <2>1, <2>2, Zenon
  <2> HIDE DEF CachedMin, CachedMax
  <2> QED BY <1>10, <2>3
<1>12. CachedMin(pricing) \in Nat /\ CachedMax(pricing) \in Nat
  <2>1. \A p \in DOMAIN pricing : pricing[p] # Null => pricing[p].price \in Nat
    BY <1>6 DEF PricingRow
  <2> QED BY <1>4, <2>1, CachedPrices
<1>13. cache \in Cache
  <2>1. PICK x, y : cache = [min |-> x, max |-> y, stale |-> FALSE]
    BY <1>10
  <2>2. x = CachedMin(pricing) /\ y = CachedMax(pricing)
    BY <1>11, <2>1
  <2> QED BY <1>12, <2>1, <2>2 DEF Cache
<1>14. PricesFit
  <2>1. /\ OfType(pricing, FirstType, "Published") = {2}
        /\ OfType(pricing, FirstType, "Default") = {1}
    BY <1>1, <1>2, <1>3, <1>4 DEF OfType, Existing
  <2>2. Fits(pricing, FirstType, FirstPeriod)
    <3> HIDE DEF OfType, Overlaps
    <3> QED BY <1>3, <1>4, <2>1 DEF Fits
  <2>3. \A p \in Existing(pricing) : pricing[p].type = FirstType
    BY <1>3, <1>4 DEF Existing
  <2>4. ASSUME NEW t \in Types
        PROVE  /\ type[t] # Null => Fits(pricing, t, type[t])
               /\ type[t] = Null => \A p \in Existing(pricing) : pricing[p].type # t
    BY <1>5, <2>2, <2>3
  <2> QED BY <2>4 DEF PricesFit
<1> QED BY <1>5, <1>6, <1>7, <1>11, <1>13, <1>14 DEF PricingTypeOK, UsedExist, CacheIsTrue

LEMMA FirstPlaces ==
    ASSUME PlacesInit
    PROVE  PlacesTypeOK /\ PublicAsMeant /\ StagesStand
<1>1. /\ entry \in [Entries -> Entry \cup {Null}] /\ stage \in [Stages -> Venues \cup {Null}]
      /\ \A s \in Stages : stage[s] # Null => entry[stage[s]] # Null
  BY EntryAssumption DEF PlacesInit
<1>2. \A x \in Entries : public[x] = (entry[x] # Null /\ ~entry[x].private)
  BY DEF PlacesInit
<1>3. public \in [Entries -> BOOLEAN \cup {Null}]
  <2>1. \A x \in Entries : (FirstEntry[x] # Null /\ ~FirstEntry[x].private) \in BOOLEAN
    OBVIOUS
  <2> QED BY <2>1 DEF PlacesInit
<1>4. PublicAsMeant
  <2>1. SUFFICES ASSUME NEW x \in Entries, entry[x] # Null
                 PROVE  public[x] = ~entry[x].private
    BY DEF PublicAsMeant
  <2> QED BY <1>2, <2>1
<1> QED BY <1>1, <1>3, <1>4 DEF PlacesTypeOK, StagesStand

\* All that the steps keep.
EventInv ==
    TypeOK /\ LineInv /\ RowInv /\ JobInv /\ PricingInv /\ PlacesInv

LEMMA EventInit == Init => EventInv
<1> SUFFICES ASSUME Init
             PROVE  EventInv
  OBVIOUS
<1>1. PICK start \in Starts :
        /\ req = [r \in Requests |-> Idle(start.about[r])]
        /\ event = [status |-> "Draft", date |-> start.date, image |-> start.image,
                    venue |-> start.venue, list |-> FALSE, cancelled |-> FALSE, over |-> FALSE]
        /\ key = start.key
  BY DEF Init
<1>2. /\ start.about \in [Requests -> Abouts] /\ start.date \in BOOLEAN /\ start.image \in BOOLEAN
      /\ start.venue \in BOOLEAN /\ start.key \in BOOLEAN
  BY StartAssumption
<1>3. /\ PricingInit /\ PlacesInit /\ job = [j \in Jobs |-> Null] /\ lineup = {} /\ sent = {}
      /\ excused = {}
  BY DEF Init
<1>4. RequestsFormed /\ \A r \in Requests : req[r].kind = "idle"
  <2>1. ASSUME NEW r \in Requests
        PROVE  Formed(req[r]) /\ req[r].kind = "idle"
    <3>1. req[r] = Idle(start.about[r]) /\ start.about[r] \in Abouts
      BY <1>1, <1>2
    <3> QED BY <3>1 DEF Formed, Idle
  <2> QED BY <1>1, <2>1 DEF RequestsFormed
<1>5. RowsTyped
  <2>1. event \in EventRow
    BY <1>1, <1>2 DEF EventRow
  <2> QED BY <1>1, <1>2, <1>3, <2>1 DEF RowsTyped
<1>6. LineTyped
  BY <1>3 DEF LineTyped
<1>7. PricingTypeOK /\ UsedExist /\ PricesFit /\ CacheIsTrue
  BY <1>3, FirstPrices
<1>8. PlacesTypeOK /\ PublicAsMeant /\ StagesStand
  BY <1>3, FirstPlaces
<1>9. TypeOK
  BY <1>4, <1>5, <1>6, <1>7, <1>8 DEF TypeOK, RequestsFormed, Formed, RowsTyped, LineTyped
<1>10. LineInv
  BY <1>3, <1>4, <1>6 DEF LineInv, SlotsDiffer, ClearsAll, LineupAsSent
<1>11. RowInv
  BY <1>1, <1>4 DEF RowInv, SeenAsIs, PublishedHasDate, EditKinds
<1>12. JobInv
  <2>1. Checked = {} /\ Imports = {} /\ Beginning = {}
    BY <1>3 DEF Checked, Imports, Beginning
  <2> QED BY <1>1, <2>1 DEF JobInv, LooksAreLists, Series, GoesOn
<1>13. PricingInv
  <2>1. BeingPriced = {}
    BY <1>4 DEF BeingPriced
  <2> QED BY <1>4, <1>7, <2>1 DEF PricingInv, Apart, KnownType
<1>14. PlacesInv
  BY <1>4, <1>8 DEF PlacesInv, EntryAsRead, StageAsRead, OneCreation
<1> QED BY <1>9, <1>10, <1>11, <1>12, <1>13, <1>14 DEF EventInv

\* What a step leaves alone stays as it should be.
LEMMA KeptFewer ==
    ASSUME NEW few, NEW kinds, few \subseteq kinds, Kept(kinds)
    PROVE  Kept(few)
BY DEF Kept

LEMMA RowsUntouched ==
    ASSUME TypeOK, RowInv, JobInv, Kept(EditKinds), UNCHANGED <<event, key, job, excused>>
    PROVE  RowsTyped' /\ RowInv' /\ JobInv'
<1>1. RowsTyped
  BY DEF TypeOK, RowsTyped
<1>2. RowInv'
  BY RowKept
<1> QED BY <1>1, <1>2
        DEF RowsTyped, JobInv, LooksAreLists, Checked, Series, Imports, Beginning, GoesOn

LEMMA LinesUntouched ==
    ASSUME LineInv, Kept({"lineup"}), UNCHANGED <<lineup, sent>>
    PROVE  LineTyped' /\ LineInv'
BY KeptLists DEF LineInv

LEMMA PricesUntouched ==
    ASSUME TypeOK, PricingInv, Kept({"update", "priced"}), UNCHANGED pricingVars
    PROVE  PricingTypeOK' /\ PricingInv' /\ IsHistoryKept
<1>1. type' = type /\ pricing' = pricing /\ used' = used /\ cache' = cache
  BY DEF pricingVars
<1>2. PricingTypeOK'
  BY <1>1 DEF TypeOK, PricingTypeOK
<1> QED BY <1>1, <1>2, PricesKept, HistoryUnchanged

LEMMA PlacesUntouched ==
    ASSUME TypeOK, PlacesInv, Kept({"entry", "stage"}), UNCHANGED placeVars
    PROVE  PlacesTypeOK' /\ PlacesInv' /\ AreChangesAllowed /\ IsOrganizationKept
<1>1. entry' = entry /\ stage' = stage /\ public' = public
  BY DEF placeVars
<1>2. PlacesTypeOK'
  BY <1>1 DEF TypeOK, PlacesTypeOK
<1> QED BY <1>1, <1>2, PlacesKept, PlacesUnchangedAllowed

LEMMA TypedAgain ==
    ASSUME RequestsFormed', PricingTypeOK', PlacesTypeOK', RowsTyped', LineTyped'
    PROVE  TypeOK'
BY DEF TypeOK, RequestsFormed, Formed, RowsTyped, LineTyped

LEMMA LineupStepKeeps ==
    ASSUME TypeOK, LineInv, LineupStep
    PROVE  /\ RequestsFormed' /\ Kept(OtherThanLineups) /\ LineInv'
           /\ UNCHANGED <<pricingVars, event, key, job, excused>>
<1>1. UNCHANGED <<pricingVars, event, key, job, excused>>
  BY DEF LineupStep, StartLineup, FinishLineup, AddArtist, eventVars
<1> QED BY <1>1, StartLineupKeeps, FinishLineupKeeps, AddArtistKeeps DEF LineupStep

LEMMA FailKeeps ==
    ASSUME TypeOK, NEW r \in Requests, Fail(r)
    PROVE  RequestsFormed' /\ Kept(AllKinds) /\ UNCHANGED <<pricingVars, eventVars>>
<1>1. RequestsFormed
  BY TypedRequests
<1>2. req' = [req EXCEPT ![r] = Done] /\ UNCHANGED <<pricingVars, eventVars>>
  BY DEF Fail
<1>3. DOMAIN req' = Requests /\ req'[r] = Done /\ \A s \in Requests : s # r => req'[s] = req[s]
  BY <1>1, <1>2 DEF RequestsFormed
<1>4. RequestsFormed'
  BY <1>1, <1>3 DEF RequestsFormed, Formed
<1>5. Kept(AllKinds)
  BY <1>3 DEF Kept, Done, AllKinds, EditKinds, OtherThanEdits
<1> QED BY <1>2, <1>4, <1>5

\* A step keeps the whole, and what it does to prices and places is allowed.
StepIsRight ==
    EventInv' /\ IsHistoryKept /\ AreChangesAllowed /\ IsOrganizationKept

LEMMA EventNext ==
    ASSUME EventInv, [Next]_vars
    PROVE  StepIsRight
<1>1. TypeOK /\ LineInv /\ RowInv /\ JobInv /\ PricingInv /\ PlacesInv /\ RequestsFormed
  BY TypedRequests DEF EventInv
<1>2. CASE PricingStep /\ UNCHANGED placeVars
  <2>1. /\ RequestsFormed' /\ Kept(OtherThanPrices) /\ PricingTypeOK' /\ PricingInv'
        /\ IsHistoryKept /\ UNCHANGED <<event, key, job, excused>> /\ UNCHANGED <<lineup, sent>>
    BY <1>1, <1>2, PricingStepKeeps DEF eventVars
  <2>2. Kept(EditKinds) /\ Kept({"lineup"}) /\ Kept({"entry", "stage"})
    BY <2>1, KeptFewer DEF OtherThanPrices
  <2>3. RowsTyped' /\ RowInv' /\ JobInv'
    BY <1>1, <2>1, <2>2, RowsUntouched
  <2>4. LineTyped' /\ LineInv'
    BY <1>1, <2>1, <2>2, LinesUntouched
  <2>5. PlacesTypeOK' /\ PlacesInv' /\ AreChangesAllowed /\ IsOrganizationKept
    BY <1>1, <1>2, <2>2, PlacesUntouched
  <2>6. TypeOK'
    BY <2>1, <2>3, <2>4, <2>5, TypedAgain
  <2> QED BY <2>1, <2>3, <2>4, <2>5, <2>6 DEF StepIsRight, EventInv
<1>3. CASE EventStep /\ UNCHANGED placeVars
  <2>1. /\ RequestsFormed' /\ Kept(OtherThanEdits) /\ RowsTyped' /\ RowInv' /\ JobInv'
        /\ UNCHANGED pricingVars /\ UNCHANGED <<lineup, sent>>
    BY <1>1, <1>3, EventTypes, EventStepKeeps
  <2>2. Kept({"update", "priced"}) /\ Kept({"lineup"}) /\ Kept({"entry", "stage"})
    BY <2>1, KeptFewer DEF OtherThanEdits
  <2>3. LineTyped' /\ LineInv'
    BY <1>1, <2>1, <2>2, LinesUntouched
  <2>4. PricingTypeOK' /\ PricingInv' /\ IsHistoryKept
    BY <1>1, <2>1, <2>2, PricesUntouched
  <2>5. PlacesTypeOK' /\ PlacesInv' /\ AreChangesAllowed /\ IsOrganizationKept
    BY <1>1, <1>3, <2>2, PlacesUntouched
  <2>6. TypeOK'
    BY <2>1, <2>3, <2>4, <2>5, TypedAgain
  <2> QED BY <2>1, <2>3, <2>4, <2>5, <2>6 DEF StepIsRight, EventInv
<1>4. CASE JobStep /\ UNCHANGED placeVars
  <2>1. /\ RowsTyped' /\ RowInv' /\ JobInv' /\ req' = req
        /\ UNCHANGED pricingVars /\ UNCHANGED <<lineup, sent>>
    BY <1>1, <1>4, JobTypes, JobStepKeeps, JobStepKeepsRow
  <2>2. /\ RequestsFormed' /\ Kept({"update", "priced"}) /\ Kept({"lineup"})
        /\ Kept({"entry", "stage"})
    BY <1>1, <2>1 DEF RequestsFormed, Kept
  <2>3. LineTyped' /\ LineInv'
    BY <1>1, <2>1, <2>2, LinesUntouched
  <2>4. PricingTypeOK' /\ PricingInv' /\ IsHistoryKept
    BY <1>1, <2>1, <2>2, PricesUntouched
  <2>5. PlacesTypeOK' /\ PlacesInv' /\ AreChangesAllowed /\ IsOrganizationKept
    BY <1>1, <1>4, <2>2, PlacesUntouched
  <2>6. TypeOK'
    BY <2>1, <2>2, <2>3, <2>4, <2>5, TypedAgain
  <2> QED BY <2>1, <2>3, <2>4, <2>5, <2>6 DEF StepIsRight, EventInv
<1>5. CASE LineupStep /\ UNCHANGED placeVars
  <2>1. /\ RequestsFormed' /\ Kept(OtherThanLineups) /\ LineInv'
        /\ UNCHANGED <<event, key, job, excused>> /\ UNCHANGED pricingVars
    BY <1>1, <1>5, LineupStepKeeps
  <2>2. Kept({"update", "priced"}) /\ Kept(EditKinds) /\ Kept({"entry", "stage"})
    BY <2>1, KeptFewer DEF OtherThanLineups
  <2>3. RowsTyped' /\ RowInv' /\ JobInv'
    BY <1>1, <2>1, <2>2, RowsUntouched
  <2>4. PricingTypeOK' /\ PricingInv' /\ IsHistoryKept
    BY <1>1, <2>1, <2>2, PricesUntouched
  <2>5. PlacesTypeOK' /\ PlacesInv' /\ AreChangesAllowed /\ IsOrganizationKept
    BY <1>1, <1>5, <2>2, PlacesUntouched
  <2>6. LineTyped'
    BY <2>1 DEF LineInv
  <2>7. TypeOK'
    BY <2>1, <2>3, <2>4, <2>5, <2>6, TypedAgain
  <2> QED BY <2>1, <2>3, <2>4, <2>5, <2>7 DEF StepIsRight, EventInv
<1>6. CASE (\E r \in Requests : Fail(r)) /\ UNCHANGED placeVars
  <2>1. /\ RequestsFormed' /\ Kept(AllKinds) /\ UNCHANGED pricingVars
        /\ UNCHANGED <<event, key, job, excused>> /\ UNCHANGED <<lineup, sent>>
    BY <1>1, <1>6, FailKeeps DEF eventVars
  <2>2. /\ Kept({"update", "priced"}) /\ Kept(EditKinds) /\ Kept({"lineup"})
        /\ Kept({"entry", "stage"})
    BY <2>1, KeptFewer DEF AllKinds, OtherThanEdits
  <2>3. RowsTyped' /\ RowInv' /\ JobInv'
    BY <1>1, <2>1, <2>2, RowsUntouched
  <2>4. PricingTypeOK' /\ PricingInv' /\ IsHistoryKept
    BY <1>1, <2>1, <2>2, PricesUntouched
  <2>5. PlacesTypeOK' /\ PlacesInv' /\ AreChangesAllowed /\ IsOrganizationKept
    BY <1>1, <1>6, <2>2, PlacesUntouched
  <2>6. LineTyped' /\ LineInv'
    BY <1>1, <2>1, <2>2, LinesUntouched
  <2>7. TypeOK'
    BY <2>1, <2>3, <2>4, <2>5, <2>6, TypedAgain
  <2> QED BY <2>3, <2>4, <2>5, <2>6, <2>7 DEF StepIsRight, EventInv
<1>7. CASE PlaceStep
  <2>1. /\ RequestsFormed' /\ Kept(OtherThanPlaces) /\ PlacesTypeOK' /\ PlacesInv'
        /\ AreChangesAllowed /\ IsOrganizationKept
    BY <1>1, <1>7, EntryStepKeeps, FinishStageKeeps, PlacesStepAllowed DEF PlaceStep
  <2>2. UNCHANGED pricingVars /\ UNCHANGED <<event, key, job, excused>>
    BY <1>7 DEF PlaceStep, eventVars
  <2>3. Kept({"update", "priced"}) /\ Kept(EditKinds) /\ Kept({"lineup"})
    BY <2>1, KeptFewer DEF OtherThanPlaces
  <2>4. RowsTyped' /\ RowInv' /\ JobInv'
    BY <1>1, <2>2, <2>3, RowsUntouched
  <2>5. PricingTypeOK' /\ PricingInv' /\ IsHistoryKept
    BY <1>1, <2>2, <2>3, PricesUntouched
  <2>6. UNCHANGED <<lineup, sent>> \/ Cascade
    BY <1>7 DEF PlaceStep, eventVars
  <2>7. LineInv'
    BY <1>1, <2>3, <2>6, KeptLists, CascadeKeeps
  <2>8. LineTyped'
    BY <2>7 DEF LineInv
  <2>9. TypeOK'
    BY <2>1, <2>4, <2>5, <2>8, TypedAgain
  <2> QED BY <2>1, <2>4, <2>5, <2>7, <2>9 DEF StepIsRight, EventInv
<1>8. CASE UNCHANGED vars
  <2>1. /\ req' = req /\ UNCHANGED pricingVars /\ UNCHANGED placeVars
        /\ UNCHANGED <<event, key, job, excused>> /\ UNCHANGED <<lineup, sent>>
    BY <1>8 DEF vars, eventVars
  <2>2. /\ RequestsFormed' /\ Kept({"update", "priced"}) /\ Kept({"lineup"})
        /\ Kept({"entry", "stage"}) /\ Kept(EditKinds)
    BY <1>1, <2>1 DEF RequestsFormed, Kept
  <2>3. RowsTyped' /\ RowInv' /\ JobInv'
    BY <1>1, <2>1, <2>2, RowsUntouched
  <2>4. PricingTypeOK' /\ PricingInv' /\ IsHistoryKept
    BY <1>1, <2>1, <2>2, PricesUntouched
  <2>5. PlacesTypeOK' /\ PlacesInv' /\ AreChangesAllowed /\ IsOrganizationKept
    BY <1>1, <2>1, <2>2, PlacesUntouched
  <2>6. LineTyped' /\ LineInv'
    BY <1>1, <2>1, <2>2, LinesUntouched
  <2>7. TypeOK'
    BY <2>2, <2>3, <2>4, <2>5, <2>6, TypedAgain
  <2> QED BY <2>3, <2>4, <2>5, <2>6, <2>7 DEF StepIsRight, EventInv
<1> QED BY <1>2, <1>3, <1>4, <1>5, <1>6, <1>7, <1>8 DEF Next

-----------------------------------------------------------------------------
(* Theorems.                                                               *)

LEMMA EventAlways == Spec => []EventInv
<1>1. EventInv /\ [Next]_vars => EventInv'
  BY EventNext DEF StepIsRight
<1> QED BY <1>1, EventInit, PTL DEF Spec

\* A published event has a date and the line-up is what was sent last, ranks and
\* stages, whichever of publish, unpublish, cancel, update, update_artists and the
\* removals of stages overlap, with the exceptions that EventIsAsSent names.
THEOREM EventStaysAsSent == Spec => []EventIsAsSent
<1>1. EventInv => EventIsAsSent
  BY DEF EventInv, RowInv, LineInv, EventIsAsSent
<1> QED BY <1>1, EventAlways, PTL

\* Every click on publish starts an action, and yet an event has one series of
\* fan-list imports, which goes on until the event is over: for any number of
\* actions, attempts and overlapping requests.
THEOREM ImportsAlwaysGoOn == Spec => []ImportsGoOn
<1>1. EventInv => ImportsGoOn
  BY ImportsDo DEF EventInv
<1> QED BY <1>1, EventAlways, PTL

\* Whatever requests change the prices of types at once, a cart finds one price at
\* any time at which a type is on sale, and the event shows the cheapest and the
\* dearest since the last request about a type, unless that one named another event
\* or had been overtaken.
THEOREM PricesAlwaysAgree == Spec => []PricesAgree
<1>1. EventInv => PricesAgree
  <2> SUFFICES ASSUME EventInv
               PROVE  PricesAgree
    OBVIOUS
  <2>1. PricingTypeOK /\ PricesFit /\ CacheIsTrue
    BY DEF EventInv, TypeOK, PricingInv
  <2> QED BY <2>1, PricesDetermine DEF PricesAgree
<1> QED BY <1>1, EventAlways, PTL

\* A default or withdrawn price that an order item refers to is there as it was
\* sold, though carts order while requests destroy prices.
THEOREM PurchaseHistoryStays == Spec => PurchaseHistoryKept
<1>1. EventInv /\ [Next]_vars => [IsHistoryKept]_<<type, pricing>>
  BY EventNext DEF StepIsRight
<1>2. Spec => [][IsHistoryKept]_<<type, pricing>>
  BY <1>1, EventAlways, PTL DEF Spec
<1> QED BY <1>2 DEF PurchaseHistoryKept, IsHistoryKept

\* Private artists and venues are listed to the people of their organization and
\* to administrators, public ones to everybody, whatever was created, toggled and
\* given away at once.
THEOREM ListsStayAsMeant == Spec => []ListedAsMeant
<1>1. EventInv => ListedAsMeant
  BY ListedAsDecided DEF EventInv
<1> QED BY <1>1, EventAlways, PTL

\* Artists, venues and stages are changed by those who may, and a venue stays with
\* its organization: but for a request that was overtaken after it had looked.
THEOREM PlacesStayKept == Spec => PlacesAreKept
<1>1. EventInv /\ [Next]_vars => [AreChangesAllowed]_<<entry, stage>> /\ [IsOrganizationKept]_entry
  BY EventNext DEF StepIsRight
<1>2. Spec => [][AreChangesAllowed]_<<entry, stage>> /\ [][IsOrganizationKept]_entry
  BY <1>1, EventAlways, PTL DEF Spec
<1> QED BY <1>2 DEF PlacesAreKept, ChangesAreAllowed, OrganizationKept, AreChangesAllowed, IsOrganizationKept
=============================================================================
