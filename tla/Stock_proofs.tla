----------------------------- MODULE Stock_proofs -----------------------------
(***************************************************************************)
(* Proofs about Stock, for every number of holds, codes, words, tickets    *)
(* and requests.                                                           *)
(***************************************************************************)
EXTENDS Stock, FiniteSetTheorems, TLAPS

-----------------------------------------------------------------------------
(* The inductive invariant.                                                *)

\* A hold that is to be inserted is not there, it takes its tickets from another
\* one, and one request inserts it.
Creators ==
    \A r \in Requests : req[r].kind = "create" =>
        /\ hold[req[r].hold] = Null
        /\ req[r].from # req[r].hold /\ req[r].row.parent # req[r].hold
        /\ \A s \in Requests :
              req[s].kind = "create" /\ req[s].hold = req[r].hold => s = r

\* The row that an update has locked is as it was read and is nobody else's;
\* unless the tickets of the hold were moved since, it has counted them.
Lockers ==
    \A r \in Requests : req[r].kind = "locked" =>
        /\ hold[req[r].hold] # Null /\ r \in hold[req[r].hold].readers
        /\ \A s \in Requests :
              req[s].kind = "locked" /\ req[s].hold = req[r].hold => s = r
        /\ req[r].clean => req[r].count = Cardinality(InHold(req[r].hold))

NotItsOwn == \A h \in Holds : hold[h] # Null => hold[h].parent # h

Wanted ==
    \A h \in Holds : wanted[h] # Null =>
        hold[h] # Null /\ Cardinality(InHold(h)) = wanted[h]

\* Rows are inserted one after the other, and a change of the capacity has
\* counted them unless another one has overtaken it.
Counted ==
    /\ Issued = 1 .. Cardinality(Issued)
    /\ \A r \in Requests : req[r].kind = "capacity" /\ req[r].clean =>
          req[r].valid = Cardinality(Valid) /\ req[r].count = Cardinality(Issued)

TokenOfRow == \A i \in Issued : ~ticket[i].raced => ticket[i].token = i - 1

Tallied ==
    /\ Creators /\ Lockers /\ NotItsOwn /\ HeldTicketsCanBeFound /\ Wanted
    /\ Counted /\ CapacityAsAsked /\ TokenOfRow

StockInv == TypeOK /\ Tallied

\* Request r is about to give a hold or a code the word w.
Claims(r, w) ==
    \/ req[r].kind \in {"create", "newcode"} /\ req[r].row.word = w
    \/ req[r].kind \in {"update", "locked", "code"} /\ req[r].set.word = w
OwnHolds(r) == IF req[r].kind \in {"update", "locked"} THEN {req[r].hold} ELSE {}
OwnCodes(r) == IF req[r].kind = "code" THEN {req[r].code} ELSE {}

OneClaim(w) == \A r, s \in Requests : Claims(r, w) /\ Claims(s, w) => r = s
FreeToUse(w) ==
    \A r \in Requests : Claims(r, w) =>
        HoldsNamed(w) \subseteq OwnHolds(r) /\ CodesNamed(w) \subseteq OwnCodes(r)
OneName(w) ==
    /\ \A g, h \in HoldsNamed(w) : g = h
    /\ \A c, d \in CodesNamed(w) : c = d
    /\ HoldsNamed(w) = {} \/ CodesNamed(w) = {}

Clear(w) == OneClaim(w) /\ FreeToUse(w) /\ OneName(w)

NameInv == \A w \in Words \ contested : Clear(w)

\* What a request is about to write says what the discount is, as long as the row
\* is as it was read.
Says(r) ==
    /\ req[r].kind \in {"create", "newcode"} =>
          /\ DiscountValid(req[r].row.kind, req[r].row.discount)
          /\ req[r].row.readers = {}
    /\ req[r].kind \in {"update", "locked"} =>
          LET row == hold[req[r].hold] IN
          row # Null /\ r \in row.readers =>
             DiscountValid(Changed(row, req[r].set).kind, Changed(row, req[r].set).discount)
    /\ req[r].kind = "code" =>
          LET row == code[req[r].code] IN
          row # Null /\ r \in row.readers =>
             DiscountValid(row.kind, Changed(row, req[r].set).discount)

DiscountInv == DiscountsGiven /\ \A r \in Requests : Says(r)

-----------------------------------------------------------------------------
(* The kinds of requests and of rows.                                      *)

ReqRows == {Idle, Done} \cup Creating \cup Updating \cup Destroying \cup Coding \cup Sizing

LEMMA KindsOf ==
    ASSUME NEW q \in ReqRows
    PROVE  /\ q.kind = "create" => q \in Creating
           /\ q.kind \in {"update", "locked"} => q \in Updating
           /\ q.kind = "destroy" => q \in Destroying
           /\ q.kind \in {"newcode", "code"} => q \in Coding
           /\ q.kind = "capacity" => q \in Sizing
           /\ q.kind \in {"idle", "done", "create", "update", "locked", "destroy",
                          "newcode", "code", "capacity"}
  BY DEF ReqRows, Idle, Done, Creating, Updating, Destroying, Coding, Sizing

LEMMA CreatingFields ==
    ASSUME NEW q \in Creating
    PROVE  /\ q.kind = "create" /\ q.hold \in Holds /\ q.from \in Holds \cup {Null}
           /\ q.row \in HoldRow /\ q.n \in Quantities
  BY DEF Creating

LEMMA UpdatingFields ==
    ASSUME NEW q \in Updating
    PROVE  /\ q.kind \in {"update", "locked"} /\ q.hold \in Holds /\ q.set \in HoldChange
           /\ q.n \in Quantities \cup {Null} /\ q.count \in Nat /\ q.clean \in BOOLEAN
  BY DEF Updating

LEMMA DestroyingFields ==
    ASSUME NEW q \in Destroying
    PROVE  q.kind = "destroy" /\ q.hold \in Holds /\ q.count \in Nat /\ q.clean \in BOOLEAN
  BY DEF Destroying

LEMMA CodingFields ==
    ASSUME NEW q \in Coding
    PROVE  /\ q.code \in Codes /\ q.kind \in {"newcode", "code"}
           /\ q.kind = "newcode" => q.row \in CodeRow
           /\ q.kind = "code" => q.set \in CodeChange
  BY DEF Coding

LEMMA SizingFields ==
    ASSUME NEW q \in Sizing
    PROVE  /\ q.kind = "capacity" /\ q.n \in Quantities
           /\ q.valid \in Nat /\ q.count \in Nat /\ q.clean \in BOOLEAN
  BY DEF Sizing

LEMMA HoldFields ==
    ASSUME NEW row \in HoldRow
    PROVE  /\ row # Null /\ row.word \in Words /\ row.parent \in Holds \cup {Null}
           /\ row.kind \in Kinds /\ row.discount \in BOOLEAN /\ row.readers \subseteq Requests
  BY RowAssumption DEF HoldRow

LEMMA CodeFields ==
    ASSUME NEW row \in CodeRow
    PROVE  /\ row # Null /\ row.word \in Words /\ row.kind \in {"Discount", "Access"}
           /\ row.discount \in BOOLEAN /\ row.types \subseteq Types
           /\ row.readers \subseteq Requests
  BY RowAssumption DEF CodeRow

LEMMA TicketFields ==
    ASSUME NEW row \in TicketRow
    PROVE  /\ row # Null /\ row.token \in Nat /\ row.hold \in Holds \cup {Null}
           /\ row.raced \in BOOLEAN /\ row.status \in {"Available", "Taken", "Lapsed", "Nullified"}
  BY RowAssumption DEF TicketRow

LEMMA ChangedHold ==
    ASSUME NEW row \in HoldRow, NEW set \in HoldChange
    PROVE  /\ Changed(row, set) \in HoldRow /\ Changed(row, set) # Null
           /\ Changed(row, set).parent = row.parent /\ Changed(row, set).readers = {}
           /\ Changed(row, set).word = IF set.word # Null THEN set.word ELSE row.word
           /\ Changed(row, set).kind = IF set.kind # Null THEN set.kind ELSE row.kind
           /\ Changed(row, set).discount =
                 IF set.discount # Null THEN set.discount ELSE row.discount
<1> DEFINE new == [word |-> IF set.word # Null THEN set.word ELSE row.word,
                   parent |-> row.parent,
                   kind |-> IF set.kind # Null THEN set.kind ELSE row.kind,
                   discount |-> IF set.discount # Null THEN set.discount ELSE row.discount,
                   readers |-> {}]
<1>1. DOMAIN row = {"word", "parent", "kind", "discount", "readers"}
  BY DEF HoldRow
<1>2. DOMAIN set = {"word", "kind", "discount"}
  BY DEF HoldChange
<1>3. Changed(row, set) = new
  BY <1>1, <1>2 DEF Changed
<1>4. new \in HoldRow
  BY DEF HoldRow, HoldChange
<1> QED BY <1>3, <1>4, HoldFields

LEMMA ChangedCode ==
    ASSUME NEW row \in CodeRow, NEW set \in CodeChange
    PROVE  /\ Changed(row, set) \in CodeRow /\ Changed(row, set) # Null
           /\ Changed(row, set).kind = row.kind /\ Changed(row, set).readers = {}
           /\ Changed(row, set).word = IF set.word # Null THEN set.word ELSE row.word
           /\ Changed(row, set).discount =
                 IF set.discount # Null THEN set.discount ELSE row.discount
<1> DEFINE new == [word |-> IF set.word # Null THEN set.word ELSE row.word,
                   kind |-> row.kind,
                   discount |-> IF set.discount # Null THEN set.discount ELSE row.discount,
                   types |-> IF set.types # Null THEN set.types ELSE row.types,
                   readers |-> {}]
<1>1. DOMAIN row = {"word", "kind", "discount", "types", "readers"}
  BY DEF CodeRow
<1>2. DOMAIN set = {"word", "discount", "types"}
  BY DEF CodeChange
<1>3. Changed(row, set) = new
  BY <1>1, <1>2 DEF Changed
<1>4. new \in CodeRow
  BY DEF CodeRow, CodeChange
<1> QED BY <1>3, <1>4, CodeFields

\* A request that no longer knows is otherwise as it was.
LEMMA OvertakenKeeps ==
    ASSUME req \in [Requests -> ReqRows], NEW hs, NEW capacity \in BOOLEAN, NEW s \in Requests
    PROVE  LET q == Overtaken(hs, capacity)[s]
           IN  /\ q \in ReqRows /\ q.kind = req[s].kind
               /\ q.kind \notin {"locked", "destroy", "capacity"} => q = req[s]
               /\ q.kind \in {"locked", "destroy"} =>
                     q.hold = req[s].hold /\ q.count = req[s].count
               /\ q.kind = "locked" => q.set = req[s].set /\ q.n = req[s].n
               /\ q.kind = "locked" /\ q.clean => req[s].clean /\ req[s].hold \notin hs
               /\ q.kind = "capacity" =>
                     q.valid = req[s].valid /\ q.count = req[s].count /\ q.n = req[s].n
               /\ q.kind = "capacity" /\ q.clean => req[s].clean /\ ~capacity
<1> DEFINE p == req[s]
           late == [p EXCEPT !.clean = FALSE]
           Hit == \/ p.kind \in {"locked", "destroy"} /\ p.hold \in hs
                  \/ p.kind = "capacity" /\ capacity
<1>1. Overtaken(hs, capacity)[s] = IF Hit THEN late ELSE p
  BY DEF Overtaken
<1>2. p \in ReqRows
  OBVIOUS
<1>3. p.kind = "locked" => /\ late \in Updating /\ ~late.clean /\ late.kind = "locked"
                           /\ late.hold = p.hold /\ late.count = p.count
                           /\ late.set = p.set /\ late.n = p.n
  BY <1>2, KindsOf, ZenonT(40) DEF Updating
<1>4. p.kind = "destroy" => /\ late \in Destroying /\ late.kind = "destroy"
                            /\ late.hold = p.hold /\ late.count = p.count
  BY <1>2, KindsOf DEF Destroying
<1>5. p.kind = "capacity" => /\ late \in Sizing /\ ~late.clean /\ late.kind = "capacity"
                             /\ late.valid = p.valid /\ late.count = p.count /\ late.n = p.n
  BY <1>2, KindsOf DEF Sizing
<1>6. CASE ~Hit
  BY <1>1, <1>2, <1>6
<1>7. CASE Hit
  <2>1. Overtaken(hs, capacity)[s] = late /\ p.kind \in {"locked", "destroy", "capacity"}
    BY <1>1, <1>7
  <2>2. late \in ReqRows
    BY <2>1, <1>3, <1>4, <1>5 DEF ReqRows
  <2> HIDE DEF late
  <2> QED BY <1>3, <1>4, <1>5, <2>1, <2>2
<1> QED BY <1>6, <1>7

-----------------------------------------------------------------------------
(* Types.  That the tickets a hold should have are a natural number follows  *)
(* from their being those it has.                                          *)

Typed ==
    /\ ticket \in [Rows -> TicketRow \cup {Null}]
    /\ hold \in [Holds -> HoldRow \cup {Null}]
    /\ code \in [Codes -> CodeRow \cup {Null}]
    /\ ordered \subseteq Holds
    /\ req \in [Requests -> ReqRows]
    /\ wanted \in [Holds -> Int \cup {Null}]
    /\ asked \in [target : Nat \cup {Null}, revived : Nat]
    /\ contested \subseteq Words

LEMMA TypesAre == TypeOK => Typed
  BY DEF TypeOK, Typed, ReqRows

LEMMA TypedState ==
    ASSUME Typed
    PROVE  /\ \A s \in Requests : req[s] \in ReqRows
           /\ \A h \in Holds : hold[h] # Null => hold[h] \in HoldRow
           /\ \A c \in Codes : code[c] # Null => code[c] \in CodeRow
           /\ \A i \in Issued : i \in Rows /\ ticket[i] \in TicketRow
           /\ \A h : InHold(h) \subseteq Issued /\ Takeable(h) \subseteq InHold(h)
                     /\ Droppable(h) \subseteq InHold(h)
           /\ Valid \subseteq Issued /\ Nullifiable \subseteq Valid
  BY NullAssumption DEF Typed, Issued, InHold, Takeable, Droppable, Valid, Nullifiable

LEMMA RowsAreFinite ==
    ASSUME NEW S, S \subseteq Rows
    PROVE  IsFiniteSet(S) /\ Cardinality(S) \in Nat
<1>1. IsFiniteSet(Rows)
  BY FS_Interval, NumberAssumption DEF Rows
<1>2. IsFiniteSet(S)
  BY <1>1, FS_Subset
<1> QED BY <1>2, FS_CardinalityType

LEMMA EndedTyped ==
    ASSUME req \in [Requests -> ReqRows], NEW r \in Requests, NEW hs, NEW capacity \in BOOLEAN
    PROVE  /\ Ended(r, hs, capacity) \in [Requests -> ReqRows]
           /\ Ended(r, hs, capacity)[r] = Done
           /\ \A s \in Requests \ {r} : Ended(r, hs, capacity)[s] = Overtaken(hs, capacity)[s]
<1>1. Overtaken(hs, capacity) \in [Requests -> ReqRows]
  <2>1. \A s \in Requests : Overtaken(hs, capacity)[s] \in ReqRows
    BY OvertakenKeeps
  <2>2. DOMAIN Overtaken(hs, capacity) = Requests /\ Overtaken(hs, capacity)
           = [s \in DOMAIN Overtaken(hs, capacity) |-> Overtaken(hs, capacity)[s]]
    BY DEF Overtaken
  <2> QED BY <2>1, <2>2
<1>2. Done \in ReqRows
  BY DEF ReqRows
<1> QED BY <1>1, <1>2 DEF Ended

LEMMA MoveTyped ==
    ASSUME Typed, NEW T, T \subseteq Issued, NEW to \in Holds \cup {Null}
    PROVE  Move(T, to) \in [Rows -> TicketRow \cup {Null}]
<1>1. \A i \in T : [ticket[i] EXCEPT !.hold = to] \in TicketRow
  <2> SUFFICES ASSUME NEW i \in T
               PROVE  [ticket[i] EXCEPT !.hold = to] \in TicketRow
    OBVIOUS
  <2>1. ticket[i] \in TicketRow
    BY TypedState
  <2> QED BY <2>1 DEF TicketRow
<1> QED BY <1>1 DEF Move, Typed

LEMMA MovedByTyped ==
    ASSUME Typed, NEW h \in Holds \cup {Null}, NEW n \in Int
    PROVE  MovedBy(h, n) \in Int \cup {Null}
  BY DEF MovedBy, Typed

LEMMA RequantifiedTyped ==
    ASSUME Typed, NEW h \in Holds, hold[h] # Null, NEW count \in Nat, NEW n \in Nat
    PROVE  LET m == Requantified(h, count, n)
           IN  /\ m.from \subseteq Issued /\ m.to \in Holds \cup {Null}
  BY TypedState, HoldFields DEF Requantified

LEMMA ClaimTyped ==
    ASSUME Typed, NEW w \in Words \cup {Null}, Claim(w)
    PROVE  contested' \subseteq Words
  BY DEF Typed, Claim

LEMMA CustomerTyped ==
    ASSUME Typed, CustomerStep
    PROVE  Typed'
<1>1. PICK i \in Rows : Lapse(i) \/ Return(i) \/ \E h \in Holds \cup {Null} : Take(i, h)
  BY DEF CustomerStep
<1>2. UNCHANGED <<hold, code, wanted, contested>>
  BY <1>1 DEF Lapse, Return, Take
<1>3. i \in Issued
  BY <1>1 DEF Lapse, Return, Take, Takeable, InHold
<1>4. \A status \in {"Available", "Taken", "Lapsed"} :
         [ticket[i] EXCEPT !.status = status] \in TicketRow
  BY <1>3, TypedState DEF TicketRow
<1>5. ticket' \in [Rows -> TicketRow \cup {Null}]
  BY <1>1, <1>3, <1>4 DEF Typed, Lapse, Return, Take
<1>6. ordered' \subseteq Holds
  BY <1>1 DEF Typed, Lapse, Return, Take
<1>7. asked' \in [target : Nat \cup {Null}, revived : Nat]
  BY <1>1 DEF Typed, Lapse, Return, Take
<1>8. req' \in [Requests -> ReqRows]
  <2>1. CASE Lapse(i) \/ Return(i)
    BY <2>1 DEF Typed, Lapse, Return
  <2>2. CASE \E h \in Holds \cup {Null} : Take(i, h)
    <3>1. PICK c : c = (ticket[i].status = "Nullified")
      OBVIOUS
    <3>2. c \in BOOLEAN /\ req' = Overtaken({}, c)
      BY <2>2, <3>1 DEF Take
    <3>3. \A s \in Requests : Overtaken({}, c)[s] \in ReqRows
      BY <3>2, OvertakenKeeps DEF Typed
    <3> QED BY <3>2, <3>3 DEF Overtaken
  <2> QED BY <1>1, <2>1, <2>2
<1> QED BY <1>2, <1>5, <1>6, <1>7, <1>8 DEF Typed

-----------------------------------------------------------------------------
\* The request that inserts a hold has validated the row and is still to insert it.
Starts(r, h, from, row, n) ==
    /\ req[r] = Idle /\ hold[h] = Null
    /\ \A q \in Requests : req[q].kind = "create" => req[q].hold # h
    /\ from # Null => hold[from] # Null
    /\ row \in HoldRow /\ row.readers = {}
    /\ row.parent \in {Null, from} \cup (IF from = Null THEN {} ELSE {hold[from].parent})
    /\ DiscountValid(row.kind, row.discount)
    /\ UniqueCode(row.word, {}, {})
    /\ req' = [req EXCEPT ![r] = [kind |-> "create", hold |-> h, from |-> from, row |-> row, n |-> n]]
    /\ Claim(row.word)
    /\ UNCHANGED <<ticket, hold, code, ordered, wanted, asked>>

LEMMA StartsAre ==
    ASSUME Typed, NEW r \in Requests, NEW h \in Holds,
           NEW from \in Holds \cup {Null}, from # Null => hold[from] # Null,
           NEW parent \in Holds \cup {Null},
           parent \in {Null, from} \cup (IF from = Null THEN {} ELSE {hold[from].parent}),
           NEW w \in Words, NEW kind \in Kinds, NEW discount \in BOOLEAN, NEW n \in Quantities,
           StartHold(r, h, from, parent, w, kind, discount, n)
    PROVE  \E row : Starts(r, h, from, row, n)
<1>1. PICK row : row = [word |-> Upper[w], parent |-> parent, kind |-> kind,
                        discount |-> discount /\ kind # "Comp", readers |-> {}]
  OBVIOUS
<1>2. Upper[w] \in Words
  BY WordAssumption
<1>3. row \in HoldRow /\ row.readers = {} /\ row.parent = parent /\ row.word = Upper[w]
      /\ row.kind = kind /\ row.discount = (discount /\ kind # "Comp")
  BY <1>1, <1>2 DEF HoldRow
<1>4. DiscountValid(row.kind, row.discount)
  BY <1>3 DEF StartHold, DiscountValid, Kinds
<1>5. /\ req[r] = Idle /\ hold[h] = Null
      /\ \A q \in Requests : req[q].kind = "create" => req[q].hold # h
      /\ UniqueCode(row.word, {}, {}) /\ Claim(row.word)
      /\ req' = [req EXCEPT ![r] = [kind |-> "create", hold |-> h, from |-> from, row |-> row, n |-> n]]
      /\ UNCHANGED <<ticket, hold, code, ordered, wanted, asked>>
  BY <1>1, <1>3 DEF StartHold
<1> QED BY <1>3, <1>4, <1>5 DEF Starts

\* What an organizer's request about a hold may begin with.
LEMMA HoldSteps ==
    ASSUME Typed, HoldStep
    PROVE  \E r \in Requests, h \in Holds :
              \/ \E from \in Holds \cup {Null}, n \in Quantities : \E row : Starts(r, h, from, row, n)
              \/ \E w \in Words \cup {Null}, kind \in Kinds, discount \in BOOLEAN \cup {Null},
                    n \in Quantities \cup {Null} : StartUpdate(r, h, w, kind, discount, n)
              \/ StartDestroy(r, h)
<1>1. PICK r \in Organizers, h \in Holds :
        \/ \E w \in Words, n \in Quantities \ {0} :
            \/ \E kind \in Kinds, discount \in BOOLEAN : CreateHold(r, h, w, kind, discount, n)
            \/ \E p \in Holds : CreateComp(r, h, p, w, n)
            \/ \E p \in Holds, kind \in Kinds, discount \in BOOLEAN :
                Split(r, h, p, w, kind, discount, n)
        \/ \E w \in Words, kind \in Kinds, discount \in BOOLEAN, n \in Quantities \cup {Null} :
            /\ hold[h] # Null
            /\ StartUpdate(r, h, Unless(w, hold[h].word), kind,
                           Unless(discount, hold[h].discount), n)
        \/ StartDestroy(r, h)
  BY DEF HoldStep
<1>2. r \in Requests
  BY RequestAssumption
<1>3. ASSUME NEW w \in Words, NEW n \in Quantities \ {0}, NEW kind \in Kinds, NEW discount \in BOOLEAN,
             CreateHold(r, h, w, kind, discount, n)
      PROVE  \E row : Starts(r, h, Null, row, n)
  BY <1>2, <1>3, StartsAre DEF CreateHold
<1>4. ASSUME NEW w \in Words, NEW n \in Quantities \ {0}, NEW p \in Holds, CreateComp(r, h, p, w, n)
      PROVE  \E row : Starts(r, h, p, row, n)
  <2>1. hold[p] # Null /\ StartHold(r, h, p, p, w, "Comp", FALSE, n) /\ "Comp" \in Kinds
    BY <1>4 DEF CreateComp, Kinds
  <2> QED BY <1>2, <2>1, StartsAre
<1>5. ASSUME NEW w \in Words, NEW n \in Quantities \ {0}, NEW p \in Holds, NEW kind \in Kinds,
             NEW discount \in BOOLEAN, Split(r, h, p, w, kind, discount, n)
      PROVE  \E row : Starts(r, h, p, row, n)
  <2>1. hold[p] # Null /\ StartHold(r, h, p, hold[p].parent, w, kind, discount, n)
    BY <1>5 DEF Split
  <2>2. hold[p].parent \in Holds \cup {Null} /\ p # Null
    BY <2>1, TypedState, HoldFields, NullAssumption
  <2> QED BY <1>2, <2>1, <2>2, StartsAre
<1>6. ASSUME NEW w, NEW v
      PROVE  Unless(w, v) \in {w, Null}
  BY DEF Unless
<1>7. CASE \E w \in Words, n \in Quantities \ {0} :
            \/ \E kind \in Kinds, discount \in BOOLEAN : CreateHold(r, h, w, kind, discount, n)
            \/ \E p \in Holds : CreateComp(r, h, p, w, n)
            \/ \E p \in Holds, kind \in Kinds, discount \in BOOLEAN :
                Split(r, h, p, w, kind, discount, n)
  <2>1. \E from \in Holds \cup {Null}, n \in Quantities : \E row : Starts(r, h, from, row, n)
    BY <1>3, <1>4, <1>5, <1>7
  <2> QED BY <1>2, <2>1
<1>8. CASE \E w \in Words, kind \in Kinds, discount \in BOOLEAN, n \in Quantities \cup {Null} :
            /\ hold[h] # Null
            /\ StartUpdate(r, h, Unless(w, hold[h].word), kind,
                           Unless(discount, hold[h].discount), n)
  <2>1. \E w \in Words \cup {Null}, kind \in Kinds, discount \in BOOLEAN \cup {Null},
                    n \in Quantities \cup {Null} : StartUpdate(r, h, w, kind, discount, n)
    BY <1>6, <1>8
  <2> QED BY <1>2, <2>1
<1> QED BY <1>1, <1>2, <1>7, <1>8

LEMMA HoldStepTyped ==
    ASSUME Typed, HoldStep
    PROVE  Typed'
<1>1. PICK r \in Requests, h \in Holds :
              \/ \E from \in Holds \cup {Null}, n \in Quantities : \E row : Starts(r, h, from, row, n)
              \/ \E w \in Words \cup {Null}, kind \in Kinds, discount \in BOOLEAN \cup {Null},
                    n \in Quantities \cup {Null} : StartUpdate(r, h, w, kind, discount, n)
              \/ StartDestroy(r, h)
  BY HoldSteps
<1>2. CASE \E from \in Holds \cup {Null}, n \in Quantities : \E row : Starts(r, h, from, row, n)
  <2>1. PICK from \in Holds \cup {Null}, n \in Quantities : \E row : Starts(r, h, from, row, n)
    BY <1>2
  <2>2. PICK row : Starts(r, h, from, row, n)
    BY <2>1
  <2>3. row \in HoldRow /\ contested' \subseteq Words
    BY <2>2, ClaimTyped, HoldFields DEF Starts
  <2>4. [kind |-> "create", hold |-> h, from |-> from, row |-> row, n |-> n] \in ReqRows
    BY <2>3 DEF ReqRows, Creating
  <2> QED BY <2>2, <2>3, <2>4 DEF Typed, Starts
<1>3. CASE \E w \in Words \cup {Null}, kind \in Kinds, discount \in BOOLEAN \cup {Null},
              n \in Quantities \cup {Null} : StartUpdate(r, h, w, kind, discount, n)
  <2>1. PICK w \in Words \cup {Null}, kind \in Kinds, discount \in BOOLEAN \cup {Null},
              n \in Quantities \cup {Null} : StartUpdate(r, h, w, kind, discount, n)
    BY <1>3
  <2>2. PICK set : set = [word |-> w, kind |-> kind,
                          discount |-> IF kind = "Comp" THEN FALSE ELSE discount]
    OBVIOUS
  <2>3. set \in HoldChange
    BY <2>2 DEF HoldChange
  <2>4. [kind |-> "update", hold |-> h, set |-> set, n |-> n, count |-> 0, clean |-> TRUE] \in ReqRows
    BY <2>3 DEF ReqRows, Updating
  <2>5. /\ hold[h] # Null
        /\ hold' = [hold EXCEPT ![h].readers = @ \cup {r}]
        /\ req' = [req EXCEPT ![r] = [kind |-> "update", hold |-> h, set |-> set, n |-> n,
                                      count |-> 0, clean |-> TRUE]]
        /\ Claim(w)
        /\ UNCHANGED <<ticket, code, ordered, wanted, asked>>
    BY <2>1, <2>2 DEF StartUpdate
  <2>6. [hold[h] EXCEPT !.readers = @ \cup {r}] \in HoldRow
    BY <2>5, TypedState DEF HoldRow
  <2>7. contested' \subseteq Words
    BY <2>5, ClaimTyped
  <2> QED BY <2>4, <2>5, <2>6, <2>7 DEF Typed
<1>4. CASE StartDestroy(r, h)
  <2>1. Cardinality(InHold(h)) \in Nat
    BY TypedState, RowsAreFinite
  <2>2. [kind |-> "destroy", hold |-> h, clean |-> TRUE, count |-> Cardinality(InHold(h))] \in ReqRows
    BY <2>1 DEF ReqRows, Destroying
  <2> QED BY <1>4, <2>2 DEF Typed, StartDestroy
<1> QED BY <1>1, <1>2, <1>3, <1>4

LEMMA QuantitiesAreNat == \A n \in Quantities : n \in Nat /\ n \in Int /\ 0 - n \in Int
<1>1. Quantities \subseteq Nat
  BY NumberAssumption
<1> QED BY <1>1

LEMMA FinishHoldTyped ==
    ASSUME Typed, NEW r \in Requests, FinishHold(r)
    PROVE  Typed'
<1>1. PICK q : q = req[r]
  OBVIOUS
<1>2. q \in Creating
  BY <1>1, TypedState, KindsOf DEF FinishHold
<1>3. PICK T \in SUBSET Takeable(q.from) :
         Cardinality(T) = q.n /\ ticket' = Move(T, q.hold)
  BY <1>1 DEF FinishHold
<1>4. ticket' \in [Rows -> TicketRow \cup {Null}]
  BY <1>2, <1>3, TypedState, MoveTyped, CreatingFields
<1>5. /\ hold' = [hold EXCEPT ![q.hold] = q.row]
      /\ wanted' = [h \in Holds |-> IF h = q.hold THEN q.n
                                    ELSE IF h = q.from THEN MovedBy(h, 0 - q.n) ELSE wanted[h]]
      /\ req' = Ended(r, IF q.n = 0 THEN {} ELSE {q.from}, FALSE)
      /\ UNCHANGED <<code, ordered, asked, contested>>
  BY <1>1 DEF FinishHold
<1>6. q.n \in Int /\ 0 - q.n \in Int
  BY <1>2, CreatingFields, QuantitiesAreNat
<1>7. \A h \in Holds : MovedBy(h, 0 - q.n) \in Int \cup {Null}
  BY <1>6, MovedByTyped
<1>8. wanted' \in [Holds -> Int \cup {Null}]
  BY <1>5, <1>6, <1>7 DEF Typed
<1>9. req' \in [Requests -> ReqRows]
  BY <1>5, EndedTyped DEF Typed
<1> QED BY <1>2, <1>4, <1>5, <1>8, <1>9, CreatingFields DEF Typed

LEMMA LockHoldTyped ==
    ASSUME Typed, NEW r \in Requests, LockHold(r)
    PROVE  Typed'
<1>1. PICK q : q = req[r]
  OBVIOUS
<1>2. q \in Updating
  BY <1>1, TypedState, KindsOf DEF LockHold
<1>3. Cardinality(InHold(q.hold)) \in Nat
  BY TypedState, RowsAreFinite
<1>4. [q EXCEPT !.kind = "locked", !.count = Cardinality(InHold(q.hold))] \in ReqRows
  BY <1>2, <1>3 DEF ReqRows, Updating
<1> QED BY <1>1, <1>4 DEF Typed, LockHold

\* What a request that has locked its hold does at the end.
LEMMA FinishUpdateIs ==
    ASSUME Typed, NEW r \in Requests, FinishUpdate(r), hold[req[r].hold] # Null
    PROVE  LET q == req[r]
               p == hold[q.hold].parent
           IN  /\ q \in Updating /\ hold[q.hold] \in HoldRow
               /\ HoldsNamed(q.set.word) \subseteq {q.hold}
               /\ hold' = [hold EXCEPT ![q.hold] = Changed(hold[q.hold], q.set)]
               /\ \/ /\ q.n = Null /\ UNCHANGED <<ticket, wanted>>
                     /\ req' = [req EXCEPT ![r] = Done]
                  \/ /\ q.n \in Nat
                     /\ \E T \in SUBSET Requantified(q.hold, q.count, q.n).from :
                           /\ Cardinality(T) = Requantified(q.hold, q.count, q.n).n
                           /\ ticket' = Move(T, Requantified(q.hold, q.count, q.n).to)
                     /\ wanted' = [h \in Holds |->
                                    IF h = q.hold THEN (IF q.clean THEN q.n ELSE Null)
                                    ELSE IF h = p THEN MovedBy(p, q.count - q.n)
                                    ELSE wanted[h]]
                     /\ req' = Ended(r, IF q.count = q.n THEN {} ELSE {q.hold, p}, FALSE)
               /\ UNCHANGED <<code, ordered, asked, contested>>
<1> DEFINE q == req[r]
           p == hold[q.hold].parent
<1>1. q.kind = "locked"
  BY DEF FinishUpdate
<1>2. q \in Updating
  BY <1>1, TypedState, KindsOf
<1>3. q.hold \in Holds /\ q.n \in Quantities \cup {Null}
  BY <1>2, UpdatingFields
<1>4. hold[q.hold] \in HoldRow
  BY <1>3, TypedState
<1>5. q.n # Null => q.n \in Nat
  BY <1>3, QuantitiesAreNat
<1> QED
  BY <1>2, <1>4, <1>5 DEF FinishUpdate, SetQuantity

LEMMA FinishUpdateTyped ==
    ASSUME Typed, NEW r \in Requests, FinishUpdate(r), hold[req[r].hold] # Null
    PROVE  Typed'
<1>1. PICK q : q = req[r]
  OBVIOUS
<1>2. PICK p : p = hold[q.hold].parent
  OBVIOUS
<1>3. q \in Updating /\ hold[q.hold] \in HoldRow /\ UNCHANGED <<code, ordered, asked, contested>>
      /\ hold' = [hold EXCEPT ![q.hold] = Changed(hold[q.hold], q.set)]
  BY <1>1, FinishUpdateIs
<1>4. p \in Holds \cup {Null} /\ Changed(hold[q.hold], q.set) \in HoldRow /\ q.hold \in Holds
      /\ q.count \in Nat
  BY <1>2, <1>3, HoldFields, UpdatingFields, ChangedHold
<1>5. CASE UNCHANGED <<ticket, wanted>> /\ req' = [req EXCEPT ![r] = Done]
  <2>1. Done \in ReqRows
    BY DEF ReqRows
  <2> QED BY <1>3, <1>4, <1>5, <2>1 DEF Typed
<1>6. CASE /\ q.n \in Nat
           /\ \E T \in SUBSET Requantified(q.hold, q.count, q.n).from :
                 /\ Cardinality(T) = Requantified(q.hold, q.count, q.n).n
                 /\ ticket' = Move(T, Requantified(q.hold, q.count, q.n).to)
           /\ wanted' = [h \in Holds |->
                                IF h = q.hold THEN (IF q.clean THEN q.n ELSE Null)
                                ELSE IF h = p THEN MovedBy(p, q.count - q.n)
                                ELSE wanted[h]]
           /\ req' = Ended(r, IF q.count = q.n THEN {} ELSE {q.hold, p}, FALSE)
  <2>1. PICK m : m = Requantified(q.hold, q.count, q.n)
    OBVIOUS
  <2>2. m.from \subseteq Issued /\ m.to \in Holds \cup {Null}
    BY <1>1, <1>4, <1>6, <2>1, RequantifiedTyped
  <2>3. ticket' \in [Rows -> TicketRow \cup {Null}]
    <3>1. PICK T \in SUBSET m.from : ticket' = Move(T, m.to)
      BY <1>6, <2>1
    <3> QED BY <2>2, <3>1, MoveTyped
  <2>4. MovedBy(p, q.count - q.n) \in Int \cup {Null}
    BY <1>4, <1>6, MovedByTyped
  <2>5. wanted' \in [Holds -> Int \cup {Null}]
    BY <1>6, <2>4 DEF Typed
  <2>6. req' \in [Requests -> ReqRows]
    BY <1>6, EndedTyped DEF Typed
  <2> QED BY <1>3, <1>4, <2>3, <2>5, <2>6 DEF Typed
<1> QED BY <1>1, <1>2, <1>5, <1>6, FinishUpdateIs

LEMMA FinishDestroyIs ==
    ASSUME Typed, NEW r \in Requests, FinishDestroy(r)
    PROVE  LET q == req[r]
               p == hold[q.hold].parent
           IN  /\ q \in Destroying /\ ~Locked(q.hold) /\ hold[q.hold] \in HoldRow
               /\ \E T \in SUBSET InHold(q.hold) :
                     /\ Cardinality(T) = q.count /\ Deletable(q.hold, T)
                     /\ \A i \in T : ticket[i].status # "Taken"
                     /\ ticket' = Move(T, p)
               /\ hold' = [hold EXCEPT ![q.hold] = Null]
               /\ wanted' = [g \in Holds |-> IF g = q.hold THEN Null
                                             ELSE IF g = p THEN MovedBy(g, q.count)
                                             ELSE wanted[g]]
               /\ req' = Ended(r, IF q.count = 0 THEN {} ELSE {q.hold, p}, FALSE)
               /\ UNCHANGED <<code, ordered, asked, contested>>
<1> DEFINE q == req[r]
           p == hold[q.hold].parent
<1>1. q.kind = "destroy" /\ hold[q.hold] # Null /\ ~Locked(q.hold)
  BY DEF FinishDestroy
<1>2. q \in Destroying
  BY <1>1, TypedState, KindsOf
<1>3. q.hold \in Holds /\ q.count \in Nat
  BY <1>2, DestroyingFields
<1>4. hold[q.hold] \in HoldRow
  BY <1>1, <1>3, TypedState
<1>5. PICK m : m = Requantified(q.hold, q.count, 0)
  OBVIOUS
<1>6. PICK T \in SUBSET m.from :
         /\ Cardinality(T) = q.count /\ Deletable(q.hold, T)
         /\ ticket' = IF q.count = 0 THEN ticket ELSE Move(T, m.to)
  BY <1>5 DEF FinishDestroy
<1>7. ~(q.count < 0) /\ q.count - 0 = q.count
  BY <1>3
<1>8. m.to = p /\ m.from \subseteq InHold(q.hold)
      /\ \A i \in m.from : ticket[i].status # "Taken"
  BY <1>5, <1>7, TypedState DEF Requantified, Takeable, Droppable
<1>9. ticket' = Move(T, m.to)
  <2>1. CASE q.count = 0
    <3>1. T = {}
      BY <1>6, <1>8, <2>1, TypedState, RowsAreFinite, FS_EmptySet, FS_Subset
    <3> QED BY <1>6, <2>1, <3>1 DEF Move, Typed
  <2> QED BY <1>6, <2>1
<1> QED
  BY <1>1, <1>2, <1>4, <1>6, <1>8, <1>9 DEF FinishDestroy

LEMMA FinishDestroyTyped ==
    ASSUME Typed, NEW r \in Requests, FinishDestroy(r)
    PROVE  Typed'
<1>1. PICK q : q = req[r]
  OBVIOUS
<1>2. PICK p : p = hold[q.hold].parent
  OBVIOUS
<1>3. /\ q \in Destroying /\ hold[q.hold] \in HoldRow
      /\ \E T \in SUBSET InHold(q.hold) : ticket' = Move(T, p)
      /\ hold' = [hold EXCEPT ![q.hold] = Null]
      /\ wanted' = [g \in Holds |-> IF g = q.hold THEN Null
                                    ELSE IF g = p THEN MovedBy(g, q.count)
                                    ELSE wanted[g]]
      /\ req' = Ended(r, IF q.count = 0 THEN {} ELSE {q.hold, p}, FALSE)
      /\ UNCHANGED <<code, ordered, asked, contested>>
  BY <1>1, <1>2, FinishDestroyIs
<1>4. p \in Holds \cup {Null} /\ q.hold \in Holds /\ q.count \in Int
  BY <1>2, <1>3, HoldFields, DestroyingFields
<1>5. ticket' \in [Rows -> TicketRow \cup {Null}]
  BY <1>3, <1>4, TypedState, MoveTyped
<1>6. \A g \in Holds : MovedBy(g, q.count) \in Int \cup {Null}
  BY <1>4, MovedByTyped
<1>7. wanted' \in [Holds -> Int \cup {Null}]
  BY <1>3, <1>6 DEF Typed
<1>8. req' \in [Requests -> ReqRows]
  BY <1>3, EndedTyped DEF Typed
<1> QED BY <1>3, <1>5, <1>7, <1>8 DEF Typed

LEMMA CodesOnly ==
    ASSUME CodeStep \/ CodeEnd
    PROVE  UNCHANGED <<ticket, hold, ordered, wanted, asked>>
<1>1. CASE CodeStep
  <2>1. \A c, r, w, discount, ts : StartCodeUpdate(r, c, w, discount, ts) =>
           UNCHANGED <<ticket, hold, ordered, wanted, asked>>
    BY DEF StartCodeUpdate
  <2>2. \A c, r, w, kind, discount, ts : StartCode(r, c, w, kind, discount, ts) =>
           UNCHANGED <<ticket, hold, ordered, wanted, asked>>
    BY DEF StartCode
  <2>3. \A c : DestroyCode(c) => UNCHANGED <<ticket, hold, ordered, wanted, asked>>
    BY DEF DestroyCode
  <2> QED BY <1>1, <2>1, <2>2, <2>3 DEF CodeStep
<1>2. CASE CodeEnd
  BY <1>2 DEF CodeEnd, FinishCode, FinishCodeUpdate
<1> QED BY <1>1, <1>2

LEMMA CodesTyped ==
    ASSUME Typed, CodeStep \/ CodeEnd
    PROVE  Typed'
<1>1. UNCHANGED <<ticket, hold, ordered, wanted, asked>>
  BY CodesOnly
<1>2. Done \in ReqRows
  BY DEF ReqRows
<1>3. SUFFICES /\ code' \in [Codes -> CodeRow \cup {Null}] /\ req' \in [Requests -> ReqRows]
               /\ contested' \subseteq Words
  BY <1>1 DEF Typed
<1>4. ASSUME NEW c \in Codes, DestroyCode(c)
      PROVE  /\ code' \in [Codes -> CodeRow \cup {Null}] /\ req' \in [Requests -> ReqRows]
             /\ contested' \subseteq Words
  BY <1>4 DEF Typed, DestroyCode
<1>5. ASSUME NEW c \in Codes, NEW r \in Requests, NEW w \in Words, NEW kind \in {"Discount", "Access"},
             NEW discount \in BOOLEAN, NEW ts \in SUBSET Types, StartCode(r, c, w, kind, discount, ts)
      PROVE  /\ code' \in [Codes -> CodeRow \cup {Null}] /\ req' \in [Requests -> ReqRows]
             /\ contested' \subseteq Words
  <2>1. [word |-> w, kind |-> kind, discount |-> discount, types |-> ts, readers |-> {}] \in CodeRow
    BY DEF CodeRow
  <2>2. [kind |-> "newcode", code |-> c,
         row |-> [word |-> w, kind |-> kind, discount |-> discount, types |-> ts,
                          readers |-> {}]] \in ReqRows
    BY <2>1 DEF ReqRows, Coding
  <2>3. contested' \subseteq Words
    BY <1>5, ClaimTyped DEF StartCode
  <2> QED BY <1>5, <2>2, <2>3 DEF Typed, StartCode
<1>6. ASSUME NEW c \in Codes, NEW r \in Requests, NEW w \in Words \cup {Null},
             NEW discount \in BOOLEAN \cup {Null}, NEW ts \in (SUBSET Types) \cup {Null},
             StartCodeUpdate(r, c, w, discount, ts)
      PROVE  /\ code' \in [Codes -> CodeRow \cup {Null}] /\ req' \in [Requests -> ReqRows]
             /\ contested' \subseteq Words
  <2>1. [word |-> w, discount |-> discount, types |-> ts] \in CodeChange
    BY DEF CodeChange
  <2>2. [kind |-> "code", code |-> c, set |-> [word |-> w, discount |-> discount, types |-> ts]]
           \in ReqRows
    BY <2>1 DEF ReqRows, Coding
  <2>3. contested' \subseteq Words
    BY <1>6, ClaimTyped DEF StartCodeUpdate
  <2>4. code[c] \in CodeRow
    BY <1>6, TypedState DEF StartCodeUpdate
  <2>5. [code[c] EXCEPT !.readers = @ \cup {r}] \in CodeRow
    BY <2>4 DEF CodeRow
  <2> QED BY <1>6, <2>2, <2>3, <2>5 DEF Typed, StartCodeUpdate
<1>7. ASSUME NEW r \in Requests, FinishCode(r)
      PROVE  /\ code' \in [Codes -> CodeRow \cup {Null}] /\ req' \in [Requests -> ReqRows]
             /\ contested' \subseteq Words
  <2>1. req[r] \in Coding /\ req[r].kind = "newcode"
    BY <1>7, TypedState, KindsOf DEF FinishCode
  <2> QED BY <1>2, <1>7, <2>1, CodingFields DEF Typed, FinishCode
<1>8. ASSUME NEW r \in Requests, FinishCodeUpdate(r)
      PROVE  /\ code' \in [Codes -> CodeRow \cup {Null}] /\ req' \in [Requests -> ReqRows]
             /\ contested' \subseteq Words
  <2>1. req[r] \in Coding /\ req[r].kind = "code"
    BY <1>8, TypedState, KindsOf DEF FinishCodeUpdate
  <2>2. req[r].code \in Codes /\ req[r].set \in CodeChange
    BY <2>1, CodingFields
  <2>3. code[req[r].code] \in CodeRow
    BY <1>8, <2>2, TypedState DEF FinishCodeUpdate
  <2>4. Changed(code[req[r].code], req[r].set) \in CodeRow
    BY <2>2, <2>3, ChangedCode
  <2> QED BY <1>2, <1>8, <2>2, <2>4 DEF Typed, FinishCodeUpdate
<1>9. ASSUME NEW w, NEW v
      PROVE  Unless(w, v) \in {w, Null}
  BY DEF Unless
<1>10. CASE CodeStep
  <2>1. PICK c \in Codes :
        \/ DestroyCode(c)
        \/ \E r \in Organizers, w \in Words, kind \in {"Discount", "Access"},
              discount \in BOOLEAN, ts \in SUBSET Types : StartCode(r, c, w, kind, discount, ts)
        \/ \E r \in Organizers, w \in Words, discount \in BOOLEAN, ts \in SUBSET Types :
            /\ code[c] # Null
            /\ StartCodeUpdate(r, c, Unless(w, code[c].word), Unless(discount, code[c].discount),
                               Unless(ts, code[c].types))
    BY <1>10 DEF CodeStep
  <2> QED BY <1>4, <1>5, <1>6, <1>9, <2>1, RequestAssumption
<1>11. CASE CodeEnd
  BY <1>7, <1>8, <1>11 DEF CodeEnd
<1> QED BY <1>10, <1>11

LEMMA WithdrawnTyped ==
    ASSUME Typed, NEW T \in SUBSET Issued
    PROVE  [i \in Rows |-> IF i \in T THEN [ticket[i] EXCEPT !.status = "Nullified"]
                           ELSE ticket[i]] \in [Rows -> TicketRow \cup {Null}]
<1>1. \A i \in T : [ticket[i] EXCEPT !.status = "Nullified"] \in TicketRow
  <2> SUFFICES ASSUME NEW i \in T
               PROVE  [ticket[i] EXCEPT !.status = "Nullified"] \in TicketRow
    OBVIOUS
  <2>1. ticket[i] \in TicketRow
    BY TypedState
  <2> QED BY <2>1 DEF TicketRow
<1> QED BY <1>1 DEF Typed

LEMMA FinishCapacityTyped ==
    ASSUME Typed, NEW r \in Requests, FinishCapacity(r)
    PROVE  Typed'
<1>1. PICK q : q = req[r]
  OBVIOUS
<1>2. q.kind = "capacity" /\ q \in Sizing
  BY <1>1, TypedState, KindsOf DEF FinishCapacity
<1>3. q.n \in Nat /\ q.valid \in Nat /\ q.count \in Nat
  BY <1>2, SizingFields, QuantitiesAreNat
<1>4. /\ Issue(q) \/ Withdraw(q) \/ UNCHANGED ticket
      /\ asked' = [target |-> IF q.clean THEN q.n ELSE Null, revived |-> 0]
      /\ req' = Ended(r, {}, q.valid # q.n)
      /\ UNCHANGED <<hold, code, ordered, wanted, contested>>
  BY <1>1 DEF FinishCapacity
<1>5. req' \in [Requests -> ReqRows]
  <2>1. PICK c : c = (q.valid # q.n)
    OBVIOUS
  <2> QED BY <1>4, <2>1, EndedTyped DEF Typed
<1>6. ticket' \in [Rows -> TicketRow \cup {Null}]
  <2>1. CASE Issue(q)
    <3>1. PICK last : last = Cardinality(Issued)
      OBVIOUS
    <3>2. last \in Nat
      BY <3>1, TypedState, RowsAreFinite
    <3> DEFINE new == last + 1 .. last + q.n - q.valid
               row(i) == [token |-> FirstToken(q) + i - last - 1, hold |-> Null,
                          raced |-> ~q.clean, status |-> "Available"]
    <3>3. ticket' = [i \in Rows |-> IF i \in new THEN row(i) ELSE ticket[i]]
      BY <2>1, <3>1 DEF Issue
    <3>4. \A i \in new : row(i) \in TicketRow
      <4> SUFFICES ASSUME NEW i \in new
                   PROVE  row(i) \in TicketRow
        OBVIOUS
      <4>1. FirstToken(q) + i - last - 1 \in Nat
        BY <1>3, <3>2 DEF FirstToken
      <4> QED BY <1>2, <4>1, SizingFields DEF TicketRow
    <3> HIDE DEF new, row
    <3> QED BY <3>3, <3>4 DEF Typed
  <2>2. CASE Withdraw(q)
    BY <2>2, WithdrawnTyped, TypedState DEF Withdraw
  <2>3. CASE UNCHANGED ticket
    BY <2>3 DEF Typed
  <2> QED BY <1>4, <2>1, <2>2, <2>3
<1> QED BY <1>3, <1>4, <1>5, <1>6 DEF Typed

LEMMA CapacityTyped ==
    ASSUME Typed, CapacityStep
    PROVE  Typed'
<1>1. ASSUME NEW r \in Requests, NEW n \in Quantities, StartCapacity(r, n)
      PROVE  Typed'
  <2>1. Cardinality(Valid) \in Nat /\ Cardinality(Issued) \in Nat
    BY TypedState, RowsAreFinite
  <2>2. [kind |-> "capacity", n |-> n, clean |-> TRUE,
         valid |-> Cardinality(Valid), count |-> Cardinality(Issued)] \in ReqRows
    BY <2>1 DEF ReqRows, Sizing
  <2> QED BY <1>1, <2>2 DEF Typed, StartCapacity
<1> QED BY <1>1, FinishCapacityTyped DEF CapacityStep

LEMMA FailTyped ==
    ASSUME Typed, NEW r \in Requests, Fail(r)
    PROVE  Typed'
<1>1. Done \in ReqRows
  BY DEF ReqRows
<1> QED BY <1>1 DEF Typed, Fail

LEMMA NextTyped ==
    ASSUME Typed, Lockers, [Next]_vars
    PROVE  Typed'
<1>1. CASE HoldEnd
  <2>1. ASSUME NEW r \in Requests, FinishUpdate(r)
        PROVE  Typed'
    <3>1. hold[req[r].hold] # Null
      BY <2>1 DEF FinishUpdate, Lockers
    <3> QED BY <2>1, <3>1, FinishUpdateTyped
  <2> QED BY <1>1, <2>1, FinishHoldTyped, LockHoldTyped, FinishDestroyTyped DEF HoldEnd
<1>2. CASE UNCHANGED vars
  BY <1>2 DEF vars, Typed
<1> QED BY <1>1, <1>2, CustomerTyped, HoldStepTyped, CodesTyped, CapacityTyped, FailTyped DEF Next

LEMMA WantedIsNat == Typed /\ Wanted => TypeOK
<1> SUFFICES ASSUME Typed, Wanted
             PROVE  TypeOK
  OBVIOUS
<1>1. \A h \in Holds : wanted[h] \in Nat \cup {Null}
  <2> SUFFICES ASSUME NEW h \in Holds, wanted[h] # Null
               PROVE  wanted[h] \in Nat
    OBVIOUS
  <2>1. wanted[h] = Cardinality(InHold(h)) /\ Cardinality(InHold(h)) \in Nat
    BY TypedState, RowsAreFinite DEF Wanted
  <2> QED BY <2>1
<1> QED BY <1>1 DEF Typed, TypeOK, ReqRows

-----------------------------------------------------------------------------
(* What the steps leave of what requests have read.                        *)

LEMMA CreatorsKept ==
    ASSUME Creators,
           \A s \in Requests : req'[s].kind = "create" =>
              req'[s] = req[s] /\ hold'[req[s].hold] = Null
    PROVE  Creators'
  BY DEF Creators

LEMMA LockersKept ==
    ASSUME Lockers,
           \A s \in Requests : req'[s].kind = "locked" =>
              /\ req[s].kind = "locked" /\ req'[s].hold = req[s].hold
              /\ req'[s].count = req[s].count
              /\ hold'[req[s].hold] # Null /\ s \in hold'[req[s].hold].readers
              /\ req'[s].clean =>
                    req[s].clean /\ \A h : h = req[s].hold => InHold(h)' = InHold(h)
    PROVE  Lockers'
<1> SUFFICES ASSUME NEW r \in Requests, req'[r].kind = "locked"
             PROVE  /\ hold'[req'[r].hold] # Null /\ r \in hold'[req'[r].hold].readers
                    /\ \A s \in Requests :
                          req'[s].kind = "locked" /\ req'[s].hold = req'[r].hold => s = r
                    /\ req'[r].clean => \A h : h = req'[r].hold =>
                          req'[r].count = Cardinality(InHold(h)')
  BY DEF Lockers, InHold, Issued
<1>1. PICK h : h = req[r].hold
  OBVIOUS
<1>2. req'[r].clean => InHold(h)' = InHold(h)
  BY <1>1
<1>3. req'[r].hold = h
  BY <1>1
<1> QED BY <1>1, <1>2, <1>3 DEF Lockers

LEMMA CountsKept ==
    ASSUME Counted, CapacityAsAsked, TokenOfRow,
           Issued' = Issued, Valid' = Valid, asked' = asked,
           \A i \in Issued : ticket'[i].raced = ticket[i].raced /\ ticket'[i].token = ticket[i].token,
           \A s \in Requests : req'[s].kind = "capacity" /\ req'[s].clean =>
              /\ req[s].kind = "capacity" /\ req[s].clean
              /\ req'[s].valid = req[s].valid /\ req'[s].count = req[s].count
    PROVE  Counted' /\ CapacityAsAsked' /\ TokenOfRow'
<1>1. Counted'
  BY DEF Counted
<1>2. CapacityAsAsked'
  BY DEF CapacityAsAsked
<1>3. TokenOfRow'
  BY DEF TokenOfRow
<1> QED BY <1>1, <1>2, <1>3

\* Tickets stay in their holds and holds under their parents.
LEMMA HoldsKept ==
    ASSUME Typed, NotItsOwn, HeldTicketsCanBeFound, Wanted,
           Issued' = Issued, \A i \in Issued : ticket'[i].hold = ticket[i].hold,
           \A h \in Holds : /\ hold'[h] # Null <=> hold[h] # Null
                            /\ hold[h] # Null => hold'[h].parent = hold[h].parent,
           wanted' = wanted
    PROVE  NotItsOwn' /\ HeldTicketsCanBeFound' /\ Wanted'
<1>1. \A h \in Holds : InHold(h)' = InHold(h)
  BY DEF InHold
<1>2. NotItsOwn'
  BY DEF NotItsOwn
<1>3. Wanted'
  BY <1>1 DEF Wanted
<1>4. HeldTicketsCanBeFound'
  BY TypedState, TicketFields, HoldFields DEF HeldTicketsCanBeFound
<1> QED BY <1>2, <1>3, <1>4

\* The customers' steps change only whether a ticket is taken.
LEMMA SameTickets ==
    ASSUME Typed, NEW i \in Issued, NEW status \in {"Available", "Taken", "Lapsed"},
           ticket' = [ticket EXCEPT ![i].status = status]
    PROVE  /\ Issued' = Issued
           /\ Valid' = Valid \cup {i}
           /\ \A h : InHold(h)' = InHold(h)
           /\ \A j \in Issued : /\ ticket'[j].hold = ticket[j].hold
                                /\ ticket'[j].raced = ticket[j].raced
                                /\ ticket'[j].token = ticket[j].token
<1>1. i \in Rows /\ ticket[i] \in TicketRow /\ DOMAIN ticket = Rows
  BY TypedState DEF Typed
<1>2. PICK row : row = [ticket[i] EXCEPT !.status = status]
  OBVIOUS
<1>3. /\ row \in TicketRow /\ row # Null /\ row.status = status
      /\ row.hold = ticket[i].hold /\ row.raced = ticket[i].raced /\ row.token = ticket[i].token
  <2>1. row \in TicketRow
    BY <1>1, <1>2 DEF TicketRow
  <2> QED BY <1>1, <1>2, <2>1, TicketFields DEF TicketRow
<1>4. ticket'[i] = row /\ \A j \in Rows \ {i} : ticket'[j] = ticket[j]
  BY <1>1, <1>2
<1>5. Issued' = Issued
  BY <1>1, <1>3, <1>4, TicketFields DEF Issued
<1>6. \A j \in Issued : /\ ticket'[j].hold = ticket[j].hold
                        /\ ticket'[j].raced = ticket[j].raced
                        /\ ticket'[j].token = ticket[j].token
  BY <1>3, <1>4, TypedState
<1>7. Valid' = Valid \cup {i}
  <2>1. \A j \in Issued \ {i} : ticket'[j] = ticket[j]
    BY <1>4, TypedState
  <2>2. i \in Issued
    OBVIOUS
  <2> QED BY <1>3, <1>4, <1>5, <2>1, <2>2 DEF Valid
<1> QED BY <1>5, <1>6, <1>7 DEF InHold

\* What moves from one hold, or the pool, to another.
LEMMA MoveIs ==
    ASSUME Typed, NEW from \in Holds \cup {Null}, NEW to \in Holds \cup {Null}, to # from,
           NEW T \in SUBSET InHold(from), ticket' = Move(T, to)
    PROVE  /\ Issued' = Issued /\ Valid' = Valid
           /\ \A i \in Issued : ticket'[i].raced = ticket[i].raced /\ ticket'[i].token = ticket[i].token
           /\ \A i \in Issued : ticket'[i].hold = IF i \in T THEN to ELSE ticket[i].hold
           /\ InHold(to)' = InHold(to) \cup T
           /\ InHold(from)' = InHold(from) \ T
           /\ \A h : h # from /\ h # to => InHold(h)' = InHold(h)
           /\ Cardinality(InHold(to) \cup T) = Cardinality(InHold(to)) + Cardinality(T)
           /\ Cardinality(InHold(from) \ T) = Cardinality(InHold(from)) - Cardinality(T)
<1>1. ticket' = [i \in Rows |-> IF i \in T THEN [ticket[i] EXCEPT !.hold = to] ELSE ticket[i]]
  BY DEF Move
<1>2. T \subseteq Issued /\ \A i \in Issued : i \in Rows
  BY TypedState
<1>3. \A i \in T : LET row == [ticket[i] EXCEPT !.hold = to]
                   IN  /\ row # Null /\ row.hold = to /\ row.status = ticket[i].status
                       /\ row.raced = ticket[i].raced /\ row.token = ticket[i].token
  <2> SUFFICES ASSUME NEW i \in T
               PROVE  LET row == [ticket[i] EXCEPT !.hold = to]
                      IN  /\ row # Null /\ row.hold = to /\ row.status = ticket[i].status
                          /\ row.raced = ticket[i].raced /\ row.token = ticket[i].token
    OBVIOUS
  <2>1. ticket[i] \in TicketRow
    BY <1>2, TypedState
  <2>2. [ticket[i] EXCEPT !.hold = to] \in TicketRow
    BY <2>1 DEF TicketRow
  <2> QED BY <2>1, <2>2, TicketFields DEF TicketRow
<1>4. /\ \A i \in T : /\ ticket'[i] # Null /\ ticket'[i].hold = to
                      /\ ticket'[i].status = ticket[i].status
                      /\ ticket'[i].raced = ticket[i].raced /\ ticket'[i].token = ticket[i].token
      /\ \A i \in Rows \ T : ticket'[i] = ticket[i]
  BY <1>1, <1>2, <1>3
<1>5. Issued' = Issued
  BY <1>2, <1>4 DEF Issued
<1>6. Valid' = Valid
  BY <1>2, <1>4, <1>5 DEF Valid
<1>7. \A i \in Issued : /\ ticket'[i].raced = ticket[i].raced /\ ticket'[i].token = ticket[i].token
                        /\ ticket'[i].hold = IF i \in T THEN to ELSE ticket[i].hold
  BY <1>2, <1>4
<1>8. \A i \in T : ticket[i].hold = from
  BY DEF InHold
<1>9. /\ InHold(to)' = InHold(to) \cup T
      /\ InHold(from)' = InHold(from) \ T
      /\ \A h : h # from /\ h # to => InHold(h)' = InHold(h)
  BY <1>2, <1>5, <1>7, <1>8 DEF InHold
<1>10. InHold(to) \cap T = {} /\ InHold(from) \cap T = T
  BY <1>8 DEF InHold
<1>11. IsFiniteSet(InHold(to)) /\ IsFiniteSet(T) /\ IsFiniteSet(InHold(from))
       /\ Cardinality(InHold(to)) \in Nat /\ Cardinality(T) \in Nat
  BY <1>2, TypedState, RowsAreFinite
<1>12. Cardinality(InHold(to) \cup T) = Cardinality(InHold(to)) + Cardinality(T)
  <2>1. Cardinality(InHold(to) \cup T)
           = Cardinality(InHold(to)) + Cardinality(T) - Cardinality(InHold(to) \cap T)
    BY <1>11, FS_Union
  <2>2. Cardinality(InHold(to) \cap T) = 0
    BY <1>10, FS_EmptySet
  <2> QED BY <1>11, <2>1, <2>2
<1>13. Cardinality(InHold(from) \ T) = Cardinality(InHold(from)) - Cardinality(T)
  BY <1>10, <1>11, FS_Difference
<1> QED BY <1>5, <1>6, <1>7, <1>9, <1>12, <1>13

-----------------------------------------------------------------------------
(* What customers do.                                                      *)

LEMMA CustomerTallies ==
    ASSUME Typed, Tallied, CustomerStep
    PROVE  Tallied'
<1>1. PICK i \in Rows : Lapse(i) \/ Return(i) \/ \E h \in Holds \cup {Null} : Take(i, h)
  BY DEF CustomerStep
<1>2. UNCHANGED <<hold, wanted>> /\ i \in Issued
  BY <1>1 DEF Lapse, Return, Take, Takeable, InHold
<1>3. PICK status \in {"Available", "Taken", "Lapsed"} : ticket' = [ticket EXCEPT ![i].status = status]
  BY <1>1 DEF Lapse, Return, Take
<1>4. PICK c : c = (ticket[i].status = "Nullified")
  OBVIOUS
<1>5. /\ req' = req \/ req' = Overtaken({}, c)
      /\ c => req' = Overtaken({}, c) /\ asked' = [asked EXCEPT !.revived = @ + 1]
      /\ ~c => asked' = asked
      /\ c \in BOOLEAN
  BY <1>1, <1>4 DEF Lapse, Return, Take
<1>6. /\ Issued' = Issued /\ Valid' = Valid \cup {i}
      /\ \A h : InHold(h)' = InHold(h)
      /\ \A j \in Issued : /\ ticket'[j].hold = ticket[j].hold
                           /\ ticket'[j].raced = ticket[j].raced
                           /\ ticket'[j].token = ticket[j].token
  BY <1>2, <1>3, SameTickets
<1>7. \A s \in Requests :
        /\ req'[s].kind = "create" => req'[s] = req[s]
        /\ req'[s].kind = "locked" =>
              /\ req[s].kind = "locked" /\ req'[s].hold = req[s].hold
              /\ req'[s].count = req[s].count /\ (req'[s].clean => req[s].clean)
        /\ req'[s].kind = "capacity" /\ req'[s].clean =>
              /\ req[s].kind = "capacity" /\ req[s].clean
              /\ req'[s].valid = req[s].valid /\ req'[s].count = req[s].count
              /\ ~c
  <2>1. CASE req' = req /\ ~c
    BY <2>1
  <2>2. CASE req' = Overtaken({}, c)
    BY <1>5, <2>2, OvertakenKeeps DEF Typed
  <2> QED BY <1>5, <2>1, <2>2
<1>8. Creators'
  BY <1>2, <1>7, CreatorsKept DEF Tallied, Creators
<1>9. Lockers'
  <2>1. \A s \in Requests : req[s].kind = "locked" =>
           hold[req[s].hold] # Null /\ s \in hold[req[s].hold].readers
    BY DEF Tallied, Lockers
  <2> QED BY <1>2, <1>6, <1>7, <2>1, LockersKept DEF Tallied
<1>10. NotItsOwn' /\ HeldTicketsCanBeFound' /\ Wanted'
  BY <1>2, <1>6, HoldsKept DEF Tallied
<1>11. CASE ~c
  <2>1. Valid' = Valid
    BY <1>2, <1>4, <1>6, <1>11 DEF Valid
  <2>2. Counted' /\ CapacityAsAsked' /\ TokenOfRow'
    BY <1>5, <1>6, <1>7, <1>11, <2>1, CountsKept DEF Tallied
  <2> QED BY <1>8, <1>9, <1>10, <2>2 DEF Tallied
<1>12. CASE c
  <2>1. i \notin Valid
    BY <1>4, <1>12 DEF Valid
  <2>2. IsFiniteSet(Valid) /\ Cardinality(Valid) \in Nat
    BY TypedState, RowsAreFinite
  <2>3. Cardinality(Valid \cup {i}) = Cardinality(Valid) + 1
    BY <2>1, <2>2, FS_AddElement
  <2>4. Counted'
    BY <1>6, <1>7, <1>12 DEF Counted, Tallied
  <2>5. CapacityAsAsked'
    <3>1. asked.revived \in Nat /\ asked.target \in Nat \cup {Null}
      BY DEF Typed
    <3>2. asked'.target = asked.target /\ asked'.revived = asked.revived + 1
      BY <1>5, <1>12 DEF Typed
    <3> QED BY <1>6, <2>2, <2>3, <3>1, <3>2 DEF CapacityAsAsked, Tallied
  <2>6. TokenOfRow'
    BY <1>6 DEF TokenOfRow, Tallied
  <2> QED BY <1>8, <1>9, <1>10, <2>4, <2>5, <2>6 DEF Tallied
<1> QED BY <1>5, <1>11, <1>12

-----------------------------------------------------------------------------
(* Requests that change no ticket.                                         *)

\* Everything but what r is doing, and who has read a hold, stays.
LEMMA OthersStay ==
    ASSUME Typed, Tallied, NEW r \in Requests,
           ticket' = ticket, wanted' = wanted, asked' = asked,
           \A s \in Requests \ {r} : req'[s] = req[s],
           \A h \in Holds :
              /\ hold'[h] # Null <=> hold[h] # Null
              /\ hold[h] # Null => hold'[h].parent = hold[h].parent,
           \A s \in Requests \ {r} : req[s].kind = "locked" =>
              s \in hold'[req[s].hold].readers
    PROVE  /\ NotItsOwn' /\ HeldTicketsCanBeFound' /\ Wanted'
           /\ req'[r].kind # "create" => Creators'
           /\ req'[r].kind # "locked" => Lockers'
           /\ req'[r].kind # "capacity" => Counted'
           /\ CapacityAsAsked' /\ TokenOfRow'
           /\ Issued' = Issued /\ Valid' = Valid /\ \A h : InHold(h)' = InHold(h)
<1>1. /\ Issued' = Issued /\ Valid' = Valid /\ \A h : InHold(h)' = InHold(h)
  BY DEF Issued, Valid, InHold
<1>2. NotItsOwn' /\ HeldTicketsCanBeFound' /\ Wanted'
  BY <1>1, HoldsKept DEF Tallied
<1>3. \A s \in Requests : req[s].kind \in {"create", "locked"} => req[s].hold \in Holds
  BY TypedState, KindsOf, CreatingFields, UpdatingFields
<1>4. ASSUME req'[r].kind # "create"
      PROVE  Creators'
  <2>1. \A s \in Requests : req'[s].kind = "create" =>
              req'[s] = req[s] /\ hold'[req[s].hold] = Null
    BY <1>3, <1>4 DEF Tallied, Creators
  <2> QED BY <2>1, CreatorsKept DEF Tallied
<1>5. ASSUME req'[r].kind # "locked"
      PROVE  Lockers'
  <2>1. \A s \in Requests : req'[s].kind = "locked" =>
              /\ req'[s] = req[s]
              /\ hold'[req[s].hold] # Null /\ s \in hold'[req[s].hold].readers
    BY <1>3, <1>5 DEF Tallied, Lockers
  <2> QED BY <1>1, <2>1, LockersKept DEF Tallied
<1>6. ASSUME req'[r].kind # "capacity"
      PROVE  Counted'
  BY <1>1, <1>6 DEF Tallied, Counted
<1>7. CapacityAsAsked' /\ TokenOfRow'
  BY <1>1 DEF Tallied, CapacityAsAsked, TokenOfRow
<1> QED BY <1>1, <1>2, <1>4, <1>5, <1>6, <1>7

LEMMA HoldStepTallies ==
    ASSUME Typed, Tallied, HoldStep
    PROVE  Tallied'
<1>1. PICK r \in Requests, h \in Holds :
              \/ \E from \in Holds \cup {Null}, n \in Quantities : \E row : Starts(r, h, from, row, n)
              \/ \E w \in Words \cup {Null}, kind \in Kinds, discount \in BOOLEAN \cup {Null},
                    n \in Quantities \cup {Null} : StartUpdate(r, h, w, kind, discount, n)
              \/ StartDestroy(r, h)
  BY HoldSteps
<1>2. \A s \in Requests : req[s].kind = "locked" =>
         /\ hold[req[s].hold] # Null /\ req[s].hold \in Holds
         /\ s \in hold[req[s].hold].readers
  BY TypedState, KindsOf, UpdatingFields DEF Tallied, Lockers
<1>3. CASE \E from \in Holds \cup {Null}, n \in Quantities : \E row : Starts(r, h, from, row, n)
  <2>1. PICK from \in Holds \cup {Null}, n \in Quantities : \E row : Starts(r, h, from, row, n)
    BY <1>3
  <2>2. PICK row : Starts(r, h, from, row, n)
    BY <2>1
  <2>3. PICK q : q = [kind |-> "create", hold |-> h, from |-> from, row |-> row, n |-> n]
    OBVIOUS
  <2>4. /\ q.kind = "create" /\ q.hold = h /\ q.from = from /\ q.row = row
        /\ req'[r] = q /\ \A s \in Requests \ {r} : req'[s] = req[s]
        /\ UNCHANGED <<ticket, hold, wanted, asked>>
    BY <2>2, <2>3 DEF Starts, Typed
  <2>5. /\ NotItsOwn' /\ HeldTicketsCanBeFound' /\ Wanted' /\ Lockers' /\ Counted'
        /\ CapacityAsAsked' /\ TokenOfRow'
    BY <1>2, <2>4, OthersStay
  <2>6. hold[h] = Null /\ \A s \in Requests : req[s].kind = "create" => req[s].hold # h
    BY <2>2 DEF Starts
  <2>7. from # h /\ row.parent # h
    <3>1. from # Null => hold[from] # Null /\ from \in Holds
      BY <2>2 DEF Starts
    <3>2. h # Null
      BY NullAssumption
    <3>3. from # Null /\ hold[from].parent # Null => hold[hold[from].parent] # Null
      BY <3>1 DEF Tallied, HeldTicketsCanBeFound
    <3> QED BY <2>2, <2>6, <3>1, <3>2, <3>3 DEF Starts
  <2>8. Creators'
    BY <2>4, <2>6, <2>7 DEF Creators, Tallied
  <2> QED BY <2>5, <2>8 DEF Tallied
<1>4. CASE \E w \in Words \cup {Null}, kind \in Kinds, discount \in BOOLEAN \cup {Null},
              n \in Quantities \cup {Null} : StartUpdate(r, h, w, kind, discount, n)
  <2>1. PICK w \in Words \cup {Null}, kind \in Kinds, discount \in BOOLEAN \cup {Null},
              n \in Quantities \cup {Null} : StartUpdate(r, h, w, kind, discount, n)
    BY <1>4
  <2>2. /\ hold[h] # Null /\ hold' = [hold EXCEPT ![h].readers = @ \cup {r}]
        /\ UNCHANGED <<ticket, wanted, asked>>
        /\ \E set : req' = [req EXCEPT ![r] = [kind |-> "update", hold |-> h, set |-> set, n |-> n,
                                               count |-> 0, clean |-> TRUE]]
    BY <2>1 DEF StartUpdate
  <2>3. req'[r].kind = "update" /\ \A s \in Requests \ {r} : req'[s] = req[s]
    BY <2>2 DEF Typed
  <2>4. PICK row : row = [hold[h] EXCEPT !.readers = @ \cup {r}]
    OBVIOUS
  <2>5. hold[h] \in HoldRow
    BY <2>2, TypedState
  <2>6. row \in HoldRow /\ row.parent = hold[h].parent /\ row.readers = hold[h].readers \cup {r}
    BY <2>4, <2>5 DEF HoldRow
  <2>7. hold'[h] = row /\ row # Null /\ \A g \in Holds \ {h} : hold'[g] = hold[g]
    BY <2>2, <2>4, <2>6, HoldFields DEF Typed
  <2> QED BY <1>2, <2>2, <2>3, <2>6, <2>7, OthersStay, ZenonT(40) DEF Tallied
<1>5. CASE StartDestroy(r, h)
  <2>1. req'[r].kind = "destroy" /\ \A s \in Requests \ {r} : req'[s] = req[s]
    BY <1>5 DEF StartDestroy, Typed
  <2>2. UNCHANGED <<ticket, hold, wanted, asked>>
    BY <1>5 DEF StartDestroy
  <2> QED BY <1>2, <2>1, <2>2, OthersStay DEF Tallied
<1> QED BY <1>1, <1>3, <1>4, <1>5

-----------------------------------------------------------------------------
(* The ends of requests about holds.                                       *)

\* A request that ends leaves the others what they have read, unless it has
\* overtaken them.
LEMMA EndedKeeps ==
    ASSUME Typed, NEW r \in Requests, NEW hs, NEW capacity \in BOOLEAN,
           req' = Ended(r, hs, capacity)
    PROVE  \A s \in Requests :
             /\ req'[s].kind = "create" => req'[s] = req[s] /\ s # r
             /\ req'[s].kind = "locked" =>
                   /\ req[s].kind = "locked" /\ req'[s].hold = req[s].hold /\ s # r
                   /\ req'[s].count = req[s].count
                   /\ req'[s].clean => req[s].clean /\ req[s].hold \notin hs
             /\ req'[s].kind = "capacity" /\ req'[s].clean =>
                   /\ req[s].kind = "capacity" /\ req[s].clean /\ s # r /\ ~capacity
                   /\ req'[s].valid = req[s].valid /\ req'[s].count = req[s].count
<1> SUFFICES ASSUME NEW s \in Requests
             PROVE
             /\ req'[s].kind = "create" => req'[s] = req[s] /\ s # r
             /\ req'[s].kind = "locked" =>
                   /\ req[s].kind = "locked" /\ req'[s].hold = req[s].hold /\ s # r
                   /\ req'[s].count = req[s].count
                   /\ req'[s].clean => req[s].clean /\ req[s].hold \notin hs
             /\ req'[s].kind = "capacity" /\ req'[s].clean =>
                   /\ req[s].kind = "capacity" /\ req[s].clean /\ s # r /\ ~capacity
                   /\ req'[s].valid = req[s].valid /\ req'[s].count = req[s].count
  OBVIOUS
<1>1. CASE s = r
  BY <1>1, EndedTyped DEF Typed, Done
<1>2. CASE s # r
  <2>1. req'[s] = Overtaken(hs, capacity)[s] /\ req \in [Requests -> ReqRows]
    BY <1>2, EndedTyped DEF Typed
  <2> QED BY <1>2, <2>1, OvertakenKeeps
<1> QED BY <1>1, <1>2

LEMMA FinishHoldTallies ==
    ASSUME Typed, Tallied, NEW r \in Requests, FinishHold(r)
    PROVE  Tallied'
<1>1. PICK q : q = req[r]
  OBVIOUS
<1>2. q.kind = "create" /\ q \in Creating
  BY <1>1, TypedState, KindsOf DEF FinishHold
<1>3. PICK h, from, n, row : h = q.hold /\ from = q.from /\ n = q.n /\ row = q.row
  OBVIOUS
<1>4. h \in Holds /\ from \in Holds \cup {Null} /\ n \in Nat /\ row \in HoldRow /\ row # Null
      /\ h # Null
  BY <1>2, <1>3, CreatingFields, QuantitiesAreNat, HoldFields, NullAssumption
<1>5. /\ row.parent # Null => hold[row.parent] # Null
      /\ hold' = [hold EXCEPT ![h] = row]
      /\ wanted' = [g \in Holds |-> IF g = h THEN n
                                    ELSE IF g = from THEN MovedBy(g, 0 - n) ELSE wanted[g]]
      /\ req' = Ended(r, IF n = 0 THEN {} ELSE {from}, FALSE)
      /\ asked' = asked
  BY <1>1, <1>3 DEF FinishHold
<1>6. PICK T \in SUBSET Takeable(from) : Cardinality(T) = n /\ ticket' = Move(T, h)
  BY <1>1, <1>3 DEF FinishHold
<1>7. hold[h] = Null /\ from # h /\ row.parent # h
      /\ \A s \in Requests : req[s].kind = "create" /\ req[s].hold = h => s = r
  BY <1>1, <1>2, <1>3 DEF Tallied, Creators
<1>8. T \in SUBSET InHold(from)
  BY <1>6, TypedState
<1>9. /\ Issued' = Issued /\ Valid' = Valid
      /\ \A i \in Issued : ticket'[i].raced = ticket[i].raced /\ ticket'[i].token = ticket[i].token
      /\ \A i \in Issued : ticket'[i].hold = IF i \in T THEN h ELSE ticket[i].hold
      /\ InHold(h)' = InHold(h) \cup T
      /\ InHold(from)' = InHold(from) \ T
      /\ \A g : g # from /\ g # h => InHold(g)' = InHold(g)
      /\ Cardinality(InHold(from) \ T) = Cardinality(InHold(from)) - Cardinality(T)
  <2>1. h \in Holds \cup {Null} /\ h # from /\ ticket' = Move(T, h) /\ from \in Holds \cup {Null}
    BY <1>4, <1>6, <1>7
  <2> QED BY <1>8, <2>1, MoveIs, ZenonT(40)
<1>10. InHold(h) = {}
  <2>1. \A i \in Issued : ticket[i].hold # Null => hold[ticket[i].hold] # Null
    BY DEF Tallied, HeldTicketsCanBeFound
  <2> QED BY <1>4, <1>7, <2>1 DEF InHold
<1>11. hold'[h] = row /\ \A g \in Holds \ {h} : hold'[g] = hold[g]
  BY <1>4, <1>5 DEF Typed
<1>12. \A s \in Requests :
             /\ req'[s].kind = "create" => req'[s] = req[s] /\ s # r
             /\ req'[s].kind = "locked" =>
                   /\ req[s].kind = "locked" /\ req'[s].hold = req[s].hold /\ s # r
                   /\ req'[s].count = req[s].count
                   /\ req'[s].clean => req[s].clean /\ (n # 0 => req[s].hold # from)
             /\ req'[s].kind = "capacity" /\ req'[s].clean =>
                   /\ req[s].kind = "capacity" /\ req[s].clean
                   /\ req'[s].valid = req[s].valid /\ req'[s].count = req[s].count
  <2>1. PICK hs : hs = IF n = 0 THEN {} ELSE {from}
    OBVIOUS
  <2>2. req' = Ended(r, hs, FALSE) /\ (n # 0 => from \in hs)
    BY <1>5, <2>1
  <2>3. FALSE \in BOOLEAN
    OBVIOUS
  <2>4. \A s \in Requests :
             /\ req'[s].kind = "create" => req'[s] = req[s] /\ s # r
             /\ req'[s].kind = "locked" =>
                   /\ req[s].kind = "locked" /\ req'[s].hold = req[s].hold /\ s # r
                   /\ req'[s].count = req[s].count
                   /\ req'[s].clean => req[s].clean /\ req[s].hold \notin hs
             /\ req'[s].kind = "capacity" /\ req'[s].clean =>
                   /\ req[s].kind = "capacity" /\ req[s].clean
                   /\ req'[s].valid = req[s].valid /\ req'[s].count = req[s].count
    BY <2>2, <2>3, EndedKeeps
  <2> QED BY <2>2, <2>4
<1>13. n = 0 => T = {} /\ InHold(from)' = InHold(from)
  <2>1. IsFiniteSet(T)
    BY <1>8, TypedState, RowsAreFinite
  <2>2. n = 0 => T = {}
    BY <1>6, <2>1, FS_EmptySet
  <2> QED BY <1>9, <2>2
<1>14. \A s \in Requests : req[s].kind \in {"create", "locked"} => req[s].hold \in Holds
  BY TypedState, KindsOf, CreatingFields, UpdatingFields
<1>15. Creators'
  <2>1. \A s \in Requests : req'[s].kind = "create" =>
              req'[s] = req[s] /\ hold'[req[s].hold] = Null
    BY <1>7, <1>11, <1>12, <1>14 DEF Tallied, Creators
  <2> QED BY <2>1, CreatorsKept DEF Tallied
<1>16. Lockers'
  <2>1. \A s \in Requests : req'[s].kind = "locked" =>
              /\ req[s].kind = "locked" /\ req'[s].hold = req[s].hold
              /\ req'[s].count = req[s].count
              /\ hold'[req[s].hold] # Null /\ s \in hold'[req[s].hold].readers
              /\ req'[s].clean =>
                    req[s].clean /\ \A g : g = req[s].hold => InHold(g)' = InHold(g)
    <3> SUFFICES ASSUME NEW s \in Requests, req'[s].kind = "locked"
                 PROVE  /\ req[s].kind = "locked" /\ req'[s].hold = req[s].hold
                        /\ req'[s].count = req[s].count
                        /\ hold'[req[s].hold] # Null /\ s \in hold'[req[s].hold].readers
                        /\ req'[s].clean =>
                              req[s].clean /\ \A g : g = req[s].hold => InHold(g)' = InHold(g)
      OBVIOUS
    <3>1. PICK g : g = req[s].hold
      OBVIOUS
    <3>2. g \in Holds /\ hold[g] # Null /\ s \in hold[g].readers /\ g # h
      BY <1>7, <1>12, <1>14, <3>1 DEF Tallied, Lockers
    <3>3. req'[s].clean => InHold(g)' = InHold(g)
      BY <1>9, <1>12, <1>13, <3>1, <3>2
    <3> QED BY <1>11, <1>12, <3>1, <3>2, <3>3
  <2> QED BY <2>1, LockersKept DEF Tallied
<1>17. NotItsOwn'
  BY <1>7, <1>11 DEF Tallied, NotItsOwn
<1>18. HeldTicketsCanBeFound'
  <2>1. \A i \in Issued' : ticket'[i].hold # Null => hold'[ticket'[i].hold] # Null
    BY <1>4, <1>9, <1>11, TypedState, TicketFields DEF Tallied, HeldTicketsCanBeFound
  <2>2. \A g \in Holds : hold'[g] # Null /\ hold'[g].parent # Null => hold'[hold'[g].parent] # Null
    BY <1>4, <1>5, <1>11, TypedState, HoldFields DEF Tallied, HeldTicketsCanBeFound
  <2> QED BY <2>1, <2>2 DEF HeldTicketsCanBeFound
<1>19. Wanted'
  <2>1. \A g \in Holds : wanted[g] \in Int \cup {Null}
    BY DEF Typed
  <2>2. Cardinality(InHold(from)) \in Nat
    BY TypedState, RowsAreFinite
  <2>3. ASSUME NEW g \in Holds, wanted'[g] # Null
        PROVE  hold'[g] # Null /\ Cardinality(InHold(g)') = wanted'[g]
    <3>1. CASE g = h
      BY <1>4, <1>5, <1>6, <1>9, <1>10, <1>11, <3>1
    <3>2. CASE g # h /\ g = from
      <4>1. wanted'[g] = MovedBy(g, 0 - n)
        BY <1>5, <3>2
      <4>2. wanted[g] # Null /\ wanted'[g] = wanted[g] + (0 - n)
        BY <2>3, <4>1 DEF MovedBy
      <4>3. hold[g] # Null /\ Cardinality(InHold(g)) = wanted[g]
        BY <4>2 DEF Tallied, Wanted
      <4>4. Cardinality(InHold(g)') = Cardinality(InHold(g)) - n
        BY <1>6, <1>9, <3>2
      <4> QED BY <1>4, <1>11, <2>2, <3>2, <4>2, <4>3, <4>4
    <3>3. CASE g # h /\ g # from
      BY <1>5, <1>9, <1>11, <2>3, <3>3 DEF Tallied, Wanted
    <3> QED BY <3>1, <3>2, <3>3
  <2> QED BY <2>3 DEF Wanted
<1>20. Counted' /\ CapacityAsAsked' /\ TokenOfRow'
  BY <1>5, <1>9, <1>12, CountsKept DEF Tallied
<1> QED BY <1>15, <1>16, <1>17, <1>18, <1>19, <1>20 DEF Tallied

LEMMA LockHoldTallies ==
    ASSUME Typed, Tallied, NEW r \in Requests, LockHold(r)
    PROVE  Tallied'
<1>1. PICK q : q = req[r]
  OBVIOUS
<1>2. PICK h : h = q.hold
  OBVIOUS
<1>3. q \in Updating /\ h \in Holds
  BY <1>1, <1>2, TypedState, KindsOf, UpdatingFields DEF LockHold
<1>4. /\ ~Locked(h) /\ Unchanged(r, h)
      /\ req' = [req EXCEPT ![r] = [q EXCEPT !.kind = "locked", !.count = Cardinality(InHold(h))]]
      /\ UNCHANGED <<ticket, hold, wanted, asked>>
  BY <1>1, <1>2 DEF LockHold
<1>5. PICK p : p = [q EXCEPT !.kind = "locked", !.count = Cardinality(InHold(h))]
  OBVIOUS
<1>6. p.kind = "locked" /\ p.hold = h /\ p.count = Cardinality(InHold(h))
  BY <1>2, <1>3, <1>5 DEF Updating
<1>7. req'[r] = p /\ \A s \in Requests \ {r} : req'[s] = req[s]
  BY <1>4, <1>5 DEF Typed
<1>8. \A s \in Requests : req[s].kind = "locked" => s \in hold[req[s].hold].readers
  BY DEF Tallied, Lockers
<1>9. /\ NotItsOwn' /\ HeldTicketsCanBeFound' /\ Wanted' /\ Creators' /\ Counted'
      /\ CapacityAsAsked' /\ TokenOfRow'
  BY <1>4, <1>6, <1>7, <1>8, OthersStay
<1>10. \A g : InHold(g)' = InHold(g)
  BY <1>4 DEF InHold, Issued
<1>11. \A s \in Requests : req[s].kind = "locked" => req[s].hold # h
  BY <1>4 DEF Locked
<1>12. hold[h] # Null /\ r \in hold[h].readers
  BY <1>4 DEF Unchanged
<1>13. Lockers'
  <2> SUFFICES ASSUME NEW s \in Requests, req'[s].kind = "locked"
               PROVE  /\ hold'[req'[s].hold] # Null /\ s \in hold'[req'[s].hold].readers
                      /\ \A t \in Requests :
                            req'[t].kind = "locked" /\ req'[t].hold = req'[s].hold => t = s
                      /\ req'[s].clean => \A g : g = req'[s].hold =>
                            req'[s].count = Cardinality(InHold(g)')
    BY DEF Lockers, InHold, Issued
  <2>1. CASE s = r
    BY <1>4, <1>6, <1>7, <1>10, <1>11, <1>12, <2>1
  <2>2. CASE s # r
    <3>1. req'[s] = req[s] /\ req[s].kind = "locked" /\ req[s].hold # h
      BY <1>7, <1>11, <2>2
    <3>2. /\ hold[req[s].hold] # Null /\ s \in hold[req[s].hold].readers
          /\ \A t \in Requests :
                req[t].kind = "locked" /\ req[t].hold = req[s].hold => t = s
          /\ req[s].clean => req[s].count = Cardinality(InHold(req[s].hold))
      BY <3>1 DEF Tallied, Lockers
    <3> QED BY <1>4, <1>6, <1>7, <1>10, <3>1, <3>2
  <2> QED BY <2>1, <2>2
<1> QED BY <1>9, <1>13 DEF Tallied

\* The request moves tickets between hold h and another, which is the only row it
\* writes.
LEMMA MoverKeeps ==
    ASSUME Typed, Creators, Lockers, Counted, CapacityAsAsked, TokenOfRow, NEW r \in Requests, NEW h \in Holds, hold[h] # Null,
           NEW from \in Holds \cup {Null}, NEW to \in Holds \cup {Null}, to # from,
           NEW T \in SUBSET InHold(from), ticket' = Move(T, to),
           NEW hs, req' = Ended(r, hs, FALSE),
           T = {} \/ (from \in hs /\ to \in hs),
           \A g \in Holds \ {h} : hold'[g] = hold[g],
           \A s \in Requests \ {r} : req[s].kind = "locked" => req[s].hold # h,
           asked' = asked
    PROVE  Creators' /\ Lockers' /\ Counted' /\ CapacityAsAsked' /\ TokenOfRow'
<1>1. /\ Issued' = Issued /\ Valid' = Valid
      /\ \A i \in Issued : ticket'[i].raced = ticket[i].raced /\ ticket'[i].token = ticket[i].token
      /\ InHold(to)' = InHold(to) \cup T
      /\ InHold(from)' = InHold(from) \ T
      /\ \A g : g # from /\ g # to => InHold(g)' = InHold(g)
  <2>1. /\ Typed /\ from \in Holds \cup {Null} /\ to \in Holds \cup {Null} /\ to # from
        /\ T \in SUBSET InHold(from) /\ ticket' = Move(T, to)
    OBVIOUS
  <2> QED BY ONLY <2>1, MoveIs, ZenonT(40)
<1>2. FALSE \in BOOLEAN
  OBVIOUS
<1>3. \A s \in Requests :
             /\ req'[s].kind = "create" => req'[s] = req[s]
             /\ req'[s].kind = "locked" =>
                   /\ req[s].kind = "locked" /\ req'[s].hold = req[s].hold /\ s # r
                   /\ req'[s].count = req[s].count
                   /\ req'[s].clean => req[s].clean /\ req[s].hold \notin hs
             /\ req'[s].kind = "capacity" /\ req'[s].clean =>
                   /\ req[s].kind = "capacity" /\ req[s].clean
                   /\ req'[s].valid = req[s].valid /\ req'[s].count = req[s].count
  <2> SUFFICES ASSUME NEW s \in Requests
               PROVE
             /\ req'[s].kind = "create" => req'[s] = req[s]
             /\ req'[s].kind = "locked" =>
                   /\ req[s].kind = "locked" /\ req'[s].hold = req[s].hold /\ s # r
                   /\ req'[s].count = req[s].count
                   /\ req'[s].clean => req[s].clean /\ req[s].hold \notin hs
             /\ req'[s].kind = "capacity" /\ req'[s].clean =>
                   /\ req[s].kind = "capacity" /\ req[s].clean
                   /\ req'[s].valid = req[s].valid /\ req'[s].count = req[s].count
    OBVIOUS
  <2>1. req' = Ended(r, hs, FALSE)
    OBVIOUS
  <2> QED BY <1>2, <2>1, EndedKeeps
<1>4. \A s \in Requests : req[s].kind \in {"create", "locked"} => req[s].hold \in Holds
  BY TypedState, KindsOf, CreatingFields, UpdatingFields
<1>5. Creators'
  <2>1. \A s \in Requests : req'[s].kind = "create" =>
              req'[s] = req[s] /\ hold'[req[s].hold] = Null
    <3> SUFFICES ASSUME NEW s \in Requests, req'[s].kind = "create"
                 PROVE  req'[s] = req[s] /\ hold'[req[s].hold] = Null
      OBVIOUS
    <3>1. req'[s] = req[s]
      BY <1>3
    <3>2. PICK g : g = req[s].hold
      OBVIOUS
    <3>3. g \in Holds
      BY <1>4, <3>1, <3>2
    <3>4. hold[g] = Null
      BY <3>1, <3>2 DEF Creators
    <3> QED BY <3>1, <3>2, <3>3, <3>4
  <2> QED BY <2>1, CreatorsKept
<1>6. \A g : T = {} \/ g \notin hs => InHold(g)' = InHold(g)
  BY <1>1
<1>7. Lockers'
  <2>1. \A s \in Requests : req'[s].kind = "locked" =>
              /\ req[s].kind = "locked" /\ req'[s].hold = req[s].hold
              /\ req'[s].count = req[s].count
              /\ hold'[req[s].hold] # Null /\ s \in hold'[req[s].hold].readers
              /\ req'[s].clean =>
                    req[s].clean /\ \A g : g = req[s].hold => InHold(g)' = InHold(g)
    <3> SUFFICES ASSUME NEW s \in Requests, req'[s].kind = "locked"
                 PROVE  /\ req[s].kind = "locked" /\ req'[s].hold = req[s].hold
                        /\ req'[s].count = req[s].count
                        /\ hold'[req[s].hold] # Null /\ s \in hold'[req[s].hold].readers
                        /\ req'[s].clean =>
                              req[s].clean /\ \A g : g = req[s].hold => InHold(g)' = InHold(g)
      OBVIOUS
    <3>1. PICK g : g = req[s].hold
      OBVIOUS
    <3>2. g \in Holds /\ hold[g] # Null /\ s \in hold[g].readers /\ g # h
      BY <1>3, <1>4, <3>1 DEF Lockers
    <3>3. req'[s].clean => InHold(g)' = InHold(g)
      BY <1>3, <1>6, <3>1
    <3> QED BY <1>3, <3>1, <3>2, <3>3
  <2> QED BY <2>1, LockersKept
<1>8. Counted' /\ CapacityAsAsked' /\ TokenOfRow'
  BY <1>1, <1>3, CountsKept
<1> QED BY <1>5, <1>7, <1>8

LEMMA FinishUpdateTallies ==
    ASSUME Typed, Tallied, NEW r \in Requests, FinishUpdate(r)
    PROVE  Tallied'
<1>0. PICK q : q = req[r]
  OBVIOUS
<1>1. PICK h, n, count : h = q.hold /\ n = q.n /\ count = q.count
  OBVIOUS
<1>2. PICK p : p = hold[h].parent
  OBVIOUS
<1>3. /\ hold[h] # Null /\ r \in hold[h].readers
      /\ \A s \in Requests : req[s].kind = "locked" /\ req[s].hold = h => s = r
      /\ q.clean => count = Cardinality(InHold(h))
  BY <1>0, <1>1 DEF FinishUpdate, Tallied, Lockers
<1>4. PICK row : row = Changed(hold[h], q.set)
  OBVIOUS
<1>5. /\ q \in Updating /\ hold[h] \in HoldRow
      /\ hold' = [hold EXCEPT ![h] = row]
      /\ \/ UNCHANGED <<ticket, wanted>> /\ req' = [req EXCEPT ![r] = Done]
         \/ /\ n \in Nat
            /\ \E T \in SUBSET Requantified(h, count, n).from :
                  /\ Cardinality(T) = Requantified(h, count, n).n
                  /\ ticket' = Move(T, Requantified(h, count, n).to)
            /\ wanted' = [g \in Holds |->
                                IF g = h THEN (IF q.clean THEN n ELSE Null)
                                ELSE IF g = p THEN MovedBy(p, count - n)
                                ELSE wanted[g]]
            /\ req' = Ended(r, IF count = n THEN {} ELSE {h, p}, FALSE)
      /\ asked' = asked
  <2>1. hold[req[r].hold] # Null
    BY <1>0, <1>1, <1>3
  <2>2. /\ q \in Updating /\ hold[q.hold] \in HoldRow
        /\ hold' = [hold EXCEPT ![q.hold] = Changed(hold[q.hold], q.set)]
        /\ \/ UNCHANGED <<ticket, wanted>> /\ req' = [req EXCEPT ![r] = Done]
           \/ /\ q.n \in Nat
              /\ \E T \in SUBSET Requantified(q.hold, q.count, q.n).from :
                    /\ Cardinality(T) = Requantified(q.hold, q.count, q.n).n
                    /\ ticket' = Move(T, Requantified(q.hold, q.count, q.n).to)
              /\ wanted' = [g \in Holds |->
                             IF g = q.hold THEN (IF q.clean THEN q.n ELSE Null)
                             ELSE IF g = hold[q.hold].parent
                             THEN MovedBy(hold[q.hold].parent, q.count - q.n)
                             ELSE wanted[g]]
              /\ req' = Ended(r, IF q.count = q.n THEN {} ELSE {q.hold, hold[q.hold].parent}, FALSE)
        /\ asked' = asked
    BY <1>0, <2>1, FinishUpdateIs
  <2> QED BY <1>1, <1>2, <1>4, <2>2
<1>6. h \in Holds /\ count \in Nat /\ q.clean \in BOOLEAN /\ row \in HoldRow /\ row # Null
      /\ row.parent = p /\ p \in Holds \cup {Null} /\ h # Null
  BY <1>1, <1>2, <1>4, <1>5, UpdatingFields, ChangedHold, HoldFields, NullAssumption
<1>7. hold'[h] = row /\ \A g \in Holds \ {h} : hold'[g] = hold[g]
  BY <1>5, <1>6 DEF Typed
<1>8. p # h /\ (p # Null => hold[p] # Null)
  BY <1>2, <1>3, <1>6 DEF Tallied, NotItsOwn, HeldTicketsCanBeFound
<1>9. CASE UNCHANGED <<ticket, wanted>> /\ req' = [req EXCEPT ![r] = Done]
  <2>1. \A s \in Requests : req[s].kind = "locked" =>
           req[s].hold \in Holds /\ s \in hold[req[s].hold].readers
    BY TypedState, KindsOf, UpdatingFields DEF Tallied, Lockers
  <2>2. \A g \in Holds : /\ hold'[g] # Null <=> hold[g] # Null
                         /\ hold[g] # Null => hold'[g].parent = hold[g].parent
    BY <1>2, <1>3, <1>6, <1>7
  <2>3. \A s \in Requests \ {r} : req[s].kind = "locked" => s \in hold'[req[s].hold].readers
    BY <1>3, <1>7, <2>1
  <2>4. req'[r] = Done /\ \A s \in Requests \ {r} : req'[s] = req[s]
    BY <1>9 DEF Typed
  <2>5. req'[r].kind = "done"
    BY <2>4 DEF Done
  <2> QED BY <1>5, <1>9, <2>2, <2>3, <2>4, <2>5, OthersStay DEF Tallied
<1>10. CASE /\ n \in Nat
            /\ \E T \in SUBSET Requantified(h, count, n).from :
                  /\ Cardinality(T) = Requantified(h, count, n).n
                  /\ ticket' = Move(T, Requantified(h, count, n).to)
            /\ wanted' = [g \in Holds |->
                                IF g = h THEN (IF q.clean THEN n ELSE Null)
                                ELSE IF g = p THEN MovedBy(p, count - n)
                                ELSE wanted[g]]
            /\ req' = Ended(r, IF count = n THEN {} ELSE {h, p}, FALSE)
  <2>1. PICK m : m = Requantified(h, count, n)
    OBVIOUS
  <2>2. PICK T \in SUBSET m.from : Cardinality(T) = m.n /\ ticket' = Move(T, m.to)
    BY <1>10, <2>1
  <2>3. PICK from, to : from = (IF count < n THEN p ELSE h) /\ to = (IF count < n THEN h ELSE p)
    OBVIOUS
  <2>4. /\ m.to = to /\ m.from \subseteq InHold(from)
        /\ m.n = IF count < n THEN n - count ELSE count - n
    BY <1>2, <2>1, <2>3, TypedState DEF Requantified
  <2>5. /\ from \in Holds \cup {Null} /\ to \in Holds \cup {Null} /\ to # from
        /\ T \in SUBSET InHold(from) /\ ticket' = Move(T, to) /\ Cardinality(T) = m.n
    BY <1>6, <1>8, <2>2, <2>3, <2>4
  <2>6. PICK hs : hs = IF count = n THEN {} ELSE {h, p}
    OBVIOUS
  <2>7. req' = Ended(r, hs, FALSE)
    BY <1>10, <2>6
  <2>8. T = {} \/ (from \in hs /\ to \in hs)
    <3>1. IsFiniteSet(T)
      BY <2>5, TypedState, RowsAreFinite
    <3>2. count = n => T = {}
      BY <1>6, <2>4, <2>5, <3>1, FS_EmptySet
    <3> QED BY <2>3, <2>6, <3>2
  <2>9. Creators' /\ Lockers' /\ Counted' /\ CapacityAsAsked' /\ TokenOfRow'
    <3>1. /\ h \in Holds /\ hold[h] # Null
          /\ from \in Holds \cup {Null} /\ to \in Holds \cup {Null} /\ to # from
          /\ T \in SUBSET InHold(from) /\ ticket' = Move(T, to)
          /\ req' = Ended(r, hs, FALSE)
          /\ T = {} \/ (from \in hs /\ to \in hs)
          /\ \A g \in Holds \ {h} : hold'[g] = hold[g]
          /\ \A s \in Requests \ {r} : req[s].kind = "locked" => req[s].hold # h
          /\ asked' = asked
      BY <1>3, <1>5, <1>6, <1>7, <2>5, <2>7, <2>8
    <3>2. Creators /\ Lockers /\ Counted /\ CapacityAsAsked /\ TokenOfRow
      BY DEF Tallied
    <3> QED BY <3>1, <3>2, MoverKeeps, ZenonT(40)
  <2>10. /\ Issued' = Issued /\ Valid' = Valid
         /\ \A i \in Issued : ticket'[i].raced = ticket[i].raced /\ ticket'[i].token = ticket[i].token
         /\ \A i \in Issued : ticket'[i].hold = IF i \in T THEN to ELSE ticket[i].hold
         /\ InHold(to)' = InHold(to) \cup T
         /\ InHold(from)' = InHold(from) \ T
         /\ \A g : g # from /\ g # to => InHold(g)' = InHold(g)
         /\ Cardinality(InHold(to) \cup T) = Cardinality(InHold(to)) + Cardinality(T)
         /\ Cardinality(InHold(from) \ T) = Cardinality(InHold(from)) - Cardinality(T)
    <3>1. /\ Typed /\ from \in Holds \cup {Null} /\ to \in Holds \cup {Null} /\ to # from
          /\ T \in SUBSET InHold(from) /\ ticket' = Move(T, to)
      BY <2>5
    <3> QED BY ONLY <3>1, MoveIs
  <2>11. NotItsOwn'
    BY <1>6, <1>7, <1>8 DEF Tallied, NotItsOwn
  <2>12. HeldTicketsCanBeFound'
    <3>1. \A i \in Issued' : ticket'[i].hold # Null => hold'[ticket'[i].hold] # Null
      <4>1. \A g \in Holds : hold[g] # Null => hold'[g] # Null
        BY <1>6, <1>7
      <4>2. to # Null => hold'[to] # Null
        BY <1>3, <1>6, <1>8, <2>3, <4>1
      <4>3. \A i \in Issued : ticket[i].hold # Null =>
               ticket[i].hold \in Holds /\ hold[ticket[i].hold] # Null
        BY TypedState, TicketFields DEF Tallied, HeldTicketsCanBeFound
      <4> QED BY <2>10, <4>1, <4>2, <4>3
    <3>2. \A g \in Holds : hold'[g] # Null /\ hold'[g].parent # Null => hold'[hold'[g].parent] # Null
      <4>1. \A g \in Holds : /\ hold'[g] # Null <=> hold[g] # Null
                             /\ hold[g] # Null => hold'[g].parent = hold[g].parent
        BY <1>2, <1>3, <1>6, <1>7
      <4>2. \A g \in Holds : hold[g] # Null /\ hold[g].parent # Null =>
                hold[g].parent \in Holds /\ hold[hold[g].parent] # Null
        BY TypedState, HoldFields DEF Tallied, HeldTicketsCanBeFound
      <4> QED BY <4>1, <4>2
    <3> QED BY <3>1, <3>2 DEF HeldTicketsCanBeFound
  <2>13. Wanted'
    <3>1. /\ Cardinality(InHold(h)) \in Nat /\ Cardinality(InHold(p)) \in Nat
          /\ \A g \in Holds : wanted[g] \in Int \cup {Null}
      BY TypedState, RowsAreFinite DEF Typed
    <3>2. /\ Cardinality(InHold(h)') = Cardinality(InHold(h)) + (n - count)
          /\ Cardinality(InHold(p)') = Cardinality(InHold(p)) + (count - n)
      <4>1. n \in Nat /\ count \in Nat
        BY <1>6, <1>10
      <4>2. CASE count < n
        <5>1. to = h /\ from = p /\ Cardinality(T) = n - count
          BY <2>3, <2>4, <2>5, <4>2
        <5>2. /\ Cardinality(InHold(h)') = Cardinality(InHold(h)) + (n - count)
              /\ Cardinality(InHold(p)') = Cardinality(InHold(p)) - (n - count)
          BY ONLY <2>10, <5>1
        <5> QED BY ONLY <3>1, <4>1, <5>2
      <4>3. CASE ~(count < n)
        <5>1. to = p /\ from = h /\ Cardinality(T) = count - n
          BY <2>3, <2>4, <2>5, <4>3
        <5>2. /\ Cardinality(InHold(p)') = Cardinality(InHold(p)) + (count - n)
              /\ Cardinality(InHold(h)') = Cardinality(InHold(h)) - (count - n)
          BY ONLY <2>10, <5>1
        <5> QED BY ONLY <3>1, <4>1, <5>2
      <4> QED BY <4>2, <4>3
    <3>3. ASSUME NEW g \in Holds, wanted'[g] # Null
          PROVE  hold'[g] # Null /\ Cardinality(InHold(g)') = wanted'[g]
      <4>1. CASE g = h
        BY <1>3, <1>6, <1>7, <1>10, <3>1, <3>2, <3>3, <4>1
      <4>2. CASE g = p
        <5>1. wanted'[g] = MovedBy(p, count - n)
          BY <1>8, <1>10, <4>2
        <5>2. p # Null /\ wanted[p] # Null /\ wanted'[g] = wanted[p] + (count - n)
          BY <3>3, <5>1 DEF MovedBy
        <5>3. hold[p] # Null /\ Cardinality(InHold(p)) = wanted[p]
          BY <4>2, <5>2 DEF Tallied, Wanted
        <5> QED BY <1>7, <1>8, <3>2, <4>2, <5>2, <5>3
      <4>3. CASE g # h /\ g # p
        <5>1. wanted'[g] = wanted[g] /\ InHold(g)' = InHold(g) /\ hold'[g] = hold[g]
          BY <1>7, <1>10, <2>3, <2>10, <4>3
        <5> QED BY <3>3, <5>1 DEF Tallied, Wanted
      <4> QED BY <4>1, <4>2, <4>3
    <3> QED BY <3>3 DEF Wanted
  <2> QED BY <2>9, <2>11, <2>12, <2>13 DEF Tallied
<1> QED BY <1>5, <1>9, <1>10

LEMMA FinishDestroyTallies ==
    ASSUME Typed, Tallied, NEW r \in Requests, FinishDestroy(r)
    PROVE  Tallied'
<1>0. PICK q : q = req[r]
  OBVIOUS
<1>1. PICK h, count : h = q.hold /\ count = q.count
  OBVIOUS
<1>2. PICK p : p = hold[h].parent
  OBVIOUS
<1>3. /\ q \in Destroying /\ ~Locked(h) /\ hold[h] \in HoldRow
      /\ \E T \in SUBSET InHold(h) :
            Cardinality(T) = count /\ Deletable(h, T) /\ ticket' = Move(T, p)
      /\ hold' = [hold EXCEPT ![h] = Null]
      /\ wanted' = [g \in Holds |-> IF g = h THEN Null
                                    ELSE IF g = p THEN MovedBy(g, count)
                                    ELSE wanted[g]]
      /\ req' = Ended(r, IF count = 0 THEN {} ELSE {h, p}, FALSE)
      /\ asked' = asked
  <2>1. /\ q \in Destroying /\ ~Locked(q.hold) /\ hold[q.hold] \in HoldRow
        /\ \E T \in SUBSET InHold(q.hold) :
              /\ Cardinality(T) = q.count /\ Deletable(q.hold, T)
              /\ \A i \in T : ticket[i].status # "Taken"
              /\ ticket' = Move(T, hold[q.hold].parent)
        /\ hold' = [hold EXCEPT ![q.hold] = Null]
        /\ wanted' = [g \in Holds |-> IF g = q.hold THEN Null
                                      ELSE IF g = hold[q.hold].parent THEN MovedBy(g, q.count)
                                      ELSE wanted[g]]
        /\ req' = Ended(r, IF q.count = 0 THEN {} ELSE {q.hold, hold[q.hold].parent}, FALSE)
        /\ UNCHANGED <<code, ordered, asked, contested>>
    BY <1>0, FinishDestroyIs
  <2> QED BY <1>1, <1>2, <2>1
<1>4. /\ h \in Holds /\ h # Null /\ count \in Nat /\ hold[h] # Null /\ p \in Holds \cup {Null}
  BY <1>1, <1>2, <1>3, DestroyingFields, HoldFields, NullAssumption
<1>5. p # h /\ (p # Null => hold[p] # Null)
  BY <1>2, <1>4 DEF Tallied, NotItsOwn, HeldTicketsCanBeFound
<1>6. PICK T \in SUBSET InHold(h) :
         Cardinality(T) = count /\ Deletable(h, T) /\ ticket' = Move(T, p)
  BY <1>3
<1>7. /\ T = InHold(h)
      /\ \A g \in Holds : hold[g] # Null => hold[g].parent # h
  BY <1>6 DEF Deletable
<1>8. hold'[h] = Null /\ \A g \in Holds \ {h} : hold'[g] = hold[g]
  BY <1>3, <1>4 DEF Typed
<1>9. PICK hs : hs = IF count = 0 THEN {} ELSE {h, p}
  OBVIOUS
<1>10. count = 0 => T = {}
  <2>1. IsFiniteSet(T)
    BY <1>6, TypedState, RowsAreFinite
  <2> QED BY <1>6, <2>1, FS_EmptySet
<1>11. \A s \in Requests \ {r} : req[s].kind = "locked" => req[s].hold # h
  BY <1>3 DEF Locked
<1>12. Creators' /\ Lockers' /\ Counted' /\ CapacityAsAsked' /\ TokenOfRow'
  <2>1. /\ h \in Holds /\ hold[h] # Null
        /\ h \in Holds \cup {Null} /\ p \in Holds \cup {Null} /\ p # h
        /\ T \in SUBSET InHold(h) /\ ticket' = Move(T, p)
        /\ req' = Ended(r, hs, FALSE)
        /\ T = {} \/ (h \in hs /\ p \in hs)
        /\ \A g \in Holds \ {h} : hold'[g] = hold[g]
        /\ \A s \in Requests \ {r} : req[s].kind = "locked" => req[s].hold # h
        /\ asked' = asked
    BY <1>3, <1>4, <1>5, <1>6, <1>8, <1>9, <1>10, <1>11
  <2>2. Creators /\ Lockers /\ Counted /\ CapacityAsAsked /\ TokenOfRow
    BY DEF Tallied
  <2> QED BY <2>1, <2>2, MoverKeeps
<1>13. /\ Issued' = Issued /\ Valid' = Valid
       /\ \A i \in Issued : ticket'[i].raced = ticket[i].raced /\ ticket'[i].token = ticket[i].token
       /\ \A i \in Issued : ticket'[i].hold = IF i \in T THEN p ELSE ticket[i].hold
       /\ InHold(p)' = InHold(p) \cup T
       /\ InHold(h)' = InHold(h) \ T
       /\ \A g : g # h /\ g # p => InHold(g)' = InHold(g)
       /\ Cardinality(InHold(p) \cup T) = Cardinality(InHold(p)) + Cardinality(T)
       /\ Cardinality(InHold(h) \ T) = Cardinality(InHold(h)) - Cardinality(T)
  <2>1. /\ Typed /\ h \in Holds \cup {Null} /\ p \in Holds \cup {Null} /\ p # h
        /\ T \in SUBSET InHold(h) /\ ticket' = Move(T, p)
    BY <1>4, <1>5, <1>6
  <2> QED BY ONLY <2>1, MoveIs
<1>14. NotItsOwn'
  BY <1>8 DEF Tallied, NotItsOwn
<1>15. HeldTicketsCanBeFound'
  <2>1. \A i \in Issued' : ticket'[i].hold # Null => hold'[ticket'[i].hold] # Null
    <3>1. \A i \in Issued : ticket[i].hold # Null =>
             ticket[i].hold \in Holds /\ hold[ticket[i].hold] # Null
      BY TypedState, TicketFields DEF Tallied, HeldTicketsCanBeFound
    <3>2. \A i \in Issued \ T : ticket[i].hold # h
      BY <1>7 DEF InHold
    <3>3. p # Null => hold'[p] # Null
      BY <1>4, <1>5, <1>8
    <3> QED BY <1>8, <1>13, <3>1, <3>2, <3>3
  <2>2. \A g \in Holds : hold'[g] # Null /\ hold'[g].parent # Null => hold'[hold'[g].parent] # Null
    <3>1. \A g \in Holds : hold[g] # Null /\ hold[g].parent # Null =>
              /\ hold[g].parent \in Holds /\ hold[hold[g].parent] # Null
              /\ hold[g].parent # h
      BY <1>7, TypedState, HoldFields DEF Tallied, HeldTicketsCanBeFound
    <3> QED BY <1>8, <3>1
  <2> QED BY <2>1, <2>2 DEF HeldTicketsCanBeFound
<1>16. Wanted'
  <2>1. /\ Cardinality(InHold(p)) \in Nat
        /\ \A g \in Holds : wanted[g] \in Int \cup {Null}
    BY TypedState, RowsAreFinite DEF Typed
  <2>2. Cardinality(InHold(p)') = Cardinality(InHold(p)) + count
    BY ONLY <1>6, <1>13
  <2>3. ASSUME NEW g \in Holds, wanted'[g] # Null
        PROVE  hold'[g] # Null /\ Cardinality(InHold(g)') = wanted'[g]
    <3>1. g # h
      BY <1>3, <2>3
    <3>2. CASE g = p
      <4>1. wanted'[g] = MovedBy(p, count)
        BY <1>3, <3>1, <3>2
      <4>2. p # Null /\ wanted[p] # Null /\ wanted'[g] = wanted[p] + count
        BY <2>3, <4>1 DEF MovedBy
      <4>3. hold[p] # Null /\ Cardinality(InHold(p)) = wanted[p]
        BY <3>2, <4>2 DEF Tallied, Wanted
      <4> QED BY <1>8, <2>2, <3>1, <3>2, <4>2, <4>3
    <3>3. CASE g # p
      <4>1. wanted'[g] = wanted[g] /\ InHold(g)' = InHold(g) /\ hold'[g] = hold[g]
        BY <1>3, <1>8, <1>13, <3>1, <3>3
      <4> QED BY <2>3, <4>1 DEF Tallied, Wanted
    <3> QED BY <3>2, <3>3
  <2> QED BY <2>3 DEF Wanted
<1> QED BY <1>12, <1>14, <1>15, <1>16 DEF Tallied

LEMMA CodeTallies ==
    ASSUME Typed, Tallied, CodeStep \/ CodeEnd
    PROVE  Tallied'
<1>1. UNCHANGED <<ticket, hold, wanted, asked>>
  BY CodesOnly
<1>2. \/ req' = req
      \/ \E r \in Requests : \E q :
            req' = [req EXCEPT ![r] = q] /\ q.kind \in {"newcode", "code", "done"}
  <2>1. ASSUME NEW r \in Requests, NEW c \in Codes, NEW w, NEW kind, NEW discount, NEW ts,
               StartCode(r, c, w, kind, discount, ts)
        PROVE  \E q : req' = [req EXCEPT ![r] = q] /\ q.kind \in {"newcode", "code", "done"}
    <3>1. PICK q : q = [kind |-> "newcode", code |-> c,
                        row |-> [word |-> w, kind |-> kind, discount |-> discount, types |-> ts,
                                 readers |-> {}]]
      OBVIOUS
    <3>2. q.kind = "newcode"
      BY <3>1
    <3> QED BY <2>1, <3>1, <3>2 DEF StartCode
  <2>2. ASSUME NEW r \in Requests, NEW c \in Codes, NEW w, NEW discount, NEW ts,
               StartCodeUpdate(r, c, w, discount, ts)
        PROVE  \E q : req' = [req EXCEPT ![r] = q] /\ q.kind \in {"newcode", "code", "done"}
    <3>1. PICK q : q = [kind |-> "code", code |-> c,
                        set |-> [word |-> w, discount |-> discount, types |-> ts]]
      OBVIOUS
    <3>2. q.kind = "code"
      BY <3>1
    <3> QED BY <2>2, <3>1, <3>2 DEF StartCodeUpdate
  <2>3. ASSUME NEW r \in Requests, FinishCode(r) \/ FinishCodeUpdate(r)
        PROVE  \E q : req' = [req EXCEPT ![r] = q] /\ q.kind \in {"newcode", "code", "done"}
    BY <2>3 DEF FinishCode, FinishCodeUpdate, Done
  <2>4. Organizers \subseteq Requests
    BY RequestAssumption
  <2>5. CASE CodeStep
    <3>1. PICK c \in Codes :
            \/ DestroyCode(c)
            \/ \E r \in Organizers, w \in Words, kind \in {"Discount", "Access"},
                  discount \in BOOLEAN, ts \in SUBSET Types : StartCode(r, c, w, kind, discount, ts)
            \/ \E r \in Organizers, w \in Words, discount \in BOOLEAN, ts \in SUBSET Types :
                /\ code[c] # Null
                /\ StartCodeUpdate(r, c, Unless(w, code[c].word), Unless(discount, code[c].discount),
                                   Unless(ts, code[c].types))
      BY <2>5 DEF CodeStep
    <3>2. CASE DestroyCode(c)
      BY <3>2 DEF DestroyCode
    <3> QED BY <2>1, <2>2, <2>4, <3>1, <3>2
  <2>6. CASE CodeEnd
    BY <2>3, <2>6 DEF CodeEnd
  <2> QED BY <2>5, <2>6
<1>3. \A s \in Requests : req[s].kind = "locked" => s \in hold[req[s].hold].readers
  BY DEF Tallied, Lockers
<1>4. CASE req' = req
  <2>1. Issued' = Issued /\ Valid' = Valid /\ \A h : InHold(h)' = InHold(h)
    BY <1>1 DEF Issued, Valid, InHold
  <2>2. Creators' /\ NotItsOwn'
    BY <1>1, <1>4 DEF Tallied, Creators, NotItsOwn
  <2>3. \A s \in Requests : req'[s].kind = "locked" =>
              hold'[req[s].hold] # Null /\ s \in hold'[req[s].hold].readers
    BY <1>1, <1>4 DEF Tallied, Lockers
  <2>4. Lockers'
    BY <1>4, <2>1, <2>3, LockersKept DEF Tallied
  <2>5. HeldTicketsCanBeFound' /\ Wanted'
    BY <1>1, <2>1 DEF Tallied, HeldTicketsCanBeFound, Wanted
  <2>6. Counted' /\ CapacityAsAsked' /\ TokenOfRow'
    BY <1>1, <1>4, <2>1 DEF Tallied, Counted, CapacityAsAsked, TokenOfRow
  <2> QED BY <2>2, <2>4, <2>5, <2>6 DEF Tallied
<1>5. CASE \E r \in Requests : \E q :
              req' = [req EXCEPT ![r] = q] /\ q.kind \in {"newcode", "code", "done"}
  <2>1. PICK r \in Requests : \E q :
              req' = [req EXCEPT ![r] = q] /\ q.kind \in {"newcode", "code", "done"}
    BY <1>5
  <2>2. /\ req'[r].kind \notin {"create", "locked", "capacity"}
        /\ \A s \in Requests \ {r} : req'[s] = req[s]
    BY <2>1 DEF Typed
  <2> QED BY <1>1, <1>3, <2>2, OthersStay DEF Tallied
<1> QED BY <1>2, <1>4, <1>5

LEMMA FailTallies ==
    ASSUME Typed, Tallied, NEW r \in Requests, Fail(r)
    PROVE  Tallied'
<1>1. /\ req'[r].kind = "done" /\ \A s \in Requests \ {r} : req'[s] = req[s]
      /\ UNCHANGED <<ticket, hold, wanted, asked>>
  BY DEF Fail, Done, Typed
<1>2. \A s \in Requests : req[s].kind = "locked" => s \in hold[req[s].hold].readers
  BY DEF Tallied, Lockers
<1> QED BY <1>1, <1>2, OthersStay DEF Tallied

-----------------------------------------------------------------------------
(* Capacity.                                                               *)

LEMMA StartCapacityTallies ==
    ASSUME Typed, Tallied, NEW r \in Requests, NEW n \in Quantities, StartCapacity(r, n)
    PROVE  Tallied'
<1>1. PICK q : q = [kind |-> "capacity", n |-> n, clean |-> TRUE,
                    valid |-> Cardinality(Valid), count |-> Cardinality(Issued)]
  OBVIOUS
<1>2. /\ q.kind = "capacity" /\ q.valid = Cardinality(Valid) /\ q.count = Cardinality(Issued)
  BY <1>1
<1>3. /\ req'[r] = q /\ \A s \in Requests \ {r} : req'[s] = req[s]
      /\ UNCHANGED <<ticket, hold, wanted, asked>>
  BY <1>1 DEF StartCapacity, Typed
<1>4. \A s \in Requests : req[s].kind = "locked" => s \in hold[req[s].hold].readers
  BY DEF Tallied, Lockers
<1>5. /\ NotItsOwn' /\ HeldTicketsCanBeFound' /\ Wanted' /\ Creators' /\ Lockers'
      /\ CapacityAsAsked' /\ TokenOfRow' /\ Issued' = Issued /\ Valid' = Valid
  BY <1>2, <1>3, <1>4, OthersStay
<1>6. Counted'
  BY <1>2, <1>3, <1>5 DEF Tallied, Counted
<1> QED BY <1>5, <1>6 DEF Tallied

\* The new rows follow the others.
LEMMA IssueIs ==
    ASSUME Typed, Issued = 1 .. Cardinality(Issued), NEW q \in Sizing, Issue(q)
    PROVE  LET last == Cardinality(Issued)
               more == q.n - q.valid
               new == last + 1 .. last + more
           IN  /\ more \in Nat /\ last \in Nat
               /\ Issued' = Issued \cup new /\ Valid' = Valid \cup new
               /\ Issued' = 1 .. Cardinality(Issued')
               /\ Cardinality(Valid') = Cardinality(Valid) + more
               /\ \A i \in Issued : i \notin new /\ ticket'[i] = ticket[i]
               /\ \A i \in new : /\ ticket'[i].hold = Null /\ ticket'[i].raced = ~q.clean
                                 /\ ticket'[i].token = q.count + i - last - 1
<1>1. PICK last : last = Cardinality(Issued)
  OBVIOUS
<1>2. PICK more : more = q.n - q.valid
  OBVIOUS
<1>3. PICK new : new = last + 1 .. last + more
  OBVIOUS
<1>4. PICK d : d = ~q.clean
  OBVIOUS
<1>5. /\ q.n \in Nat /\ q.valid \in Nat /\ q.count \in Nat /\ q.clean \in BOOLEAN
      /\ last \in Nat
  BY <1>1, SizingFields, QuantitiesAreNat, TypedState, RowsAreFinite
<1>6. more \in Nat /\ new \subseteq Rows /\ d \in BOOLEAN
      /\ last + q.n - q.valid = last + more
  BY <1>1, <1>2, <1>3, <1>4, <1>5 DEF Issue
<1> DEFINE row(i) == [token |-> FirstToken(q) + i - last - 1, hold |-> Null,
                      raced |-> d, status |-> "Available"]
<1>7. ticket' = [i \in Rows |-> IF i \in new THEN row(i) ELSE ticket[i]]
  BY <1>1, <1>3, <1>4, <1>6 DEF Issue
<1>8. \A i \in new : /\ row(i) # Null /\ row(i).hold = Null /\ row(i).raced = d
                     /\ row(i).token = q.count + i - last - 1
                     /\ row(i).status = "Available"
  <2> SUFFICES ASSUME NEW i \in new
               PROVE  row(i) # Null
    BY DEF FirstToken
  <2>1. FirstToken(q) + i - last - 1 \in Nat
    BY <1>3, <1>5, <1>6 DEF FirstToken
  <2>2. row(i) \in TicketRow
    BY <1>6, <2>1 DEF TicketRow
  <2> QED BY <2>2, RowAssumption
<1> HIDE DEF row
<1>9. Issued = 1 .. last
  BY <1>1
<1>10. \A i \in Issued : i \notin new
  BY <1>3, <1>5, <1>6, <1>9
<1>11. \A i \in Rows : ticket'[i] = IF i \in new THEN row(i) ELSE ticket[i]
  BY <1>7
<1>12. Issued' = Issued \cup new
  BY <1>6, <1>8, <1>11 DEF Issued
<1>13. Valid' = Valid \cup new
  BY <1>6, <1>8, <1>10, <1>11, <1>12, TypedState DEF Valid
<1>14. /\ IsFiniteSet(new) /\ Cardinality(new) = more
  <2>1. IsFiniteSet(new)
    BY <1>6, RowsAreFinite
  <2>2. Cardinality(new) = IF last + 1 > last + more THEN 0 ELSE (last + more) - (last + 1) + 1
    BY <1>3, <1>5, <1>6, FS_Interval
  <2> QED BY <1>5, <1>6, <2>1, <2>2
<1>15. Issued' = 1 .. Cardinality(Issued')
  <2>1. Issued \cup new = 1 .. last + more
    BY <1>3, <1>5, <1>6, <1>9
  <2>2. Cardinality(1 .. last + more) = last + more
    <3>1. Cardinality(1 .. last + more) = IF 1 > last + more THEN 0 ELSE (last + more) - 1 + 1
      BY <1>5, <1>6, FS_Interval
    <3> QED BY <1>5, <1>6, <3>1
  <2> QED BY <1>12, <2>1, <2>2
<1>16. Cardinality(Valid') = Cardinality(Valid) + more
  <2>1. IsFiniteSet(Valid) /\ Cardinality(Valid) \in Nat
    BY TypedState, RowsAreFinite
  <2>2. Valid \cap new = {}
    BY <1>10, TypedState
  <2>3. Cardinality(Valid \cup new)
           = Cardinality(Valid) + Cardinality(new) - Cardinality(Valid \cap new)
    BY <1>14, <2>1, FS_Union
  <2>4. Cardinality(Valid \cap new) = 0
    BY <2>2, FS_EmptySet
  <2> QED BY <1>6, <1>13, <1>14, <2>1, <2>3, <2>4
<1>17. \A i \in Issued : i \notin new /\ ticket'[i] = ticket[i]
  BY <1>10, <1>11, TypedState
<1>18. \A i \in new : /\ ticket'[i].hold = Null /\ ticket'[i].raced = d
                      /\ ticket'[i].token = q.count + i - last - 1
  BY <1>6, <1>8, <1>11
<1> QED BY <1>1, <1>2, <1>3, <1>4, <1>5, <1>6, <1>12, <1>13, <1>15, <1>16, <1>17, <1>18

LEMMA WithdrawIs ==
    ASSUME Typed, NEW q \in Sizing, Withdraw(q)
    PROVE  /\ Issued' = Issued
           /\ Cardinality(Valid') = Cardinality(Valid) - (q.valid - q.n)
           /\ \A i \in Issued : /\ ticket'[i].hold = ticket[i].hold
                                /\ ticket'[i].raced = ticket[i].raced
                                /\ ticket'[i].token = ticket[i].token
<1>1. PICK T \in SUBSET Nullifiable :
        /\ Cardinality(T) = q.valid - q.n
        /\ ticket' = [i \in Rows |-> IF i \in T THEN [ticket[i] EXCEPT !.status = "Nullified"]
                                     ELSE ticket[i]]
  BY DEF Withdraw, Enough
<1>2. T \subseteq Valid /\ T \subseteq Issued /\ \A i \in Issued : i \in Rows
  BY <1>1, TypedState
<1>3. \A i \in T : LET row == [ticket[i] EXCEPT !.status = "Nullified"]
                   IN  /\ row # Null /\ row.status = "Nullified" /\ row.hold = ticket[i].hold
                       /\ row.raced = ticket[i].raced /\ row.token = ticket[i].token
  <2> SUFFICES ASSUME NEW i \in T
               PROVE  LET row == [ticket[i] EXCEPT !.status = "Nullified"]
                      IN  /\ row # Null /\ row.status = "Nullified" /\ row.hold = ticket[i].hold
                          /\ row.raced = ticket[i].raced /\ row.token = ticket[i].token
    OBVIOUS
  <2>1. ticket[i] \in TicketRow
    BY <1>2, TypedState
  <2>2. [ticket[i] EXCEPT !.status = "Nullified"] \in TicketRow
    BY <2>1 DEF TicketRow
  <2> QED BY <2>1, <2>2, TicketFields DEF TicketRow
<1>4. /\ \A i \in T : /\ ticket'[i] # Null /\ ticket'[i].status = "Nullified"
                      /\ ticket'[i].hold = ticket[i].hold
                      /\ ticket'[i].raced = ticket[i].raced /\ ticket'[i].token = ticket[i].token
      /\ \A i \in Rows \ T : ticket'[i] = ticket[i]
  BY <1>1, <1>2, <1>3
<1>5. Issued' = Issued
  BY <1>2, <1>4 DEF Issued
<1>6. Valid' = Valid \ T
  BY <1>2, <1>4, <1>5 DEF Valid
<1>7. Cardinality(Valid \ T) = Cardinality(Valid) - Cardinality(T)
  <2>1. IsFiniteSet(Valid) /\ Valid \cap T = T
    BY <1>2, TypedState, RowsAreFinite
  <2> QED BY <2>1, FS_Difference
<1>8. \A i \in Issued : /\ ticket'[i].hold = ticket[i].hold
                        /\ ticket'[i].raced = ticket[i].raced
                        /\ ticket'[i].token = ticket[i].token
  BY <1>2, <1>4
<1> QED BY <1>1, <1>5, <1>6, <1>7, <1>8

LEMMA FinishCapacityTallies ==
    ASSUME Typed, Tallied, NEW r \in Requests, FinishCapacity(r)
    PROVE  Tallied'
<1>1. PICK q : q = req[r]
  OBVIOUS
<1>2. q.kind = "capacity" /\ q \in Sizing
  BY <1>1, TypedState, KindsOf DEF FinishCapacity
<1>3. q.n \in Nat /\ q.valid \in Nat /\ q.count \in Nat /\ q.clean \in BOOLEAN
  BY <1>2, SizingFields, QuantitiesAreNat
<1>4. /\ Issue(q) \/ Withdraw(q) \/ (q.valid = q.n /\ UNCHANGED ticket)
      /\ asked' = [target |-> IF q.clean THEN q.n ELSE Null, revived |-> 0]
      /\ req' = Ended(r, {}, q.valid # q.n)
      /\ UNCHANGED <<hold, wanted>>
  BY <1>1 DEF FinishCapacity
<1>5. q.clean => q.valid = Cardinality(Valid) /\ q.count = Cardinality(Issued)
  BY <1>1, <1>2 DEF Tallied, Counted
<1>6. Issued = 1 .. Cardinality(Issued)
  BY DEF Tallied, Counted
<1>7. Cardinality(Valid) \in Nat
  BY TypedState, RowsAreFinite
\* What becomes of the rows.
<1> DEFINE Rest == /\ \A i \in Issued : i \in Issued' /\ ticket'[i].hold = ticket[i].hold
                   /\ \A i \in Issued' \ Issued : ticket'[i].hold = Null
                   /\ Issued' = 1 .. Cardinality(Issued')
                   /\ Cardinality(Valid') = Cardinality(Valid) + (q.n - q.valid)
                   /\ TokenOfRow'
                   /\ q.valid = q.n => Issued' = Issued /\ Valid' = Valid
<1>8. Rest
  <2>1. CASE Issue(q)
    <3>1. PICK last : last = Cardinality(Issued)
      OBVIOUS
    <3>2. PICK more : more = q.n - q.valid
      OBVIOUS
    <3>3. PICK new : new = last + 1 .. last + more
      OBVIOUS
    <3>4. /\ more \in Nat /\ last \in Nat
          /\ Issued' = Issued \cup new /\ Valid' = Valid \cup new
          /\ Issued' = 1 .. Cardinality(Issued')
          /\ Cardinality(Valid') = Cardinality(Valid) + more
          /\ \A i \in Issued : i \notin new /\ ticket'[i] = ticket[i]
          /\ \A i \in new : /\ ticket'[i].hold = Null /\ ticket'[i].raced = ~q.clean
                            /\ ticket'[i].token = q.count + i - last - 1
      BY <1>2, <1>6, <2>1, <3>1, <3>2, <3>3, IssueIs
    <3>5. TokenOfRow'
      <4> SUFFICES ASSUME NEW i \in Issued', ~ticket'[i].raced
                   PROVE  ticket'[i].token = i - 1
        BY DEF TokenOfRow
      <4>1. CASE i \in Issued
        BY <3>4, <4>1 DEF Tallied, TokenOfRow
      <4>2. CASE i \in new
        <5>1. ticket'[i].raced = ~q.clean /\ ticket'[i].token = q.count + i - last - 1
          BY <3>4, <4>2
        <5>2. q.count = last
          BY <1>3, <1>5, <3>1, <5>1
        <5>3. i \in Int
          BY <3>3, <3>4, <4>2
        <5> QED BY <3>4, <5>1, <5>2, <5>3
      <4> QED BY <3>4, <4>1, <4>2
    <3>6. q.valid # q.n
      BY <1>3, <2>1 DEF Issue
    <3> QED BY <3>2, <3>4, <3>5, <3>6
  <2>2. CASE Withdraw(q)
    <3>1. /\ Issued' = Issued
          /\ Cardinality(Valid') = Cardinality(Valid) - (q.valid - q.n)
          /\ \A i \in Issued : /\ ticket'[i].hold = ticket[i].hold
                               /\ ticket'[i].raced = ticket[i].raced
                               /\ ticket'[i].token = ticket[i].token
      BY <1>2, <2>2, WithdrawIs
    <3>2. TokenOfRow'
      BY <3>1 DEF Tallied, TokenOfRow
    <3>3. q.valid # q.n
      BY <1>3, <2>2 DEF Withdraw
    <3>4. Cardinality(Valid') = Cardinality(Valid) + (q.n - q.valid)
      BY <1>3, <1>7, <3>1
    <3> QED BY <1>6, <3>1, <3>2, <3>3, <3>4
  <2>3. CASE q.valid = q.n /\ UNCHANGED ticket
    <3>1. Issued' = Issued /\ Valid' = Valid
      BY <2>3 DEF Issued, Valid
    <3>2. TokenOfRow'
      BY <2>3, <3>1 DEF Tallied, TokenOfRow
    <3>3. Cardinality(Valid') = Cardinality(Valid) + (q.n - q.valid)
      BY <1>3, <1>7, <2>3, <3>1
    <3> QED BY <1>6, <2>3, <3>1, <3>2, <3>3
  <2> QED BY <1>4, <2>1, <2>2, <2>3
<1>9. \A h \in Holds : InHold(h)' = InHold(h)
  <2>1. \A h \in Holds : h # Null
    BY NullAssumption
  <2> QED BY <1>8, <2>1 DEF InHold
<1>10. \A s \in Requests :
             /\ req'[s].kind = "create" => req'[s] = req[s]
             /\ req'[s].kind = "locked" =>
                   /\ req[s].kind = "locked" /\ req'[s].hold = req[s].hold
                   /\ req'[s].count = req[s].count
                   /\ req'[s].clean => req[s].clean
             /\ req'[s].kind = "capacity" /\ req'[s].clean =>
                   /\ req[s].kind = "capacity" /\ req[s].clean /\ q.valid = q.n
                   /\ req'[s].valid = req[s].valid /\ req'[s].count = req[s].count
  <2>1. PICK c : c = (q.valid # q.n)
    OBVIOUS
  <2>2. PICK hs : hs = {}
    OBVIOUS
  <2>3. c \in BOOLEAN /\ req' = Ended(r, hs, c)
    BY <1>4, <2>1, <2>2
  <2> SUFFICES ASSUME NEW s \in Requests
               PROVE
             /\ req'[s].kind = "create" => req'[s] = req[s]
             /\ req'[s].kind = "locked" =>
                   /\ req[s].kind = "locked" /\ req'[s].hold = req[s].hold
                   /\ req'[s].count = req[s].count
                   /\ req'[s].clean => req[s].clean
             /\ req'[s].kind = "capacity" /\ req'[s].clean =>
                   /\ req[s].kind = "capacity" /\ req[s].clean /\ q.valid = q.n
                   /\ req'[s].valid = req[s].valid /\ req'[s].count = req[s].count
    OBVIOUS
  <2>4. /\ req'[s].kind = "create" => req'[s] = req[s] /\ s # r
        /\ req'[s].kind = "locked" =>
              /\ req[s].kind = "locked" /\ req'[s].hold = req[s].hold /\ s # r
              /\ req'[s].count = req[s].count
              /\ req'[s].clean => req[s].clean /\ req[s].hold \notin hs
        /\ req'[s].kind = "capacity" /\ req'[s].clean =>
              /\ req[s].kind = "capacity" /\ req[s].clean /\ s # r /\ ~c
              /\ req'[s].valid = req[s].valid /\ req'[s].count = req[s].count
    BY <2>3, EndedKeeps
  <2> QED BY <2>1, <2>4
<1> HIDE DEF Rest
<1>11. Creators'
  <2>1. Creators
    BY DEF Tallied
  <2>2. \A s \in Requests : req'[s].kind = "create" =>
              req'[s] = req[s] /\ hold'[req[s].hold] = Null
    BY <1>4, <1>10, <2>1 DEF Creators
  <2> QED BY <2>1, <2>2, CreatorsKept
<1>12. Lockers'
  <2>1. \A s \in Requests : req'[s].kind = "locked" =>
              /\ req[s].kind = "locked" /\ req'[s].hold = req[s].hold
              /\ req'[s].count = req[s].count
              /\ hold'[req[s].hold] # Null /\ s \in hold'[req[s].hold].readers
              /\ req'[s].clean =>
                    req[s].clean /\ \A g : g = req[s].hold => InHold(g)' = InHold(g)
    <3> SUFFICES ASSUME NEW s \in Requests, req'[s].kind = "locked"
                 PROVE  /\ req[s].kind = "locked" /\ req'[s].hold = req[s].hold
                        /\ req'[s].count = req[s].count
                        /\ hold'[req[s].hold] # Null /\ s \in hold'[req[s].hold].readers
                        /\ req'[s].clean =>
                              req[s].clean /\ \A g : g = req[s].hold => InHold(g)' = InHold(g)
      OBVIOUS
    <3>1. PICK g : g = req[s].hold
      OBVIOUS
    <3>2. req[s].kind = "locked"
      BY <1>10
    <3>3. hold[g] # Null /\ s \in hold[g].readers
      BY <3>1, <3>2 DEF Tallied, Lockers
    <3>4. g \in Holds
      BY <3>1, <3>2, TypedState, KindsOf, UpdatingFields
    <3> QED BY <1>4, <1>9, <1>10, <3>1, <3>3, <3>4
  <2> QED BY <2>1, LockersKept DEF Tallied
<1>13. NotItsOwn'
  BY <1>4 DEF Tallied, NotItsOwn
<1>14. HeldTicketsCanBeFound'
  BY <1>4, <1>8 DEF Tallied, HeldTicketsCanBeFound, Rest
<1>15. Wanted'
  BY <1>4, <1>9 DEF Tallied, Wanted
<1>16. Counted'
  <2>1. Issued' = 1 .. Cardinality(Issued')
    BY <1>8 DEF Rest
  <2>2. ASSUME NEW s \in Requests, req'[s].kind = "capacity", req'[s].clean
        PROVE  req'[s].valid = Cardinality(Valid)' /\ req'[s].count = Cardinality(Issued)'
    <3>1. /\ req[s].kind = "capacity" /\ req[s].clean /\ q.valid = q.n
          /\ req'[s].valid = req[s].valid /\ req'[s].count = req[s].count
      BY <1>10, <2>2
    <3>2. Issued' = Issued /\ Valid' = Valid
      BY <1>8, <3>1 DEF Rest
    <3>3. req[s].valid = Cardinality(Valid) /\ req[s].count = Cardinality(Issued)
      BY <3>1 DEF Tallied, Counted
    <3> QED BY <3>1, <3>2, <3>3
  <2> QED BY <2>1, <2>2 DEF Counted
<1>17. CapacityAsAsked'
  <2> SUFFICES ASSUME asked'.target # Null
               PROVE  Cardinality(Valid') = asked'.target + asked'.revived
    BY DEF CapacityAsAsked
  <2>1. q.clean /\ asked'.target = q.n /\ asked'.revived = 0
    BY <1>3, <1>4
  <2>2. Cardinality(Valid') = Cardinality(Valid) + (q.n - q.valid)
    BY <1>8 DEF Rest
  <2> QED BY <1>3, <1>5, <1>7, <2>1, <2>2
<1>18. TokenOfRow'
  BY <1>8 DEF Rest
<1> QED BY <1>11, <1>12, <1>13, <1>14, <1>15, <1>16, <1>17, <1>18 DEF Tallied

-----------------------------------------------------------------------------
(* The invariant holds, and what the rows promise follows.                 *)

LEMMA InitTallies == Init => StockInv
<1> SUFFICES ASSUME Init
             PROVE  StockInv
  OBVIOUS
<1>1. PICK n : n = Len(FirstTickets)
  OBVIOUS
<1>2. /\ n \in Nat /\ n <= MaxTickets /\ MaxTickets \in Nat /\ DOMAIN FirstTickets = 1 .. n
      /\ \A i \in 1 .. n : FirstTickets[i] \in DOMAIN FirstParent \cup {Null}
  BY <1>1, NumberAssumption
<1>3. /\ DOMAIN FirstParent \subseteq Holds
      /\ \A h \in DOMAIN FirstParent :
            FirstParent[h] \in (DOMAIN FirstParent \ {h}) \cup {Null}
      /\ \A h \in DOMAIN FirstParent : FirstWord[h] \in Words
      /\ \A h \in Holds : h # Null
  BY HoldAssumption, WordAssumption, NullAssumption
<1> DEFINE T(i) == [token |-> i - 1, raced |-> FALSE, status |-> "Available",
                    hold |-> FirstTickets[i]]
           H(h) == [word |-> FirstWord[h], parent |-> FirstParent[h],
                    kind |-> IF FirstParent[h] = Null THEN "Discount" ELSE "Comp",
                    discount |-> FirstParent[h] = Null, readers |-> {}]
<1>4. \A i \in Rows : i \in Int /\ i >= 1 /\ (i \in 1 .. n <=> ~(i > n))
  BY <1>2 DEF Rows
<1>5. \A i \in 1 .. n : i \in Rows /\ T(i) \in TicketRow
  <2> SUFFICES ASSUME NEW i \in 1 .. n
               PROVE  i \in Rows /\ T(i) \in TicketRow
    OBVIOUS
  <2>1. i \in Rows /\ i - 1 \in Nat
    BY <1>2 DEF Rows
  <2>2. FirstTickets[i] \in Holds \cup {Null}
    BY <1>2, <1>3
  <2> QED BY <2>1, <2>2 DEF TicketRow
<1>6. \A i \in 1 .. n : T(i).token = i - 1 /\ T(i).hold = FirstTickets[i] /\ T(i).status = "Available"
  OBVIOUS
<1>7. \A h \in DOMAIN FirstParent : H(h) \in HoldRow /\ H(h).parent = FirstParent[h]
  <2> SUFFICES ASSUME NEW h \in DOMAIN FirstParent
               PROVE  H(h) \in HoldRow
    OBVIOUS
  <2>1. PICK d : d = (FirstParent[h] = Null)
    OBVIOUS
  <2>2. PICK k : k = IF FirstParent[h] = Null THEN "Discount" ELSE "Comp"
    OBVIOUS
  <2>3. d \in BOOLEAN /\ k \in Kinds /\ FirstParent[h] \in Holds \cup {Null} /\ FirstWord[h] \in Words
    BY <1>3, <2>1, <2>2 DEF Kinds
  <2>4. H(h) = [word |-> FirstWord[h], parent |-> FirstParent[h], kind |-> k, discount |-> d,
                readers |-> {}]
    BY <2>1, <2>2
  <2> HIDE DEF H
  <2> QED BY <2>3, <2>4 DEF HoldRow
<1>8. /\ ticket = [i \in Rows |-> IF i > n THEN Null ELSE T(i)]
      /\ hold = [h \in Holds |-> IF h \notin DOMAIN FirstParent THEN Null ELSE H(h)]
  BY <1>1 DEF Init
<1> HIDE DEF T, H
<1>9. /\ \A i \in 1 .. n : ticket[i] = T(i) /\ ticket[i] # Null
      /\ \A i \in Rows \ (1 .. n) : ticket[i] = Null
  BY <1>4, <1>5, <1>8, TicketFields
<1>10. /\ \A h \in DOMAIN FirstParent : hold[h] = H(h) /\ hold[h] # Null /\ hold[h].parent = FirstParent[h]
       /\ \A h \in Holds \ DOMAIN FirstParent : hold[h] = Null
  BY <1>3, <1>7, <1>8, HoldFields
<1>11. Issued = 1 .. n
  BY <1>5, <1>9 DEF Issued
<1>12. Valid = 1 .. n
  BY <1>6, <1>9, <1>11 DEF Valid
<1>13. Cardinality(1 .. n) = n
  <2>1. n \in Nat /\ n \in Int /\ 1 \in Int
    BY <1>2
  <2>2. Cardinality(1 .. n) = IF 1 > n THEN 0 ELSE n - 1 + 1
    BY ONLY <2>1, FS_Interval
  <2> QED BY ONLY <2>1, <2>2
<1>14. \A h \in DOMAIN FirstParent : InHold(h) = {i \in DOMAIN FirstTickets : FirstTickets[i] = h}
  BY <1>2, <1>6, <1>9, <1>11 DEF InHold
<1>15. /\ req = [r \in Requests |-> Idle]
       /\ \A h \in DOMAIN FirstParent :
             wanted[h] = Cardinality({i \in DOMAIN FirstTickets : FirstTickets[i] = h})
       /\ \A h \in Holds \ DOMAIN FirstParent : wanted[h] = Null
       /\ asked = [target |-> n, revived |-> 0]
       /\ code = [c \in Codes |-> Null] /\ ordered = {} /\ contested = {}
  BY <1>1, <1>3 DEF Init
<1>16. \A r \in Requests : req[r].kind = "idle"
  BY <1>15 DEF Idle
<1>17. Creators /\ Lockers
  BY <1>16 DEF Creators, Lockers
<1>18. NotItsOwn
  BY <1>3, <1>10 DEF NotItsOwn
<1>19. HeldTicketsCanBeFound
  <2>1. \A i \in Issued : ticket[i].hold # Null => hold[ticket[i].hold] # Null
    BY <1>2, <1>6, <1>9, <1>10, <1>11
  <2>2. \A h \in Holds : hold[h] # Null /\ hold[h].parent # Null => hold[hold[h].parent] # Null
    BY <1>3, <1>10
  <2> QED BY <2>1, <2>2 DEF HeldTicketsCanBeFound
<1>20. Wanted
  BY <1>10, <1>14, <1>15 DEF Wanted
<1>21. Counted /\ CapacityAsAsked
  BY <1>2, <1>11, <1>12, <1>13, <1>15, <1>16 DEF Counted, CapacityAsAsked
<1>22. TokenOfRow
  BY <1>6, <1>9, <1>11 DEF TokenOfRow
<1>23. Typed
  <2>1. ticket \in [Rows -> TicketRow \cup {Null}]
    BY <1>4, <1>5, <1>8
  <2>2. hold \in [Holds -> HoldRow \cup {Null}]
    BY <1>7, <1>8
  <2>3. req \in [Requests -> ReqRows]
    BY <1>15 DEF ReqRows
  <2>4. wanted \in [Holds -> Int \cup {Null}]
    <3>1. \A h \in DOMAIN FirstParent : wanted[h] \in Nat
      <4>1. \A h : InHold(h) \subseteq Rows
        BY DEF Issued, InHold
      <4> QED BY <1>14, <1>15, <4>1, RowsAreFinite
    <3>2. wanted = [h \in Holds |-> wanted[h]]
      BY DEF Init
    <3> QED BY <1>15, <3>1, <3>2
  <2> QED BY <1>2, <1>15, <2>1, <2>2, <2>3, <2>4 DEF Typed
<1>24. Tallied
  BY <1>17, <1>18, <1>19, <1>20, <1>21, <1>22 DEF Tallied
<1> QED BY <1>20, <1>23, <1>24, WantedIsNat DEF StockInv

LEMMA WantedIsNatAgain == Typed' /\ Wanted' => TypeOK'
  BY WantedIsNat, PTL

LEMMA StockNext == StockInv /\ [Next]_vars => StockInv'
<1> SUFFICES ASSUME StockInv, [Next]_vars
             PROVE  StockInv'
  OBVIOUS
<1>1. Typed /\ Tallied
  BY TypesAre DEF StockInv
<1>2. Typed'
  BY <1>1, NextTyped DEF Tallied
<1>3. Tallied'
  <2>1. CASE HoldEnd
    BY <1>1, <2>1, FinishHoldTallies, LockHoldTallies, FinishUpdateTallies, FinishDestroyTallies
    DEF HoldEnd
  <2>2. CASE CapacityStep
    BY <1>1, <2>2, StartCapacityTallies, FinishCapacityTallies DEF CapacityStep
  <2>3. CASE UNCHANGED vars
    <3>1. Issued' = Issued /\ Valid' = Valid /\ \A h : InHold(h)' = InHold(h)
      BY <2>3 DEF vars, Issued, Valid, InHold
    <3>2. Creators' /\ NotItsOwn' /\ HeldTicketsCanBeFound' /\ Wanted'
      BY <1>1, <2>3, <3>1 DEF vars, Tallied, Creators, NotItsOwn, HeldTicketsCanBeFound, Wanted
    <3>3. Lockers'
      <4>1. \A s \in Requests : req'[s].kind = "locked" =>
              hold'[req[s].hold] # Null /\ s \in hold'[req[s].hold].readers
        BY <1>1, <2>3 DEF vars, Tallied, Lockers
      <4>2. req' = req
        BY <2>3 DEF vars
      <4> QED BY <1>1, <3>1, <4>1, <4>2, LockersKept DEF Tallied
    <3>4. Counted' /\ CapacityAsAsked' /\ TokenOfRow'
      BY <1>1, <2>3, <3>1 DEF vars, Tallied, Counted, CapacityAsAsked, TokenOfRow
    <3> QED BY <3>2, <3>3, <3>4 DEF Tallied
  <2> QED BY <1>1, <2>1, <2>2, <2>3, CustomerTallies, HoldStepTallies, CodeTallies, FailTallies DEF Next
<1>4. Wanted'
  BY <1>3 DEF Tallied
<1>5. TypeOK'
  BY <1>2, <1>4, WantedIsNatAgain
<1> QED BY <1>3, <1>5 DEF StockInv

LEMMA StockHolds == Spec => []StockInv
  BY InitTallies, StockNext, PTL DEF Spec

LEMMA PromisesFollow == StockInv => StockIsAsAsked
<1> SUFFICES ASSUME StockInv
             PROVE  StockIsAsAsked
  OBVIOUS
<1>1. HoldsAddUp
  BY DEF StockInv, Tallied, Wanted, HoldsAddUp
<1>2. TokensDiffer
  <2> SUFFICES ASSUME NEW i \in Issued, NEW j \in Issued, i # j,
                      ~ticket[i].raced, ~ticket[j].raced
               PROVE  ticket[i].token # ticket[j].token
    BY DEF TokensDiffer
  <2>1. ticket[i].token = i - 1 /\ ticket[j].token = j - 1
    BY DEF StockInv, Tallied, TokenOfRow
  <2>2. i \in Int /\ j \in Int
    BY NumberAssumption DEF Issued, Rows
  <2> QED BY <2>1, <2>2
<1> QED BY <1>1, <1>2 DEF StockInv, Tallied, StockIsAsAsked

\* The rows of ticket_instances are those the organizers asked for, however
\* creations, updates, splits, comps and removals of holds, changes of the
\* capacity and the customers' carts follow one another.
THEOREM StockStaysAsAsked == Spec => []StockIsAsAsked
  BY StockHolds, PromisesFollow, PTL

-----------------------------------------------------------------------------
(* What requests are about to write.                                       *)

\* The request that was p is about to write the same as q, if anything.
SameIntent(p, q) ==
    /\ q.kind \in {"create", "newcode", "code"} => q = p
    /\ q.kind \in {"update", "locked"} =>
          p.kind \in {"update", "locked"} /\ q.hold = p.hold /\ q.set = p.set

LEMMA SameIsSame == \A p : SameIntent(p, p)
  BY DEF SameIntent

LEMMA OvertakenIntents ==
    ASSUME Typed, NEW hs, NEW capacity \in BOOLEAN, NEW s \in Requests
    PROVE  SameIntent(req[s], Overtaken(hs, capacity)[s])
<1>1. PICK q : q = Overtaken(hs, capacity)[s]
  OBVIOUS
<1>2. req[s] \in ReqRows /\ req \in [Requests -> ReqRows]
  BY DEF Typed
<1>3. /\ q \in ReqRows /\ q.kind = req[s].kind
      /\ q.kind \notin {"locked", "destroy", "capacity"} => q = req[s]
      /\ q.kind \in {"locked", "destroy"} => q.hold = req[s].hold /\ q.count = req[s].count
      /\ q.kind = "locked" => q.set = req[s].set /\ q.n = req[s].n
  BY <1>1, <1>2, OvertakenKeeps
<1> QED BY <1>1, <1>3 DEF SameIntent

\* A request ends: it writes nothing any more, and the others write what they would.
Ends(r) ==
    req'[r].kind = "done" /\ \A s \in Requests : SameIntent(req[s], req'[s])

LEMMA EndedIntents ==
    ASSUME Typed, NEW r \in Requests, NEW hs, NEW capacity \in BOOLEAN,
           req' = Ended(r, hs, capacity)
    PROVE  Ends(r)
<1>1. /\ req'[r] = Done
      /\ \A s \in Requests \ {r} : req'[s] = Overtaken(hs, capacity)[s]
  BY EndedTyped DEF Typed
<1>2. \A s \in Requests \ {r} : SameIntent(req[s], req'[s])
  BY <1>1, OvertakenIntents
<1>3. req'[r].kind = "done"
  BY <1>1 DEF Done
<1>4. SameIntent(req[r], req'[r])
  BY <1>3 DEF SameIntent
<1> QED BY <1>2, <1>3, <1>4 DEF Ends

LEMMA DoneIntents ==
    ASSUME Typed, NEW r \in Requests, req' = [req EXCEPT ![r] = Done]
    PROVE  Ends(r)
<1>1. req'[r] = Done /\ \A s \in Requests \ {r} : req'[s] = req[s]
  BY DEF Typed
<1>2. \A s \in Requests \ {r} : SameIntent(req[s], req'[s])
  BY <1>1, SameIsSame
<1>3. req'[r].kind = "done"
  BY <1>1 DEF Done
<1>4. SameIntent(req[r], req'[r])
  BY <1>3 DEF SameIntent
<1> QED BY <1>2, <1>3, <1>4 DEF Ends

\* Of the steps that write no hold and no code, those of a request that validates
\* one are looked at below.
Quiet ==
    \/ CustomerStep \/ CapacityStep
    \/ \E r \in Requests : LockHold(r) \/ Fail(r) \/ \E h \in Holds : StartDestroy(r, h)

LEMMA QuietIntents ==
    ASSUME Typed, Quiet
    PROVE  /\ hold' = hold /\ code' = code /\ contested' = contested
           /\ \A s \in Requests : SameIntent(req[s], req'[s])
<1>1. CASE CustomerStep
  <2>1. PICK i \in Rows : Lapse(i) \/ Return(i) \/ \E h \in Holds \cup {Null} : Take(i, h)
    BY <1>1 DEF CustomerStep
  <2>2. PICK c : c = (ticket[i].status = "Nullified")
    OBVIOUS
  <2>3. c \in BOOLEAN /\ (req' = req \/ req' = Overtaken({}, c))
    BY <2>1, <2>2 DEF Lapse, Return, Take
  <2>4. hold' = hold /\ code' = code /\ contested' = contested
    BY <2>1 DEF Lapse, Return, Take
  <2>5. PICK hs : hs = {}
    OBVIOUS
  <2>6. CASE req' = req
    BY <2>4, <2>6, SameIsSame
  <2>7. CASE req' = Overtaken(hs, c)
    BY <2>3, <2>4, <2>7, OvertakenIntents
  <2> QED BY <2>3, <2>5, <2>6, <2>7
<1>2. ASSUME NEW r \in Requests, NEW n \in Quantities, StartCapacity(r, n)
      PROVE  /\ hold' = hold /\ code' = code /\ contested' = contested
             /\ \A s \in Requests : SameIntent(req[s], req'[s])
  <2>1. PICK q : q = [kind |-> "capacity", n |-> n, clean |-> TRUE,
                      valid |-> Cardinality(Valid), count |-> Cardinality(Issued)]
    OBVIOUS
  <2>2. q.kind = "capacity"
    BY <2>1
  <2>3. /\ req'[r] = q /\ \A s \in Requests \ {r} : req'[s] = req[s]
        /\ hold' = hold /\ code' = code /\ contested' = contested
    BY <1>2, <2>1 DEF StartCapacity, Typed
  <2>4. SameIntent(req[r], q)
    BY <2>2 DEF SameIntent
  <2> QED BY <2>3, <2>4, SameIsSame
<1>3. ASSUME NEW r \in Requests, FinishCapacity(r)
      PROVE  /\ hold' = hold /\ code' = code /\ contested' = contested
             /\ \A s \in Requests : SameIntent(req[s], req'[s])
  <2>1. PICK c : c = (req[r].valid # req[r].n)
    OBVIOUS
  <2>2. PICK hs : hs = {}
    OBVIOUS
  <2>3. /\ c \in BOOLEAN /\ req' = Ended(r, hs, c)
        /\ hold' = hold /\ code' = code /\ contested' = contested
    BY <1>3, <2>1, <2>2 DEF FinishCapacity
  <2> QED BY <2>3, EndedIntents DEF Ends
<1>4. ASSUME NEW r \in Requests, LockHold(r)
      PROVE  /\ hold' = hold /\ code' = code /\ contested' = contested
             /\ \A s \in Requests : SameIntent(req[s], req'[s])
  <2>1. PICK q : q = req[r]
    OBVIOUS
  <2>2. q \in Updating /\ q.kind = "update"
    BY <1>4, <2>1, TypedState, KindsOf DEF LockHold
  <2>3. PICK p : p = [q EXCEPT !.kind = "locked", !.count = Cardinality(InHold(q.hold))]
    OBVIOUS
  <2>4. p.kind = "locked" /\ p.hold = q.hold /\ p.set = q.set
    BY <2>2, <2>3 DEF Updating
  <2>5. /\ req'[r] = p /\ \A s \in Requests \ {r} : req'[s] = req[s]
        /\ hold' = hold /\ code' = code /\ contested' = contested
    BY <1>4, <2>1, <2>3 DEF LockHold, Typed
  <2>6. SameIntent(req[r], p)
    BY <2>1, <2>2, <2>4 DEF SameIntent
  <2> QED BY <2>5, <2>6, SameIsSame
<1>5. ASSUME NEW r \in Requests, Fail(r)
      PROVE  /\ hold' = hold /\ code' = code /\ contested' = contested
             /\ \A s \in Requests : SameIntent(req[s], req'[s])
  <2>1. /\ req' = [req EXCEPT ![r] = Done]
        /\ hold' = hold /\ code' = code /\ contested' = contested
    BY <1>5 DEF Fail
  <2> QED BY <2>1, DoneIntents DEF Ends
<1>6. ASSUME NEW r \in Requests, NEW h \in Holds, StartDestroy(r, h)
      PROVE  /\ hold' = hold /\ code' = code /\ contested' = contested
             /\ \A s \in Requests : SameIntent(req[s], req'[s])
  <2>1. PICK q : q = [kind |-> "destroy", hold |-> h, clean |-> TRUE,
                      count |-> Cardinality(InHold(h))]
    OBVIOUS
  <2>2. q.kind = "destroy"
    BY <2>1
  <2>3. /\ req'[r] = q /\ \A s \in Requests \ {r} : req'[s] = req[s]
        /\ hold' = hold /\ code' = code /\ contested' = contested
    BY <1>6, <2>1 DEF StartDestroy, Typed
  <2>4. SameIntent(req[r], q)
    BY <2>2 DEF SameIntent
  <2> QED BY <2>3, <2>4, SameIsSame
<1> QED BY <1>1, <1>2, <1>3, <1>4, <1>5, <1>6 DEF Quiet, CapacityStep

-----------------------------------------------------------------------------
(* Redemption codes.                                                       *)

LEMMA ClaimsKept ==
    ASSUME NEW w, NEW s \in Requests, SameIntent(req[s], req'[s]), Claims(s, w)'
    PROVE  Claims(s, w) /\ OwnHolds(s)' = OwnHolds(s) /\ OwnCodes(s)' = OwnCodes(s)
<1>1. PICK p, q : p = req[s] /\ q = req'[s]
  OBVIOUS
<1>2. SameIntent(p, q)
  BY <1>1
<1>3. CASE q.kind \in {"create", "newcode", "code"}
  <2>1. q = p
    BY <1>2, <1>3 DEF SameIntent
  <2> QED BY <1>1, <2>1 DEF Claims, OwnHolds, OwnCodes
<1>4. CASE q.kind \in {"update", "locked"}
  <2>1. p.kind \in {"update", "locked"} /\ q.hold = p.hold /\ q.set = p.set
    BY <1>2, <1>4 DEF SameIntent
  <2> QED BY <1>1, <1>4, <2>1 DEF Claims, OwnHolds, OwnCodes
<1> QED BY <1>1, <1>3, <1>4 DEF Claims

LEMMA ClaimsAreClaimed ==
    ASSUME NEW w, NEW s \in Requests, Claims(s, w)
    PROVE  w \in Claimed
  BY DEF Claims, Claimed

\* Nobody begins to claim the word, and no row gets it.
LEMMA ClearKept ==
    ASSUME NEW w, Clear(w),
           HoldsNamed(w)' \subseteq HoldsNamed(w), CodesNamed(w)' \subseteq CodesNamed(w),
           \A s \in Requests : SameIntent(req[s], req'[s]) \/ ~Claims(s, w)'
    PROVE  Clear(w)'
<1>1. \A s \in Requests : Claims(s, w)' =>
         Claims(s, w) /\ OwnHolds(s)' = OwnHolds(s) /\ OwnCodes(s)' = OwnCodes(s)
  BY ClaimsKept
<1>2. OneClaim(w)'
  BY <1>1 DEF Clear, OneClaim
<1>3. FreeToUse(w)'
  BY <1>1 DEF Clear, FreeToUse
<1>4. OneName(w)'
  BY DEF Clear, OneName
<1> QED BY <1>2, <1>3, <1>4 DEF Clear

\* A request claims a word that nobody claims, and that only the row it will
\* change has.
LEMMA ClearClaimed ==
    ASSUME NEW w, Clear(w), NEW r \in Requests,
           HoldsNamed(w)' \subseteq HoldsNamed(w), CodesNamed(w)' \subseteq CodesNamed(w),
           \A s \in Requests \ {r} : req'[s] = req[s],
           w \notin Claimed,
           HoldsNamed(w) \subseteq OwnHolds(r)' /\ CodesNamed(w) \subseteq OwnCodes(r)'
    PROVE  Clear(w)'
<1>1. \A s \in Requests \ {r} : ~Claims(s, w)'
  <2>1. \A s \in Requests \ {r} : Claims(s, w)' => Claims(s, w)
    BY DEF Claims
  <2> QED BY <2>1, ClaimsAreClaimed
<1>2. OneClaim(w)'
  BY <1>1 DEF OneClaim
<1>3. FreeToUse(w)'
  BY <1>1 DEF FreeToUse
<1>4. OneName(w)'
  BY DEF Clear, OneName
<1> QED BY <1>2, <1>3, <1>4 DEF Clear

\* The request that claimed the word has given it to a row, and nobody claims it.
LEMMA ClearGiven ==
    ASSUME NEW w, Clear(w), NEW r \in Requests, Claims(r, w), Ends(r), OneName(w)'
    PROVE  Clear(w)'
<1>1. \A s \in Requests : ~Claims(s, w)'
  <2> SUFFICES ASSUME NEW s \in Requests, Claims(s, w)'
               PROVE  FALSE
    OBVIOUS
  <2>1. Claims(s, w)
    BY ClaimsKept DEF Ends
  <2>2. s = r
    BY <2>1 DEF Clear, OneClaim
  <2> QED BY <2>2 DEF Ends, Claims
<1>2. OneClaim(w)' /\ FreeToUse(w)'
  BY <1>1 DEF OneClaim, FreeToUse
<1> QED BY <1>2 DEF Clear

\* A request claims the word: those who could dispute it are known.
LEMMA ClaimIs ==
    ASSUME NameInv, NEW w \in Words, w \notin contested', NEW v, Claim(v)
    PROVE  Clear(w) /\ (v = w => w \notin Claimed)
<1>1. w # Null
  BY NullAssumption
<1>2. w \notin contested /\ (v = w => w \notin Claimed)
  BY <1>1 DEF Claim
<1> QED BY <1>2 DEF NameInv

LEMMA StartsClear ==
    ASSUME Typed, NameInv, NEW w \in Words, w \notin contested',
           NEW r \in Requests, NEW h \in Holds, NEW from, NEW n, NEW row, Starts(r, h, from, row, n)
    PROVE  Clear(w)'
<1>1. PICK q : q = [kind |-> "create", hold |-> h, from |-> from, row |-> row, n |-> n]
  OBVIOUS
<1>2. q.kind = "create" /\ q.row = row
  BY <1>1
<1>3. /\ req'[r] = q /\ \A s \in Requests \ {r} : req'[s] = req[s]
      /\ hold' = hold /\ code' = code /\ UniqueCode(row.word, {}, {}) /\ Claim(row.word)
  BY <1>1 DEF Starts, Typed
<1>4. HoldsNamed(w)' = HoldsNamed(w) /\ CodesNamed(w)' = CodesNamed(w)
  BY <1>3 DEF HoldsNamed, CodesNamed
<1>5. Clear(w) /\ (row.word = w => w \notin Claimed)
  BY <1>3, ClaimIs
<1>6. CASE row.word = w
  <2>1. HoldsNamed(w) = {} /\ CodesNamed(w) = {}
    BY <1>3, <1>6 DEF UniqueCode
  <2>2. HoldsNamed(w) \subseteq OwnHolds(r)' /\ CodesNamed(w) \subseteq OwnCodes(r)'
    BY <2>1
  <2> QED BY <1>3, <1>4, <1>5, <1>6, <2>2, ClearClaimed
<1>7. CASE row.word # w
  <2>1. ~Claims(r, w)'
    BY <1>2, <1>3, <1>7 DEF Claims
  <2>2. \A s \in Requests : SameIntent(req[s], req'[s]) \/ ~Claims(s, w)'
    BY <1>3, <2>1, SameIsSame
  <2> QED BY <1>4, <1>5, <2>2, ClearKept
<1> QED BY <1>6, <1>7

LEMMA StartUpdateClear ==
    ASSUME Typed, NameInv, NEW w \in Words, w \notin contested',
           NEW r \in Requests, NEW h \in Holds, NEW v \in Words \cup {Null}, NEW kind \in Kinds,
           NEW discount \in BOOLEAN \cup {Null}, NEW n, StartUpdate(r, h, v, kind, discount, n)
    PROVE  Clear(w)'
<1>1. PICK set : set = [word |-> v, kind |-> kind,
                        discount |-> IF kind = "Comp" THEN FALSE ELSE discount]
  OBVIOUS
<1>2. set \in HoldChange /\ set.word = v
  BY <1>1 DEF HoldChange
<1>3. PICK q : q = [kind |-> "update", hold |-> h, set |-> set, n |-> n, count |-> 0, clean |-> TRUE]
  OBVIOUS
<1>4. q.kind = "update" /\ q.hold = h /\ q.set = set
  BY <1>3
<1>5. /\ req'[r] = q /\ \A s \in Requests \ {r} : req'[s] = req[s]
      /\ hold[h] # Null /\ hold' = [hold EXCEPT ![h].readers = @ \cup {r}] /\ code' = code
      /\ UniqueCode(Changed(hold[h], set).word, {h}, {}) /\ Claim(v)
  BY <1>1, <1>3 DEF StartUpdate, Typed
<1>6. hold[h] \in HoldRow
  BY <1>5, TypedState
<1>7. PICK row : row = [hold[h] EXCEPT !.readers = @ \cup {r}]
  OBVIOUS
<1>8. row.word = hold[h].word /\ row \in HoldRow
  BY <1>6, <1>7 DEF HoldRow
<1>9. hold'[h] = row /\ row # Null /\ \A g \in Holds \ {h} : hold'[g] = hold[g]
  BY <1>5, <1>7, <1>8, HoldFields DEF Typed
<1>10. HoldsNamed(w)' = HoldsNamed(w) /\ CodesNamed(w)' = CodesNamed(w)
  BY <1>5, <1>8, <1>9 DEF HoldsNamed, CodesNamed
<1>11. Clear(w) /\ (v = w => w \notin Claimed)
  BY <1>5, ClaimIs
<1>12. CASE v = w
  <2>1. v # Null
    BY <1>12, NullAssumption
  <2>2. Changed(hold[h], set).word = w
    BY <1>2, <1>6, <1>12, <2>1, ChangedHold
  <2>3. HoldsNamed(w) \subseteq {h} /\ CodesNamed(w) = {}
    BY <1>5, <2>2 DEF UniqueCode
  <2>4. HoldsNamed(w) \subseteq OwnHolds(r)' /\ CodesNamed(w) \subseteq OwnCodes(r)'
    BY <1>4, <1>5, <2>3 DEF OwnHolds
  <2> QED BY <1>5, <1>10, <1>11, <1>12, <2>4, ClearClaimed
<1>13. CASE v # w
  <2>1. ~Claims(r, w)'
    BY <1>2, <1>4, <1>5, <1>13 DEF Claims
  <2>2. \A s \in Requests : SameIntent(req[s], req'[s]) \/ ~Claims(s, w)'
    BY <1>5, <2>1, SameIsSame
  <2> QED BY <1>10, <1>11, <2>2, ClearKept
<1> QED BY <1>12, <1>13

LEMMA StartCodeClear ==
    ASSUME Typed, NameInv, NEW w \in Words, w \notin contested',
           NEW r \in Requests, NEW c \in Codes, NEW v, NEW kind, NEW discount, NEW ts,
           StartCode(r, c, v, kind, discount, ts)
    PROVE  Clear(w)'
<1>1. PICK row : row = [word |-> v, kind |-> kind, discount |-> discount, types |-> ts,
                        readers |-> {}]
  OBVIOUS
<1>2. PICK q : q = [kind |-> "newcode", code |-> c, row |-> row]
  OBVIOUS
<1>3. q.kind = "newcode" /\ q.row.word = v
  BY <1>1, <1>2
<1>4. /\ req'[r] = q /\ \A s \in Requests \ {r} : req'[s] = req[s]
      /\ hold' = hold /\ code' = code /\ UniqueCode(v, {}, {}) /\ Claim(v)
  BY <1>1, <1>2 DEF StartCode, Typed
<1>5. HoldsNamed(w)' = HoldsNamed(w) /\ CodesNamed(w)' = CodesNamed(w)
  BY <1>4 DEF HoldsNamed, CodesNamed
<1>6. Clear(w) /\ (v = w => w \notin Claimed)
  BY <1>4, ClaimIs
<1>7. CASE v = w
  <2>1. HoldsNamed(w) = {} /\ CodesNamed(w) = {}
    BY <1>4, <1>7 DEF UniqueCode
  <2>2. HoldsNamed(w) \subseteq OwnHolds(r)' /\ CodesNamed(w) \subseteq OwnCodes(r)'
    BY <2>1
  <2> QED BY <1>4, <1>5, <1>6, <1>7, <2>2, ClearClaimed
<1>8. CASE v # w
  <2>1. ~Claims(r, w)'
    BY <1>3, <1>4, <1>8 DEF Claims
  <2>2. \A s \in Requests : SameIntent(req[s], req'[s]) \/ ~Claims(s, w)'
    BY <1>4, <2>1, SameIsSame
  <2> QED BY <1>5, <1>6, <2>2, ClearKept
<1> QED BY <1>7, <1>8

LEMMA StartCodeUpdateClear ==
    ASSUME Typed, NameInv, NEW w \in Words, w \notin contested',
           NEW r \in Requests, NEW c \in Codes, NEW v \in Words \cup {Null},
           NEW discount \in BOOLEAN \cup {Null}, NEW ts \in (SUBSET Types) \cup {Null},
           StartCodeUpdate(r, c, v, discount, ts)
    PROVE  Clear(w)'
<1>1. PICK set : set = [word |-> v, discount |-> discount, types |-> ts]
  OBVIOUS
<1>2. set \in CodeChange /\ set.word = v
  BY <1>1 DEF CodeChange
<1>3. PICK q : q = [kind |-> "code", code |-> c, set |-> set]
  OBVIOUS
<1>4. q.kind = "code" /\ q.code = c /\ q.set = set
  BY <1>3
<1>5. /\ req'[r] = q /\ \A s \in Requests \ {r} : req'[s] = req[s]
      /\ code[c] # Null /\ code' = [code EXCEPT ![c].readers = @ \cup {r}] /\ hold' = hold
      /\ UniqueCode(Changed(code[c], set).word, {}, {c}) /\ Claim(v)
  BY <1>1, <1>3 DEF StartCodeUpdate, Typed
<1>6. code[c] \in CodeRow
  BY <1>5, TypedState
<1>7. PICK row : row = [code[c] EXCEPT !.readers = @ \cup {r}]
  OBVIOUS
<1>8. row.word = code[c].word /\ row \in CodeRow
  BY <1>6, <1>7 DEF CodeRow
<1>9. code'[c] = row /\ row # Null /\ \A d \in Codes \ {c} : code'[d] = code[d]
  BY <1>5, <1>7, <1>8, CodeFields DEF Typed
<1>10. HoldsNamed(w)' = HoldsNamed(w) /\ CodesNamed(w)' = CodesNamed(w)
  BY <1>5, <1>8, <1>9 DEF HoldsNamed, CodesNamed
<1>11. Clear(w) /\ (v = w => w \notin Claimed)
  BY <1>5, ClaimIs
<1>12. CASE v = w
  <2>1. v # Null
    BY <1>12, NullAssumption
  <2>2. Changed(code[c], set).word = w
    BY <1>2, <1>6, <1>12, <2>1, ChangedCode
  <2>3. HoldsNamed(w) = {} /\ CodesNamed(w) \subseteq {c}
    BY <1>5, <2>2 DEF UniqueCode
  <2>4. HoldsNamed(w) \subseteq OwnHolds(r)' /\ CodesNamed(w) \subseteq OwnCodes(r)'
    BY <1>4, <1>5, <2>3 DEF OwnCodes
  <2> QED BY <1>5, <1>10, <1>11, <1>12, <2>4, ClearClaimed
<1>13. CASE v # w
  <2>1. ~Claims(r, w)'
    BY <1>2, <1>4, <1>5, <1>13 DEF Claims
  <2>2. \A s \in Requests : SameIntent(req[s], req'[s]) \/ ~Claims(s, w)'
    BY <1>5, <2>1, SameIsSame
  <2> QED BY <1>10, <1>11, <2>2, ClearKept
<1> QED BY <1>12, <1>13

\* What a request writes has the word that it claimed, or the one it had.
LEMMA FinishHoldClear ==
    ASSUME Typed, NEW w \in Words, Clear(w), NEW r \in Requests, FinishHold(r)
    PROVE  Clear(w)'
<1>1. PICK q : q = req[r]
  OBVIOUS
<1>2. q \in Creating /\ q.kind = "create"
  BY <1>1, TypedState, KindsOf DEF FinishHold
<1>3. PICK hs : hs = IF q.n = 0 THEN {} ELSE {q.from}
  OBVIOUS
<1>4. PICK c : c = FALSE
  OBVIOUS
<1>5. /\ HoldsNamed(q.row.word) = {}
      /\ hold' = [hold EXCEPT ![q.hold] = q.row] /\ code' = code
      /\ req' = Ended(r, hs, c) /\ c \in BOOLEAN
  BY <1>1, <1>3, <1>4 DEF FinishHold
<1>6. Ends(r)
  BY <1>5, EndedIntents
<1>7. q.hold \in Holds /\ q.row # Null
  BY <1>2, CreatingFields, HoldFields
<1>8. hold'[q.hold] = q.row /\ \A g \in Holds \ {q.hold} : hold'[g] = hold[g]
  BY <1>5, <1>7 DEF Typed
<1>9. CodesNamed(w)' = CodesNamed(w)
  BY <1>5 DEF CodesNamed
<1>10. CASE q.row.word = w
  <2>1. Claims(r, w)
    BY <1>1, <1>2, <1>10 DEF Claims
  <2>2. CodesNamed(w) = {}
    BY <1>1, <1>2, <2>1 DEF Clear, FreeToUse, OwnCodes
  <2>3. HoldsNamed(w)' \subseteq {q.hold}
    BY <1>5, <1>8, <1>10 DEF HoldsNamed
  <2>4. OneName(w)'
    BY <1>9, <2>2, <2>3 DEF OneName
  <2> QED BY <1>6, <2>1, <2>4, ClearGiven
<1>11. CASE q.row.word # w
  <2>1. HoldsNamed(w)' \subseteq HoldsNamed(w)
    BY <1>8, <1>11 DEF HoldsNamed
  <2> QED BY <1>6, <1>9, <2>1, ClearKept DEF Ends
<1> QED BY <1>10, <1>11

LEMMA FinishUpdateEnds ==
    ASSUME Typed, NEW r \in Requests, FinishUpdate(r)
    PROVE  Ends(r)
<1>1. PICK q : q = req[r]
  OBVIOUS
<1>2. PICK hs : hs = IF q.count = q.n THEN {} ELSE {q.hold, hold[q.hold].parent}
  OBVIOUS
<1>3. PICK c : c = FALSE
  OBVIOUS
<1>4. c \in BOOLEAN /\ (req' = [req EXCEPT ![r] = Done] \/ req' = Ended(r, hs, c))
  BY <1>1, <1>2, <1>3 DEF FinishUpdate
<1> QED BY <1>4, EndedIntents, DoneIntents

LEMMA FinishUpdateClear ==
    ASSUME Typed, Lockers, NEW w \in Words, Clear(w), NEW r \in Requests, FinishUpdate(r)
    PROVE  Clear(w)'
<1>1. PICK q : q = req[r]
  OBVIOUS
<1>2. q.kind = "locked" /\ hold[q.hold] # Null
  BY <1>1 DEF FinishUpdate, Lockers
<1>3. q \in Updating
  BY <1>1, <1>2, TypedState, KindsOf
<1>4. PICK row : row = Changed(hold[q.hold], q.set)
  OBVIOUS
<1>5. hold' = [hold EXCEPT ![q.hold] = row] /\ code' = code
  BY <1>1, <1>4 DEF FinishUpdate
<1>6. Ends(r)
  BY FinishUpdateEnds
<1>7. q.hold \in Holds /\ q.set \in HoldChange
  BY <1>3, UpdatingFields
<1>8. hold[q.hold] \in HoldRow
  BY <1>2, <1>7, TypedState
<1>9. row # Null /\ row.word = IF q.set.word # Null THEN q.set.word ELSE hold[q.hold].word
  BY <1>4, <1>7, <1>8, ChangedHold
<1>10. hold'[q.hold] = row /\ \A g \in Holds \ {q.hold} : hold'[g] = hold[g]
  BY <1>5, <1>7 DEF Typed
<1>11. CodesNamed(w)' = CodesNamed(w)
  BY <1>5 DEF CodesNamed
<1>12. CASE q.set.word = w
  <2>1. Claims(r, w)
    BY <1>1, <1>2, <1>12 DEF Claims
  <2>2. CodesNamed(w) = {} /\ HoldsNamed(w) \subseteq {q.hold}
    BY <1>1, <1>2, <2>1 DEF Clear, FreeToUse, OwnCodes, OwnHolds
  <2>3. HoldsNamed(w)' \subseteq {q.hold}
    BY <1>10, <2>2 DEF HoldsNamed
  <2>4. OneName(w)'
    BY <1>11, <2>2, <2>3 DEF OneName
  <2> QED BY <1>6, <2>1, <2>4, ClearGiven
<1>13. CASE q.set.word # w
  <2>1. HoldsNamed(w)' \subseteq HoldsNamed(w)
    BY <1>2, <1>9, <1>10, <1>13 DEF HoldsNamed
  <2> QED BY <1>6, <1>11, <2>1, ClearKept DEF Ends
<1> QED BY <1>12, <1>13

LEMMA FinishDestroyEnds ==
    ASSUME Typed, NEW r \in Requests, FinishDestroy(r)
    PROVE  /\ Ends(r) /\ code' = code /\ contested' = contested
           /\ \A h \in Holds : hold'[h] = hold[h] \/ hold'[h] = Null
<1>1. PICK q : q = req[r]
  OBVIOUS
<1>2. PICK hs : hs = IF q.count = 0 THEN {} ELSE {q.hold, hold[q.hold].parent}
  OBVIOUS
<1>3. PICK c : c = FALSE
  OBVIOUS
<1>4. /\ c \in BOOLEAN /\ req' = Ended(r, hs, c)
      /\ hold' = [hold EXCEPT ![q.hold] = Null] /\ code' = code /\ contested' = contested
  BY <1>1, <1>2, <1>3 DEF FinishDestroy
<1> QED BY <1>4, EndedIntents DEF Typed

LEMMA FinishDestroyClear ==
    ASSUME Typed, NEW w \in Words, Clear(w), NEW r \in Requests, FinishDestroy(r)
    PROVE  Clear(w)'
<1>1. /\ Ends(r) /\ code' = code
      /\ \A h \in Holds : hold'[h] = hold[h] \/ hold'[h] = Null
  BY FinishDestroyEnds
<1>2. HoldsNamed(w)' \subseteq HoldsNamed(w) /\ CodesNamed(w)' = CodesNamed(w)
  BY <1>1 DEF HoldsNamed, CodesNamed
<1> QED BY <1>1, <1>2, ClearKept DEF Ends

LEMMA FinishCodeClear ==
    ASSUME Typed, NEW w \in Words, Clear(w), NEW r \in Requests, FinishCode(r)
    PROVE  Clear(w)'
<1>1. PICK q : q = req[r]
  OBVIOUS
<1>2. q \in Coding /\ q.kind = "newcode"
  BY <1>1, TypedState, KindsOf DEF FinishCode
<1>3. /\ CodesNamed(q.row.word) = {}
      /\ code' = [code EXCEPT ![q.code] = q.row] /\ hold' = hold
      /\ req' = [req EXCEPT ![r] = Done]
  BY <1>1 DEF FinishCode
<1>4. Ends(r)
  BY <1>3, DoneIntents
<1>5. q.code \in Codes /\ q.row # Null
  BY <1>2, CodingFields, CodeFields
<1>6. code'[q.code] = q.row /\ \A d \in Codes \ {q.code} : code'[d] = code[d]
  BY <1>3, <1>5 DEF Typed
<1>7. HoldsNamed(w)' = HoldsNamed(w)
  BY <1>3 DEF HoldsNamed
<1>8. CASE q.row.word = w
  <2>1. Claims(r, w)
    BY <1>1, <1>2, <1>8 DEF Claims
  <2>2. HoldsNamed(w) = {}
    BY <1>1, <1>2, <2>1 DEF Clear, FreeToUse, OwnHolds
  <2>3. CodesNamed(w)' \subseteq {q.code}
    BY <1>3, <1>6, <1>8 DEF CodesNamed
  <2>4. OneName(w)'
    BY <1>7, <2>2, <2>3 DEF OneName
  <2> QED BY <1>4, <2>1, <2>4, ClearGiven
<1>9. CASE q.row.word # w
  <2>1. CodesNamed(w)' \subseteq CodesNamed(w)
    BY <1>6, <1>9 DEF CodesNamed
  <2> QED BY <1>4, <1>7, <2>1, ClearKept DEF Ends
<1> QED BY <1>8, <1>9

LEMMA FinishCodeUpdateClear ==
    ASSUME Typed, NEW w \in Words, Clear(w), NEW r \in Requests, FinishCodeUpdate(r)
    PROVE  Clear(w)'
<1>1. PICK q : q = req[r]
  OBVIOUS
<1>2. q \in Coding /\ q.kind = "code"
  BY <1>1, TypedState, KindsOf DEF FinishCodeUpdate
<1>3. PICK row : row = Changed(code[q.code], q.set)
  OBVIOUS
<1>4. /\ code[q.code] # Null
      /\ code' = [code EXCEPT ![q.code] = row] /\ hold' = hold
      /\ req' = [req EXCEPT ![r] = Done]
  BY <1>1, <1>3 DEF FinishCodeUpdate
<1>5. Ends(r)
  BY <1>4, DoneIntents
<1>6. q.code \in Codes /\ q.set \in CodeChange
  BY <1>2, CodingFields
<1>7. code[q.code] \in CodeRow
  BY <1>4, <1>6, TypedState
<1>8. row # Null /\ row.word = IF q.set.word # Null THEN q.set.word ELSE code[q.code].word
  BY <1>3, <1>6, <1>7, ChangedCode
<1>9. code'[q.code] = row /\ \A d \in Codes \ {q.code} : code'[d] = code[d]
  BY <1>4, <1>6 DEF Typed
<1>10. HoldsNamed(w)' = HoldsNamed(w)
  BY <1>4 DEF HoldsNamed
<1>11. CASE q.set.word = w
  <2>1. Claims(r, w)
    BY <1>1, <1>2, <1>11 DEF Claims
  <2>2. HoldsNamed(w) = {} /\ CodesNamed(w) \subseteq {q.code}
    BY <1>1, <1>2, <2>1 DEF Clear, FreeToUse, OwnCodes, OwnHolds
  <2>3. CodesNamed(w)' \subseteq {q.code}
    BY <1>9, <2>2 DEF CodesNamed
  <2>4. OneName(w)'
    BY <1>10, <2>2, <2>3 DEF OneName
  <2> QED BY <1>5, <2>1, <2>4, ClearGiven
<1>12. CASE q.set.word # w
  <2>1. CodesNamed(w)' \subseteq CodesNamed(w)
    BY <1>4, <1>8, <1>9, <1>12 DEF CodesNamed
  <2> QED BY <1>5, <1>10, <2>1, ClearKept DEF Ends
<1> QED BY <1>11, <1>12

\* The first half of a request about a code, or the whole of its removal.
LEMMA CodeSteps ==
    ASSUME Typed, CodeStep
    PROVE  \E c \in Codes :
              \/ DestroyCode(c)
              \/ \E r \in Requests, w \in Words, kind \in {"Discount", "Access"},
                    discount \in BOOLEAN, ts \in SUBSET Types : StartCode(r, c, w, kind, discount, ts)
              \/ \E r \in Requests, w \in Words \cup {Null}, discount \in BOOLEAN \cup {Null},
                    ts \in (SUBSET Types) \cup {Null} : StartCodeUpdate(r, c, w, discount, ts)
<1>1. PICK c \in Codes :
        \/ DestroyCode(c)
        \/ \E r \in Organizers, w \in Words, kind \in {"Discount", "Access"},
              discount \in BOOLEAN, ts \in SUBSET Types : StartCode(r, c, w, kind, discount, ts)
        \/ \E r \in Organizers, w \in Words, discount \in BOOLEAN, ts \in SUBSET Types :
            /\ code[c] # Null
            /\ StartCodeUpdate(r, c, Unless(w, code[c].word), Unless(discount, code[c].discount),
                               Unless(ts, code[c].types))
  BY DEF CodeStep
<1>2. Organizers \subseteq Requests
  BY RequestAssumption
<1>3. ASSUME NEW w, NEW v
      PROVE  Unless(w, v) \in {w, Null}
  BY DEF Unless
<1>4. CASE \E r \in Organizers, w \in Words, discount \in BOOLEAN, ts \in SUBSET Types :
            /\ code[c] # Null
            /\ StartCodeUpdate(r, c, Unless(w, code[c].word), Unless(discount, code[c].discount),
                               Unless(ts, code[c].types))
  <2>1. \E r \in Requests, w \in Words \cup {Null}, discount \in BOOLEAN \cup {Null},
           ts \in (SUBSET Types) \cup {Null} : StartCodeUpdate(r, c, w, discount, ts)
    BY <1>2, <1>3, <1>4
  <2> QED BY <2>1
<1>5. CASE \E r \in Organizers, w \in Words, kind \in {"Discount", "Access"},
              discount \in BOOLEAN, ts \in SUBSET Types : StartCode(r, c, w, kind, discount, ts)
  BY <1>2, <1>5
<1> QED BY <1>1, <1>4, <1>5

LEMMA NameNext ==
    ASSUME StockInv, NameInv, [Next]_vars
    PROVE  NameInv'
<1> SUFFICES ASSUME NEW w \in Words, w \notin contested'
             PROVE  Clear(w)'
  BY DEF NameInv
<1>1. Typed /\ Lockers
  BY TypesAre DEF StockInv, Tallied
<1>2. contested' = contested => Clear(w)
  BY DEF NameInv
<1>3. CASE Quiet \/ UNCHANGED vars
  <2>1. /\ hold' = hold /\ code' = code /\ contested' = contested
        /\ \A s \in Requests : SameIntent(req[s], req'[s])
    BY <1>1, <1>3, QuietIntents, SameIsSame DEF vars
  <2>2. HoldsNamed(w)' = HoldsNamed(w) /\ CodesNamed(w)' = CodesNamed(w)
    BY <2>1 DEF HoldsNamed, CodesNamed
  <2> QED BY <1>2, <2>1, <2>2, ClearKept
<1>4. CASE HoldStep
  <2>1. PICK r \in Requests, h \in Holds :
              \/ \E from \in Holds \cup {Null}, n \in Quantities : \E row : Starts(r, h, from, row, n)
              \/ \E v \in Words \cup {Null}, kind \in Kinds, discount \in BOOLEAN \cup {Null},
                    n \in Quantities \cup {Null} : StartUpdate(r, h, v, kind, discount, n)
              \/ StartDestroy(r, h)
    BY <1>1, <1>4, HoldSteps
  <2>2. CASE StartDestroy(r, h)
    BY <1>3, <2>2 DEF Quiet
  <2> QED BY <1>1, <2>1, <2>2, StartsClear, StartUpdateClear
<1>5. CASE HoldEnd
  <2>1. PICK r \in Requests : FinishHold(r) \/ LockHold(r) \/ FinishUpdate(r) \/ FinishDestroy(r)
    BY <1>5 DEF HoldEnd
  <2>2. CASE LockHold(r)
    BY <1>3, <2>2 DEF Quiet
  <2>3. CASE FinishHold(r) \/ FinishUpdate(r) \/ FinishDestroy(r)
    <3>1. contested' = contested
      BY <2>3 DEF FinishHold, FinishUpdate, FinishDestroy
    <3> QED BY <1>1, <1>2, <2>3, <3>1, FinishHoldClear, FinishUpdateClear, FinishDestroyClear
  <2> QED BY <2>1, <2>2, <2>3
<1>6. CASE CodeStep
  <2>1. PICK c \in Codes :
              \/ DestroyCode(c)
              \/ \E r \in Requests, v \in Words, kind \in {"Discount", "Access"},
                    discount \in BOOLEAN, ts \in SUBSET Types : StartCode(r, c, v, kind, discount, ts)
              \/ \E r \in Requests, v \in Words \cup {Null}, discount \in BOOLEAN \cup {Null},
                    ts \in (SUBSET Types) \cup {Null} : StartCodeUpdate(r, c, v, discount, ts)
    BY <1>1, <1>6, CodeSteps
  <2>2. CASE DestroyCode(c)
    <3>1. /\ code' = [code EXCEPT ![c] = Null] /\ hold' = hold /\ req' = req
          /\ contested' = contested
      BY <2>2 DEF DestroyCode
    <3>2. HoldsNamed(w)' = HoldsNamed(w) /\ CodesNamed(w)' \subseteq CodesNamed(w)
      BY <1>1, <3>1 DEF HoldsNamed, CodesNamed, Typed
    <3> QED BY <1>2, <3>1, <3>2, SameIsSame, ClearKept
  <2> QED BY <1>1, <2>1, <2>2, StartCodeClear, StartCodeUpdateClear
<1>7. CASE CodeEnd
  <2>1. contested' = contested
    BY <1>7 DEF CodeEnd, FinishCode, FinishCodeUpdate
  <2> QED BY <1>1, <1>2, <1>7, <2>1, FinishCodeClear, FinishCodeUpdateClear DEF CodeEnd
<1>8. CASE CustomerStep \/ CapacityStep \/ \E r \in Requests : Fail(r)
  BY <1>3, <1>8 DEF Quiet
<1> QED BY <1>3, <1>4, <1>5, <1>6, <1>7, <1>8 DEF Next

-----------------------------------------------------------------------------
(* Discounts.                                                              *)

\* What a request is about to write stays sound, if the row it has read is as it
\* was, gone, or no longer what it has read.
LEMMA SaysKept ==
    ASSUME Typed, Typed', NEW s \in Requests, Says(s), SameIntent(req[s], req'[s]),
           \A h \in Holds : hold'[h] # Null /\ s \in hold'[h].readers =>
              /\ hold[h] # Null /\ s \in hold[h].readers
              /\ hold'[h].kind = hold[h].kind /\ hold'[h].discount = hold[h].discount,
           \A c \in Codes : code'[c] # Null /\ s \in code'[c].readers =>
              /\ code[c] # Null /\ s \in code[c].readers
              /\ code'[c].kind = code[c].kind /\ code'[c].discount = code[c].discount
    PROVE  Says(s)'
<1>1. PICK p, q : p = req[s] /\ q = req'[s]
  OBVIOUS
<1>2. SameIntent(p, q) /\ p \in ReqRows
  BY <1>1 DEF Typed
<1>3. /\ \A h \in Holds : hold[h] # Null => hold[h] \in HoldRow
      /\ \A h \in Holds : hold'[h] # Null => hold'[h] \in HoldRow
      /\ \A c \in Codes : code[c] # Null => code[c] \in CodeRow
      /\ \A c \in Codes : code'[c] # Null => code'[c] \in CodeRow
  BY DEF Typed
<1>4. CASE q.kind \in {"create", "newcode"}
  <2>1. q = p
    BY <1>2, <1>4 DEF SameIntent
  <2> QED BY <1>1, <1>4, <2>1 DEF Says
<1>5. CASE q.kind \in {"update", "locked"}
  <2>1. p.kind \in {"update", "locked"} /\ q.hold = p.hold /\ q.set = p.set
    BY <1>2, <1>5 DEF SameIntent
  <2>2. p.hold \in Holds /\ p.set \in HoldChange
    BY <1>2, <2>1, KindsOf, UpdatingFields
  <2>3. PICK h, set, old, new : h = p.hold /\ set = p.set /\ old = hold[h] /\ new = hold'[h]
    OBVIOUS
  <2>4. ASSUME new # Null, s \in new.readers
        PROVE  DiscountValid(Changed(new, set).kind, Changed(new, set).discount)
    <3>1. old # Null /\ s \in old.readers /\ new.kind = old.kind /\ new.discount = old.discount
      BY <2>2, <2>3, <2>4
    <3>2. DiscountValid(Changed(old, set).kind, Changed(old, set).discount)
      BY <1>1, <2>1, <2>3, <3>1 DEF Says
    <3>3. old \in HoldRow /\ new \in HoldRow /\ set \in HoldChange
      BY <1>3, <2>2, <2>3, <2>4, <3>1
    <3>4. /\ Changed(new, set).kind = Changed(old, set).kind
          /\ Changed(new, set).discount = Changed(old, set).discount
      BY <3>1, <3>3, ChangedHold
    <3> QED BY <3>2, <3>4
  <2> QED BY <1>1, <1>5, <2>1, <2>3, <2>4 DEF Says
<1>6. CASE q.kind = "code"
  <2>1. q = p
    BY <1>2, <1>6 DEF SameIntent
  <2>2. p.code \in Codes /\ p.set \in CodeChange
    BY <1>2, <1>6, <2>1, KindsOf, CodingFields
  <2>3. PICK c, set, old, new : c = p.code /\ set = p.set /\ old = code[c] /\ new = code'[c]
    OBVIOUS
  <2>4. ASSUME new # Null, s \in new.readers
        PROVE  DiscountValid(new.kind, Changed(new, set).discount)
    <3>1. old # Null /\ s \in old.readers /\ new.kind = old.kind /\ new.discount = old.discount
      BY <2>2, <2>3, <2>4
    <3>2. DiscountValid(old.kind, Changed(old, set).discount)
      BY <1>1, <1>6, <2>1, <2>3, <3>1 DEF Says
    <3>3. old \in CodeRow /\ new \in CodeRow /\ set \in CodeChange
      BY <1>3, <2>2, <2>3, <2>4, <3>1
    <3>4. Changed(new, set).discount = Changed(old, set).discount
      BY <3>1, <3>3, ChangedCode
    <3> QED BY <3>1, <3>2, <3>4
  <2> QED BY <1>1, <1>6, <2>1, <2>3, <2>4 DEF Says
<1> QED BY <1>1, <1>4, <1>5, <1>6 DEF Says

LEMMA QuietDiscounts ==
    ASSUME Typed, Typed', DiscountInv, Quiet \/ UNCHANGED vars
    PROVE  DiscountInv'
<1>1. /\ hold' = hold /\ code' = code
      /\ \A s \in Requests : SameIntent(req[s], req'[s])
  BY QuietIntents, SameIsSame DEF vars
<1>2. \A s \in Requests : Says(s)'
  BY <1>1, SaysKept DEF DiscountInv
<1>3. DiscountsGiven'
  BY <1>1 DEF DiscountInv, DiscountsGiven
<1> QED BY <1>2, <1>3 DEF DiscountInv

LEMMA StartsDiscounts ==
    ASSUME Typed, Typed', DiscountInv,
           NEW r \in Requests, NEW h \in Holds, NEW from, NEW n, NEW row, Starts(r, h, from, row, n)
    PROVE  DiscountInv'
<1>1. PICK q : q = [kind |-> "create", hold |-> h, from |-> from, row |-> row, n |-> n]
  OBVIOUS
<1>2. q.kind = "create" /\ q.row = row
  BY <1>1
<1>3. /\ req'[r] = q /\ \A s \in Requests \ {r} : req'[s] = req[s]
      /\ hold' = hold /\ code' = code /\ DiscountValid(row.kind, row.discount) /\ row.readers = {}
  BY <1>1 DEF Starts, Typed
<1>4. Says(r)'
  BY <1>2, <1>3 DEF Says
<1>5. \A s \in Requests \ {r} : Says(s)'
  BY <1>3, SameIsSame, SaysKept DEF DiscountInv
<1>6. DiscountsGiven'
  BY <1>3 DEF DiscountInv, DiscountsGiven
<1> QED BY <1>4, <1>5, <1>6 DEF DiscountInv

LEMMA StartUpdateDiscounts ==
    ASSUME Typed, Typed', DiscountInv,
           NEW r \in Requests, NEW h \in Holds, NEW v \in Words \cup {Null}, NEW kind \in Kinds,
           NEW discount \in BOOLEAN \cup {Null}, NEW n, StartUpdate(r, h, v, kind, discount, n)
    PROVE  DiscountInv'
<1>1. PICK set : set = [word |-> v, kind |-> kind,
                        discount |-> IF kind = "Comp" THEN FALSE ELSE discount]
  OBVIOUS
<1>2. set \in HoldChange
  BY <1>1 DEF HoldChange
<1>3. PICK q : q = [kind |-> "update", hold |-> h, set |-> set, n |-> n, count |-> 0, clean |-> TRUE]
  OBVIOUS
<1>4. q.kind = "update" /\ q.hold = h /\ q.set = set
  BY <1>3
<1>5. /\ req'[r] = q /\ \A s \in Requests \ {r} : req'[s] = req[s]
      /\ hold[h] # Null /\ hold' = [hold EXCEPT ![h].readers = @ \cup {r}] /\ code' = code
      /\ DiscountValid(Changed(hold[h], set).kind, Changed(hold[h], set).discount)
  BY <1>1, <1>3 DEF StartUpdate, Typed
<1>6. hold[h] \in HoldRow
  BY <1>5, TypedState
<1>7. PICK row : row = [hold[h] EXCEPT !.readers = @ \cup {r}]
  OBVIOUS
<1>8. /\ row \in HoldRow /\ row.readers = hold[h].readers \cup {r}
      /\ row.kind = hold[h].kind /\ row.discount = hold[h].discount
  BY <1>6, <1>7 DEF HoldRow
<1>9. hold'[h] = row /\ row # Null /\ \A g \in Holds \ {h} : hold'[g] = hold[g]
  BY <1>5, <1>7, <1>8, HoldFields DEF Typed
<1>10. DiscountValid(Changed(row, set).kind, Changed(row, set).discount)
  <2>1. /\ Changed(row, set).kind = Changed(hold[h], set).kind
        /\ Changed(row, set).discount = Changed(hold[h], set).discount
    BY <1>2, <1>6, <1>8, ChangedHold
  <2> QED BY <1>5, <2>1
<1>11. Says(r)'
  BY <1>4, <1>5, <1>9, <1>10 DEF Says
<1>12. \A s \in Requests \ {r} : Says(s)'
  <2> SUFFICES ASSUME NEW s \in Requests, s # r
               PROVE  Says(s)'
    OBVIOUS
  <2>1. Says(s) /\ SameIntent(req[s], req'[s])
    BY <1>5, SameIsSame DEF DiscountInv
  <2>2. \A g \in Holds : hold'[g] # Null /\ s \in hold'[g].readers =>
              /\ hold[g] # Null /\ s \in hold[g].readers
              /\ hold'[g].kind = hold[g].kind /\ hold'[g].discount = hold[g].discount
    BY <1>5, <1>8, <1>9
  <2>3. \A c \in Codes : code'[c] # Null /\ s \in code'[c].readers =>
              /\ code[c] # Null /\ s \in code[c].readers
              /\ code'[c].kind = code[c].kind /\ code'[c].discount = code[c].discount
    BY <1>5
  <2> QED BY <2>1, <2>2, <2>3, SaysKept
<1>13. DiscountsGiven'
  BY <1>5, <1>8, <1>9 DEF DiscountInv, DiscountsGiven
<1> QED BY <1>11, <1>12, <1>13 DEF DiscountInv

LEMMA StartCodeDiscounts ==
    ASSUME Typed, Typed', DiscountInv,
           NEW r \in Requests, NEW c \in Codes, NEW v, NEW kind, NEW discount, NEW ts,
           StartCode(r, c, v, kind, discount, ts)
    PROVE  DiscountInv'
<1>1. PICK row : row = [word |-> v, kind |-> kind, discount |-> discount, types |-> ts,
                        readers |-> {}]
  OBVIOUS
<1>2. PICK q : q = [kind |-> "newcode", code |-> c, row |-> row]
  OBVIOUS
<1>3. q.kind = "newcode" /\ q.row = row
      /\ row.kind = kind /\ row.discount = discount /\ row.readers = {}
  BY <1>1, <1>2
<1>4. /\ req'[r] = q /\ \A s \in Requests \ {r} : req'[s] = req[s]
      /\ hold' = hold /\ code' = code /\ DiscountValid(kind, discount)
  BY <1>1, <1>2 DEF StartCode, Typed
<1>5. Says(r)'
  BY <1>3, <1>4 DEF Says
<1>6. \A s \in Requests \ {r} : Says(s)'
  BY <1>4, SameIsSame, SaysKept DEF DiscountInv
<1>7. DiscountsGiven'
  BY <1>4 DEF DiscountInv, DiscountsGiven
<1> QED BY <1>5, <1>6, <1>7 DEF DiscountInv

LEMMA StartCodeUpdateDiscounts ==
    ASSUME Typed, Typed', DiscountInv,
           NEW r \in Requests, NEW c \in Codes, NEW v \in Words \cup {Null},
           NEW discount \in BOOLEAN \cup {Null}, NEW ts \in (SUBSET Types) \cup {Null},
           StartCodeUpdate(r, c, v, discount, ts)
    PROVE  DiscountInv'
<1>1. PICK set : set = [word |-> v, discount |-> discount, types |-> ts]
  OBVIOUS
<1>2. set \in CodeChange
  BY <1>1 DEF CodeChange
<1>3. PICK q : q = [kind |-> "code", code |-> c, set |-> set]
  OBVIOUS
<1>4. q.kind = "code" /\ q.code = c /\ q.set = set
  BY <1>3
<1>5. /\ req'[r] = q /\ \A s \in Requests \ {r} : req'[s] = req[s]
      /\ code[c] # Null /\ code' = [code EXCEPT ![c].readers = @ \cup {r}] /\ hold' = hold
      /\ DiscountValid(Changed(code[c], set).kind, Changed(code[c], set).discount)
  BY <1>1, <1>3 DEF StartCodeUpdate, Typed
<1>6. code[c] \in CodeRow
  BY <1>5, TypedState
<1>7. PICK row : row = [code[c] EXCEPT !.readers = @ \cup {r}]
  OBVIOUS
<1>8. /\ row \in CodeRow /\ row.readers = code[c].readers \cup {r}
      /\ row.kind = code[c].kind /\ row.discount = code[c].discount
  BY <1>6, <1>7 DEF CodeRow
<1>9. code'[c] = row /\ row # Null /\ \A d \in Codes \ {c} : code'[d] = code[d]
  BY <1>5, <1>7, <1>8, CodeFields DEF Typed
<1>10. DiscountValid(row.kind, Changed(row, set).discount)
  <2>1. /\ Changed(code[c], set).kind = row.kind
        /\ Changed(row, set).discount = Changed(code[c], set).discount
    BY <1>2, <1>6, <1>8, ChangedCode
  <2> QED BY <1>5, <2>1
<1>11. Says(r)'
  BY <1>4, <1>5, <1>9, <1>10 DEF Says
<1>12. \A s \in Requests \ {r} : Says(s)'
  <2> SUFFICES ASSUME NEW s \in Requests, s # r
               PROVE  Says(s)'
    OBVIOUS
  <2>1. Says(s) /\ SameIntent(req[s], req'[s])
    BY <1>5, SameIsSame DEF DiscountInv
  <2>2. \A g \in Holds : hold'[g] # Null /\ s \in hold'[g].readers =>
              /\ hold[g] # Null /\ s \in hold[g].readers
              /\ hold'[g].kind = hold[g].kind /\ hold'[g].discount = hold[g].discount
    BY <1>5
  <2>3. \A d \in Codes : code'[d] # Null /\ s \in code'[d].readers =>
              /\ code[d] # Null /\ s \in code[d].readers
              /\ code'[d].kind = code[d].kind /\ code'[d].discount = code[d].discount
    BY <1>5, <1>8, <1>9
  <2> QED BY <2>1, <2>2, <2>3, SaysKept
<1>13. DiscountsGiven'
  BY <1>5, <1>8, <1>9 DEF DiscountInv, DiscountsGiven
<1> QED BY <1>11, <1>12, <1>13 DEF DiscountInv

\* A request ends and writes, or removes, the row of a hold.
LEMMA HoldWritten ==
    ASSUME Typed, Typed', DiscountInv, NEW r \in Requests, Ends(r), code' = code,
           NEW h \in Holds, \A g \in Holds \ {h} : hold'[g] = hold[g],
           hold'[h] # Null =>
              hold'[h].readers = {} /\ DiscountValid(hold'[h].kind, hold'[h].discount)
    PROVE  DiscountInv'
<1>1. \A s \in Requests : Says(s)'
  <2> SUFFICES ASSUME NEW s \in Requests
               PROVE  Says(s)'
    OBVIOUS
  <2>1. Says(s) /\ SameIntent(req[s], req'[s])
    BY DEF DiscountInv, Ends
  <2>2. \A g \in Holds : hold'[g] # Null /\ s \in hold'[g].readers =>
              /\ hold[g] # Null /\ s \in hold[g].readers
              /\ hold'[g].kind = hold[g].kind /\ hold'[g].discount = hold[g].discount
    OBVIOUS
  <2>3. \A c \in Codes : code'[c] # Null /\ s \in code'[c].readers =>
              /\ code[c] # Null /\ s \in code[c].readers
              /\ code'[c].kind = code[c].kind /\ code'[c].discount = code[c].discount
    OBVIOUS
  <2> QED BY <2>1, <2>2, <2>3, SaysKept
<1>2. DiscountsGiven'
  BY DEF DiscountInv, DiscountsGiven
<1> QED BY <1>1, <1>2 DEF DiscountInv

LEMMA CodeWritten ==
    ASSUME Typed, Typed', DiscountInv, hold' = hold,
           \A s \in Requests : SameIntent(req[s], req'[s]),
           NEW c \in Codes, \A d \in Codes \ {c} : code'[d] = code[d],
           code'[c] # Null =>
              code'[c].readers = {} /\ DiscountValid(code'[c].kind, code'[c].discount)
    PROVE  DiscountInv'
<1>1. \A s \in Requests : Says(s)'
  <2> SUFFICES ASSUME NEW s \in Requests
               PROVE  Says(s)'
    OBVIOUS
  <2>1. Says(s) /\ SameIntent(req[s], req'[s])
    BY DEF DiscountInv
  <2>2. \A g \in Holds : hold'[g] # Null /\ s \in hold'[g].readers =>
              /\ hold[g] # Null /\ s \in hold[g].readers
              /\ hold'[g].kind = hold[g].kind /\ hold'[g].discount = hold[g].discount
    OBVIOUS
  <2>3. \A d \in Codes : code'[d] # Null /\ s \in code'[d].readers =>
              /\ code[d] # Null /\ s \in code[d].readers
              /\ code'[d].kind = code[d].kind /\ code'[d].discount = code[d].discount
    OBVIOUS
  <2> QED BY <2>1, <2>2, <2>3, SaysKept
<1>2. DiscountsGiven'
  BY DEF DiscountInv, DiscountsGiven
<1> QED BY <1>1, <1>2 DEF DiscountInv

LEMMA HoldEndDiscounts ==
    ASSUME Typed, Typed', Lockers, DiscountInv, NEW r \in Requests,
           FinishHold(r) \/ FinishUpdate(r) \/ FinishDestroy(r)
    PROVE  DiscountInv'
<1>1. PICK q : q = req[r]
  OBVIOUS
<1>2. q \in ReqRows /\ Says(r)
  BY <1>1 DEF Typed, DiscountInv
<1>3. PICK c : c = FALSE
  OBVIOUS
<1>4. CASE FinishHold(r)
  <2>1. q.kind = "create" /\ q \in Creating
    BY <1>1, <1>2, <1>4, KindsOf DEF FinishHold
  <2>2. PICK hs : hs = IF q.n = 0 THEN {} ELSE {q.from}
    OBVIOUS
  <2>3. /\ hold' = [hold EXCEPT ![q.hold] = q.row] /\ code' = code
        /\ req' = Ended(r, hs, c) /\ c \in BOOLEAN
    BY <1>1, <1>3, <1>4, <2>2 DEF FinishHold
  <2>4. q.hold \in Holds
    BY <2>1, CreatingFields
  <2>5. hold'[q.hold] = q.row /\ \A g \in Holds \ {q.hold} : hold'[g] = hold[g]
    BY <2>3, <2>4 DEF Typed
  <2>6. q.row.readers = {} /\ DiscountValid(q.row.kind, q.row.discount)
    BY <1>1, <1>2, <2>1 DEF Says
  <2>7. Ends(r)
    BY <2>3, EndedIntents
  <2> QED BY <2>3, <2>4, <2>5, <2>6, <2>7, HoldWritten
<1>5. CASE FinishUpdate(r)
  <2>1. q.kind = "locked" /\ hold[q.hold] # Null /\ r \in hold[q.hold].readers
    BY <1>1, <1>5 DEF FinishUpdate, Lockers
  <2>2. q.hold \in Holds /\ q.set \in HoldChange
    BY <1>2, <2>1, KindsOf, UpdatingFields
  <2>3. hold[q.hold] \in HoldRow
    BY <2>1, <2>2, TypedState
  <2>4. PICK row : row = Changed(hold[q.hold], q.set)
    OBVIOUS
  <2>5. hold' = [hold EXCEPT ![q.hold] = row] /\ code' = code
    BY <1>1, <1>5, <2>4 DEF FinishUpdate
  <2>6. hold'[q.hold] = row /\ \A g \in Holds \ {q.hold} : hold'[g] = hold[g]
    BY <2>2, <2>5 DEF Typed
  <2>7. row.readers = {}
    BY <2>2, <2>3, <2>4, ChangedHold
  <2>8. DiscountValid(row.kind, row.discount)
    BY <1>1, <1>2, <2>1, <2>4 DEF Says
  <2>9. Ends(r)
    BY <1>5, FinishUpdateEnds
  <2> QED BY <2>2, <2>5, <2>6, <2>7, <2>8, <2>9, HoldWritten
<1>6. CASE FinishDestroy(r)
  <2>1. q.kind = "destroy" /\ hold' = [hold EXCEPT ![q.hold] = Null]
    BY <1>1, <1>6 DEF FinishDestroy
  <2>2. q.hold \in Holds
    BY <1>2, <2>1, KindsOf, DestroyingFields
  <2>3. hold'[q.hold] = Null /\ \A g \in Holds \ {q.hold} : hold'[g] = hold[g]
    BY <2>1, <2>2 DEF Typed
  <2>4. Ends(r) /\ code' = code
    BY <1>6, FinishDestroyEnds
  <2> QED BY <2>2, <2>3, <2>4, HoldWritten
<1> QED BY <1>4, <1>5, <1>6

LEMMA CodeEndDiscounts ==
    ASSUME Typed, Typed', DiscountInv, CodeEnd
    PROVE  DiscountInv'
<1>1. PICK r \in Requests : FinishCode(r) \/ FinishCodeUpdate(r)
  BY DEF CodeEnd
<1>2. PICK q : q = req[r]
  OBVIOUS
<1>3. q \in ReqRows /\ Says(r)
  BY <1>2 DEF Typed, DiscountInv
<1>4. hold' = hold /\ req' = [req EXCEPT ![r] = Done]
  BY <1>1 DEF FinishCode, FinishCodeUpdate
<1>5. \A s \in Requests : SameIntent(req[s], req'[s])
  BY <1>4, DoneIntents DEF Ends
<1>6. CASE FinishCode(r)
  <2>1. q.kind = "newcode" /\ code' = [code EXCEPT ![q.code] = q.row]
    BY <1>2, <1>6 DEF FinishCode
  <2>2. q.code \in Codes
    BY <1>3, <2>1, KindsOf, CodingFields
  <2>3. code'[q.code] = q.row /\ \A d \in Codes \ {q.code} : code'[d] = code[d]
    BY <2>1, <2>2 DEF Typed
  <2>4. q.row.readers = {} /\ DiscountValid(q.row.kind, q.row.discount)
    BY <1>2, <1>3, <2>1 DEF Says
  <2> QED BY <1>4, <1>5, <2>2, <2>3, <2>4, CodeWritten
<1>7. CASE FinishCodeUpdate(r)
  <2>1. PICK row : row = Changed(code[q.code], q.set)
    OBVIOUS
  <2>2. /\ q.kind = "code" /\ code' = [code EXCEPT ![q.code] = row]
        /\ code[q.code] # Null /\ r \in code[q.code].readers
    BY <1>2, <1>7, <2>1 DEF FinishCodeUpdate
  <2>3. q.code \in Codes /\ q.set \in CodeChange
    BY <1>3, <2>2, KindsOf, CodingFields
  <2>4. code[q.code] \in CodeRow
    BY <2>2, <2>3, TypedState
  <2>5. row.readers = {} /\ row.kind = code[q.code].kind
    BY <2>1, <2>3, <2>4, ChangedCode
  <2>6. DiscountValid(code[q.code].kind, row.discount)
    BY <1>2, <1>3, <2>1, <2>2 DEF Says
  <2>7. code'[q.code] = row /\ \A d \in Codes \ {q.code} : code'[d] = code[d]
    BY <2>2, <2>3 DEF Typed
  <2> QED BY <1>4, <1>5, <2>3, <2>5, <2>6, <2>7, CodeWritten
<1> QED BY <1>1, <1>6, <1>7

LEMMA DiscountNext ==
    ASSUME StockInv, DiscountInv, [Next]_vars
    PROVE  DiscountInv'
<1>1. Typed /\ Lockers
  BY TypesAre DEF StockInv, Tallied
<1>2. Typed'
  BY <1>1, NextTyped
<1>3. CASE Quiet \/ UNCHANGED vars
  BY <1>1, <1>2, <1>3, QuietDiscounts
<1>4. CASE HoldStep
  <2>1. PICK r \in Requests, h \in Holds :
              \/ \E from \in Holds \cup {Null}, n \in Quantities : \E row : Starts(r, h, from, row, n)
              \/ \E v \in Words \cup {Null}, kind \in Kinds, discount \in BOOLEAN \cup {Null},
                    n \in Quantities \cup {Null} : StartUpdate(r, h, v, kind, discount, n)
              \/ StartDestroy(r, h)
    BY <1>1, <1>4, HoldSteps
  <2>2. CASE StartDestroy(r, h)
    BY <1>3, <2>2 DEF Quiet
  <2> QED BY <1>1, <1>2, <2>1, <2>2, StartsDiscounts, StartUpdateDiscounts
<1>5. CASE HoldEnd
  <2>1. PICK r \in Requests : FinishHold(r) \/ LockHold(r) \/ FinishUpdate(r) \/ FinishDestroy(r)
    BY <1>5 DEF HoldEnd
  <2>2. CASE LockHold(r)
    BY <1>3, <2>2 DEF Quiet
  <2> QED BY <1>1, <1>2, <2>1, <2>2, HoldEndDiscounts
<1>6. CASE CodeStep
  <2>1. PICK c \in Codes :
              \/ DestroyCode(c)
              \/ \E r \in Requests, v \in Words, kind \in {"Discount", "Access"},
                    discount \in BOOLEAN, ts \in SUBSET Types : StartCode(r, c, v, kind, discount, ts)
              \/ \E r \in Requests, v \in Words \cup {Null}, discount \in BOOLEAN \cup {Null},
                    ts \in (SUBSET Types) \cup {Null} : StartCodeUpdate(r, c, v, discount, ts)
    BY <1>1, <1>6, CodeSteps
  <2>2. CASE DestroyCode(c)
    <3>1. code' = [code EXCEPT ![c] = Null] /\ hold' = hold /\ req' = req
      BY <2>2 DEF DestroyCode
    <3>2. code'[c] = Null /\ \A d \in Codes \ {c} : code'[d] = code[d]
      BY <1>1, <3>1 DEF Typed
    <3>3. \A s \in Requests : SameIntent(req[s], req'[s])
      BY <3>1, SameIsSame
    <3> QED BY <1>1, <1>2, <3>1, <3>2, <3>3, CodeWritten
  <2> QED BY <1>1, <1>2, <2>1, <2>2, StartCodeDiscounts, StartCodeUpdateDiscounts
<1>7. CASE CustomerStep \/ CapacityStep \/ \E r \in Requests : Fail(r)
  BY <1>3, <1>7 DEF Quiet
<1> QED BY <1>1, <1>2, <1>3, <1>4, <1>5, <1>6, <1>7, CodeEndDiscounts DEF Next

LEMMA InitNames == Init => NameInv /\ DiscountInv
<1> SUFFICES ASSUME Init
             PROVE  NameInv /\ DiscountInv
  OBVIOUS
<1>1. \A r \in Requests : req[r].kind = "idle"
  BY DEF Init, Idle
<1>2. PICK D : D = DOMAIN FirstParent
  OBVIOUS
<1>3. /\ D \subseteq Holds
      /\ \A g, h \in D : FirstWord[g] = FirstWord[h] => g = h
  BY <1>2, HoldAssumption, WordAssumption
<1>4. /\ \A h \in Holds \ D : hold[h] = Null
      /\ \A h \in D : /\ hold[h].word = FirstWord[h]
                      /\ hold[h].kind = "Discount" => FirstParent[h] = Null
                      /\ hold[h].discount = (FirstParent[h] = Null)
      /\ \A c \in Codes : code[c] = Null
  BY <1>2, <1>3 DEF Init
<1>5. ASSUME NEW w
      PROVE  Clear(w)
  <2>1. \A r \in Requests : ~Claims(r, w)
    BY <1>1 DEF Claims
  <2>2. CodesNamed(w) = {}
    BY <1>4 DEF CodesNamed
  <2>3. \A g, h \in HoldsNamed(w) : g = h
    BY <1>3, <1>4 DEF HoldsNamed
  <2> QED BY <2>1, <2>2, <2>3 DEF Clear, OneClaim, FreeToUse, OneName
<1>6. DiscountsGiven
  BY <1>4 DEF DiscountsGiven, DiscountValid
<1>7. \A r \in Requests : Says(r)
  BY <1>1 DEF Says
<1> QED BY <1>5, <1>6, <1>7 DEF NameInv, DiscountInv

LEMMA OneMeaningFollows == NameInv => OneMeaning
<1> SUFFICES ASSUME NameInv, NEW w \in Words \ contested
             PROVE  Cardinality(HoldsNamed(w)) + Cardinality(CodesNamed(w)) <= 1
  BY DEF OneMeaning
<1>1. OneName(w)
  BY DEF NameInv, Clear
<1>2. ASSUME NEW S, \A g, h \in S : g = h
      PROVE  S = {} \/ \E g \in S : S = {g}
  BY <1>2
<1>3. ASSUME NEW S, \A g, h \in S : g = h
      PROVE  Cardinality(S) \in {0, 1} /\ (S = {} => Cardinality(S) = 0)
  <2>1. CASE S = {}
    BY <2>1, FS_EmptySet
  <2>2. CASE S # {}
    <3>1. PICK g \in S : S = {g}
      BY <1>2, <1>3, <2>2
    <3> QED BY <2>2, <3>1, FS_Singleton
  <2> QED BY <2>1, <2>2
<1> QED BY <1>1, <1>3 DEF OneName

\* What a customer types in means one thing, and a discount is never left out:
\* the checks of a request hold until it commits, unless another one has claimed
\* the same word meanwhile.
THEOREM CodesStayClear == Spec => []CodesAreClear
<1>1. Init => StockInv /\ NameInv /\ DiscountInv
  BY InitTallies, InitNames
<1>2. StockInv /\ NameInv /\ DiscountInv /\ [Next]_vars => (StockInv /\ NameInv /\ DiscountInv)'
  BY StockNext, NameNext, DiscountNext
<1>3. NameInv /\ DiscountInv => CodesAreClear
  BY OneMeaningFollows DEF CodesAreClear, DiscountInv
<1> QED BY <1>1, <1>2, <1>3, PTL DEF Spec

-----------------------------------------------------------------------------
(* Tickets that customers have.                                            *)

\* Only tickets that are not taken move.
LEMMA MoveLeaves ==
    ASSUME Typed, NEW T, NEW to, \A i \in T : ticket[i].status # "Taken", ticket' = Move(T, to)
    PROVE  \A i \in Issued : ticket[i].status = "Taken" => ticket'[i].hold = ticket[i].hold
<1>1. \A i \in Rows \ T : ticket'[i] = ticket[i]
  BY DEF Move
<1> QED BY <1>1, TypedState

LEMMA TakenStay ==
    ASSUME StockInv, [Next]_vars
    PROVE  \A i \in Issued : ticket[i].status = "Taken" => ticket'[i].hold = ticket[i].hold
<1>1. Typed /\ Issued = 1 .. Cardinality(Issued)
  BY TypesAre DEF StockInv, Tallied, Counted
<1>2. CASE CustomerStep
  <2>1. PICK i \in Rows : Lapse(i) \/ Return(i) \/ \E h \in Holds \cup {Null} : Take(i, h)
    BY <1>2 DEF CustomerStep
  <2>2. i \in Issued
    BY <2>1 DEF Lapse, Return, Take, Takeable, InHold
  <2>3. PICK status \in {"Available", "Taken", "Lapsed"} : ticket' = [ticket EXCEPT ![i].status = status]
    BY <2>1 DEF Lapse, Return, Take
  <2> QED BY <1>1, <2>2, <2>3, SameTickets
<1>3. ASSUME NEW r \in Requests, FinishHold(r)
      PROVE  \A i \in Issued : ticket[i].status = "Taken" => ticket'[i].hold = ticket[i].hold
  <2>1. PICK T \in SUBSET Takeable(req[r].from) : ticket' = Move(T, req[r].hold)
    BY <1>3 DEF FinishHold
  <2>2. \A i \in T : ticket[i].status # "Taken"
    BY <2>1 DEF Takeable
  <2> QED BY <1>1, <2>1, <2>2, MoveLeaves
<1>4. ASSUME NEW r \in Requests, FinishUpdate(r)
      PROVE  \A i \in Issued : ticket[i].status = "Taken" => ticket'[i].hold = ticket[i].hold
  <2>1. PICK m : m = Requantified(req[r].hold, req[r].count, req[r].n)
    OBVIOUS
  <2>2. \A i \in m.from : ticket[i].status # "Taken"
    BY <2>1 DEF Requantified, Takeable, Droppable
  <2>3. UNCHANGED ticket \/ \E T \in SUBSET m.from : ticket' = Move(T, m.to)
    BY <1>4, <2>1 DEF FinishUpdate, SetQuantity
  <2>4. CASE \E T \in SUBSET m.from : ticket' = Move(T, m.to)
    <3>1. PICK T \in SUBSET m.from : ticket' = Move(T, m.to)
      BY <2>4
    <3> QED BY <1>1, <2>2, <3>1, MoveLeaves
  <2> QED BY <2>3, <2>4
<1>5. ASSUME NEW r \in Requests, FinishDestroy(r)
      PROVE  \A i \in Issued : ticket[i].status = "Taken" => ticket'[i].hold = ticket[i].hold
  <2>1. PICK h, p : h = req[r].hold /\ p = hold[h].parent
    OBVIOUS
  <2>2. \E T \in SUBSET InHold(h) :
           (\A i \in T : ticket[i].status # "Taken") /\ ticket' = Move(T, p)
    BY <1>1, <1>5, <2>1, FinishDestroyIs
  <2> QED BY <1>1, <2>2, MoveLeaves
<1>6. ASSUME NEW r \in Requests, FinishCapacity(r)
      PROVE  \A i \in Issued : ticket[i].status = "Taken" => ticket'[i].hold = ticket[i].hold
  <2>1. PICK q : q = req[r]
    OBVIOUS
  <2>2. q \in Sizing /\ (Issue(q) \/ Withdraw(q) \/ UNCHANGED ticket)
    BY <1>1, <1>6, <2>1, TypedState, KindsOf DEF FinishCapacity
  <2>3. CASE Issue(q)
    <3>1. \A i \in Issued : ticket'[i] = ticket[i]
      BY <1>1, <2>2, <2>3, IssueIs
    <3> QED BY <3>1
  <2> QED BY <1>1, <2>2, <2>3, WithdrawIs
<1>7. CASE HoldStep
  <2>1. \A r, h, from, parent, w, kind, discount, n :
           StartHold(r, h, from, parent, w, kind, discount, n) => ticket' = ticket
    BY DEF StartHold
  <2>2. \A r, h, w, kind, discount, n : StartUpdate(r, h, w, kind, discount, n) => ticket' = ticket
    BY DEF StartUpdate
  <2>3. \A r, h : StartDestroy(r, h) => ticket' = ticket
    BY DEF StartDestroy
  <2>4. ticket' = ticket
    BY <1>7, <2>1, <2>2, <2>3, ZenonT(40) DEF HoldStep, CreateHold, CreateComp, Split
  <2> QED BY <2>4
<1>8. CASE CodeStep \/ CodeEnd
  BY <1>8, CodesOnly
<1>9. ASSUME NEW r \in Requests, NEW n, StartCapacity(r, n) \/ LockHold(r) \/ Fail(r)
      PROVE  \A i \in Issued : ticket[i].status = "Taken" => ticket'[i].hold = ticket[i].hold
  BY <1>9 DEF StartCapacity, LockHold, Fail
<1>10. CASE UNCHANGED vars
  BY <1>10 DEF vars
<1> QED BY <1>2, <1>3, <1>4, <1>5, <1>6, <1>7, <1>8, <1>9, <1>10 DEF Next, HoldEnd, CapacityStep

\* No creation, update or removal of a hold, and no change of the capacity, moves
\* a ticket that is in a live cart or sold.
THEOREM TakenTicketsDoStay == Spec => TakenTicketsStay
<1>1. StockInv /\ [Next]_vars =>
         [\A i \in Issued : ticket[i].status = "Taken" => ticket'[i].hold = ticket[i].hold]_vars
  BY TakenStay
<1> QED BY <1>1, StockHolds, PTL DEF Spec, TakenTicketsStay
=============================================================================
