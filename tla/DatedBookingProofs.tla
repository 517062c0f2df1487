------------------------- MODULE DatedBookingProofs -------------------------
(***************************************************************************)
(* Proofs about what is sold by date, for every set of bookings and        *)
(* provider requests, every horizon, party size, capacity, calendar,       *)
(* longest stay and largest group.  Three parts, one upon the other: the   *)
(* stock (DatedStock), the requests and the job around it, whatever the    *)
(* domain (BookingService), and the four domains (DatedBooking).           *)
(***************************************************************************)
EXTENDS DatedBooking, FiniteSetTheorems, TLAPS

(* The stock.                                                              *)

(* A date without a row has no booked unit.                                *)
UnlistedEmpty == \A d \in Day \ listed : booked[d] = 0

(* The count an edit carries passed the check against its new total.       *)
EditChecked == \A e \in Editor : edit[e].step = "update" => edit[e].seen <= edit[e].total

StockIInv ==
    /\ StockTypeOK
    /\ UnlistedEmpty
    /\ EditChecked
    /\ BookedIsSold
    /\ Balanced

-----------------------------------------------------------------------------
(* Counting places                                                         *)

(* A booking of n people occupies n places of each of its dates.           *)
LEMMA PartySize ==
    ASSUME NEW b, NEW n \in 0..MaxParty
    PROVE  /\ IsFiniteSet({b} \X (1..n))
           /\ Cardinality({b} \X (1..n)) = n
<1>0. n \in Nat
  BY StockAssumption
<1>1. IsFiniteSet({b}) /\ Cardinality({b}) = 1
  BY FS_Singleton
<1>2. IsFiniteSet(1..n) /\ Cardinality(1..n) = n
  BY <1>0, FS_Interval
<1>3. /\ IsFiniteSet({b} \X (1..n))
      /\ Cardinality({b} \X (1..n)) = Cardinality({b}) * Cardinality(1..n)
  BY <1>1, <1>2, FS_Product
<1>4. 1 * n = n
  BY <1>0
<1>5. QED
  BY <1>1, <1>2, <1>3, <1>4

(* The places of a date are finitely many.                                 *)
LEMMA PlacesFinite ==
    ASSUME NEW d
    PROVE  IsFiniteSet(Places(d)) /\ Sold(d) \in Nat
<1>1. IsFiniteSet(Party)
  BY StockAssumption, FS_Interval DEF Party
<1>2. IsFiniteSet(Booking \X Party)
  BY <1>1, StockAssumption, FS_Product
<1>3. Places(d) \subseteq Booking \X Party
  BY DEF Places
<1>4. IsFiniteSet(Places(d))
  BY <1>2, <1>3, FS_Subset
<1>5. QED
  BY <1>4, FS_CardinalityType DEF Sold

(* When the status of b alone changes, the places of the other bookings    *)
(* stay as they are and those of b are added or removed as a block.        *)
LEMMA PlacesSplit ==
    ASSUME StockTypeOK, NEW b \in Booking, NEW d \in Day, Holds(b)
    PROVE  LET own    == IF d \in days[b] THEN {b} \X (1..people[b]) ELSE {}
               others == {p \in Places(d) : p[1] # b}
           IN  /\ Places(d) = own \cup others
               /\ own \cap others = {}
<1> DEFINE own == IF d \in days[b] THEN {b} \X (1..people[b]) ELSE {}
           others == {p \in Places(d) : p[1] # b}
<1>1. people[b] \in Nat /\ people[b] <= MaxParty /\ MaxParty \in Nat
  BY StockAssumption DEF StockTypeOK
<1>2. own \subseteq Places(d)
  BY <1>1 DEF Places, Party
<1>3. ASSUME NEW p \in Places(d), p[1] = b
      PROVE  p \in own
  BY <1>1, <1>3 DEF Places, Party
<1>4. Places(d) = own \cup others
  BY <1>2, <1>3
<1>5. own \cap others = {}
  OBVIOUS
<1>6. QED
  BY <1>4, <1>5

(* The units b itself holds on date d.                                     *)
LEMMA OwnPlaces ==
    ASSUME StockTypeOK, NEW b \in Booking, NEW d \in Day, Holds(b)
    PROVE  LET others == {p \in Places(d) : p[1] # b}
           IN  /\ IsFiniteSet(others)
               /\ Cardinality(others) \in Nat
               /\ Sold(d) = Cardinality(others) + (IF d \in days[b] THEN people[b] ELSE 0)
<1> DEFINE own == IF d \in days[b] THEN {b} \X (1..people[b]) ELSE {}
           others == {p \in Places(d) : p[1] # b}
<1>1. people[b] \in 0..MaxParty
  BY DEF StockTypeOK
<1>2. IsFiniteSet(own) /\ Cardinality(own) = (IF d \in days[b] THEN people[b] ELSE 0)
  BY <1>1, PartySize, FS_EmptySet
<1>3. IsFiniteSet(others)
  <2>1. others \subseteq Places(d)
    OBVIOUS
  <2>2. QED
    BY <2>1, PlacesFinite, FS_Subset
<1>4. Places(d) = own \cup others /\ own \cap others = {}
  BY PlacesSplit
<1>5. Cardinality(Places(d)) = Cardinality(own) + Cardinality(others) - Cardinality({})
  <2>1. Cardinality(own \cup others) = Cardinality(own) + Cardinality(others) - Cardinality(own \cap others)
    BY <1>2, <1>3, FS_Union
  <2>2. QED
    BY <2>1, <1>4
<1>6. Cardinality({}) = 0 /\ Cardinality(others) \in Nat
  BY <1>3, FS_EmptySet, FS_CardinalityType
<1>7. people[b] \in Nat /\ MaxParty \in Nat
  BY <1>1, StockAssumption
<1>8. QED
  BY <1>2, <1>3, <1>5, <1>6, <1>7 DEF Sold

-----------------------------------------------------------------------------
(* Steps                                                                   *)

(* A successful booking adds its party to each of its dates.               *)
LEMMA BookSells ==
    ASSUME StockTypeOK, NEW b \in Booking, NEW D \in SUBSET Day, NEW n \in Party,
           Book(b, D, n), NEW d \in Day
    PROVE  Sold(d)' = Sold(d) + (IF d \in D THEN n ELSE 0)
<1> DEFINE own == IF d \in D THEN {b} \X (1..n) ELSE {}
<1>1. n \in Nat /\ n \in 0..MaxParty /\ MaxParty \in Nat
  BY StockAssumption DEF Party
<1>2. IsFiniteSet(own) /\ Cardinality(own) = (IF d \in D THEN n ELSE 0)
  BY <1>1, PartySize, FS_EmptySet
<1>3. Places(d)' = Places(d) \cup own
  <2>1. /\ status[b] = "ABSENT"
        /\ status' = [status EXCEPT ![b] = "PENDING_PAYMENT"]
        /\ days' = [days EXCEPT ![b] = D]
        /\ people' = [people EXCEPT ![b] = n]
    BY DEF Book
  <2>2. ASSUME NEW p \in Places(d)
        PROVE  p \in Places(d)'
    BY <2>1 DEF Places, Holds, StockTypeOK
  <2>3. ASSUME NEW p \in own
        PROVE  p \in Places(d)'
    BY <1>1, <2>1 DEF Places, Holds, StockTypeOK, Party
  <2>4. ASSUME NEW p \in Places(d)'
        PROVE  p \in Places(d) \cup own
    <3>1. CASE p[1] = b
      BY <1>1, <2>1, <2>4, <3>1 DEF Places, Holds, StockTypeOK, Party
    <3>2. CASE p[1] # b
      BY <2>1, <2>4, <3>2 DEF Places, Holds, StockTypeOK
    <3>3. QED
      BY <3>1, <3>2
  <2>5. QED
    BY <2>2, <2>3, <2>4
<1>4. Places(d) \cap own = {}
  BY DEF Book, Places, Holds
<1>5. Cardinality(Places(d) \cup own) = Cardinality(Places(d)) + Cardinality(own) - Cardinality({})
  <2>1. Cardinality(Places(d) \cup own)
          = Cardinality(Places(d)) + Cardinality(own) - Cardinality(Places(d) \cap own)
    BY <1>2, PlacesFinite, FS_Union
  <2>2. QED
    BY <1>4, <2>1
<1>6. Cardinality({}) = 0 /\ Cardinality(Places(d)) \in Nat
  BY FS_EmptySet, PlacesFinite DEF Sold
<1>7. QED
  BY <1>1, <1>2, <1>3, <1>5, <1>6 DEF Sold

(* A booking that stops holding leaves the places of the others.           *)
LEMMA ReleaseReturns ==
    ASSUME StockTypeOK, NEW b \in Booking, Holds(b), NEW s \in {"CANCELLED", "EXPIRED"},
           status' = [status EXCEPT ![b] = s], UNCHANGED <<days, people>>, NEW d \in Day
    PROVE  /\ Sold(d)' \in Nat
           /\ Sold(d) = Sold(d)' + (IF d \in days[b] THEN people[b] ELSE 0)
<1> DEFINE others == {p \in Places(d) : p[1] # b}
<1>1. Places(d)' = others
  BY DEF Places, Holds, StockTypeOK
<1>2. QED
  BY <1>1, OwnPlaces DEF Sold

(* Hence the release skips no date, and takes no counter below zero.       *)
LEMMA GiveBackExact ==
    ASSUME StockIInv, NEW b \in Booking, Holds(b), NEW s \in {"CANCELLED", "EXPIRED"},
           status' = [status EXCEPT ![b] = s], GiveBack(b),
           UNCHANGED <<listed, days, people, edit, stale>>
    PROVE  StockIInv'
<1> USE DEF StockIInv
<1>1. ASSUME NEW d \in Day
      PROVE  /\ booked'[d] = Sold(d)'
             /\ booked'[d] \in Nat
             /\ booked[d] = booked'[d] + (IF d \in days[b] THEN people[b] ELSE 0)
             /\ available'[d] = available[d] + (IF d \in days[b] THEN people[b] ELSE 0)
  <2>1. /\ Sold(d)' \in Nat
        /\ Sold(d) = Sold(d)' + (IF d \in days[b] THEN people[b] ELSE 0)
    BY ReleaseReturns
  <2>2. booked[d] = Sold(d)
    BY DEF BookedIsSold
  <2>3. people[b] \in Nat
    BY StockAssumption DEF StockTypeOK
  <2>4. available[d] \in Nat
    BY DEF StockTypeOK
  <2>5. d \in days[b] => booked[d] >= people[b]
    BY <2>1, <2>2, <2>3
  <2>6. /\ available'[d] = IF d \in days[b] THEN available[d] + people[b] ELSE available[d]
        /\ booked'[d] = IF d \in days[b] THEN booked[d] - people[b] ELSE booked[d]
    BY <2>5 DEF GiveBack
  <2>7. QED
    BY <2>1, <2>2, <2>3, <2>4, <2>6
<1>2. people[b] \in Nat
  BY StockAssumption DEF StockTypeOK
<1>3. StockTypeOK'
  <2>1. available' \in [Day -> Nat] /\ booked' \in [Day -> Nat]
    BY <1>1, <1>2 DEF StockTypeOK, GiveBack
  <2>2. status' \in [Booking -> Status]
    BY DEF StockTypeOK, Status
  <2>3. QED
    BY <2>1, <2>2 DEF StockTypeOK, GiveBack
<1>4. UnlistedEmpty'
  BY <1>1, <1>2 DEF UnlistedEmpty, StockTypeOK
<1>5. EditChecked'
  BY DEF EditChecked
<1>6. BookedIsSold'
  BY <1>1 DEF BookedIsSold
<1>7. Balanced'
  <2>1. ASSUME NEW d \in Day \ stale
        PROVE  available'[d] + booked'[d] = total[d]
    <3>1. available[d] + booked[d] = total[d]
      BY DEF Balanced
    <3>2. available[d] \in Nat
      BY DEF StockTypeOK
    <3>3. QED
      BY <1>1, <1>2, <3>1, <3>2
  <2>2. QED
    BY <2>1 DEF Balanced, GiveBack
<1>8. QED
  BY <1>3, <1>4, <1>5, <1>6, <1>7

(* Steps that leave every booking and the count of booked units alone.     *)
LEMMA SoldUnchanged ==
    ASSUME UNCHANGED bookings
    PROVE  \A d : Sold(d)' = Sold(d)
BY DEF bookings, Sold, Places, Holds

LEMMA StockInit_IInv == StockInit => StockIInv
<1> SUFFICES ASSUME StockInit PROVE StockIInv
  OBVIOUS
<1> USE DEF StockInit
<1>1. StockTypeOK
  BY StockAssumption DEF StockTypeOK, Status, Edits, NoEdit, EditStep, Day
<1>2. UnlistedEmpty /\ EditChecked /\ Balanced
  BY DEF UnlistedEmpty, EditChecked, Balanced, NoEdit
<1>3. BookedIsSold
  <2>1. ASSUME NEW d \in Day
        PROVE  Sold(d) = 0
    BY FS_EmptySet DEF Sold, Places, Holds
  <2>2. QED
    BY <2>1 DEF BookedIsSold
<1>4. QED
  BY <1>1, <1>2, <1>3 DEF StockIInv

LEMMA Book_IInv ==
    ASSUME StockIInv, NEW b \in Booking, NEW D \in SUBSET Day, NEW n \in Party, Book(b, D, n)
    PROVE  StockIInv'
<1> USE DEF StockIInv
<1>1. n \in Nat /\ n \in 0..MaxParty
  BY StockAssumption DEF Party
<1>2. /\ available' = [d \in Day |-> IF d \in D THEN available[d] - n ELSE available[d]]
      /\ booked' = [d \in Day |-> IF d \in D THEN booked[d] + n ELSE booked[d]]
      /\ UNCHANGED <<listed, total, edit, stale>>
      /\ \A d \in D : d \in listed /\ available[d] >= n
  BY DEF Book, CanTake
<1>3. StockTypeOK'
  <2>1. available' \in [Day -> Nat] /\ booked' \in [Day -> Nat]
    BY <1>1, <1>2 DEF StockTypeOK
  <2>2. /\ status' \in [Booking -> Status]
        /\ days' \in [Booking -> SUBSET Day]
        /\ people' \in [Booking -> 0..MaxParty]
    BY <1>1 DEF StockTypeOK, Status, Book
  <2>3. QED
    BY <1>2, <2>1, <2>2 DEF StockTypeOK
<1>4. UnlistedEmpty' /\ EditChecked'
  BY <1>2 DEF UnlistedEmpty, EditChecked
<1>5. BookedIsSold'
  <2>1. ASSUME NEW d \in Day
        PROVE  booked'[d] = Sold(d)'
    <3>1. Sold(d)' = Sold(d) + (IF d \in D THEN n ELSE 0)
      BY BookSells
    <3>2. booked[d] = Sold(d) /\ booked[d] \in Nat
      BY DEF BookedIsSold, StockTypeOK
    <3>3. QED
      BY <1>1, <1>2, <3>1, <3>2
  <2>2. QED
    BY <2>1 DEF BookedIsSold
<1>6. Balanced'
  BY <1>1, <1>2 DEF Balanced, StockTypeOK
<1>7. QED
  BY <1>3, <1>4, <1>5, <1>6

LEMMA Confirm_IInv ==
    ASSUME StockIInv, NEW b \in Booking, Confirm(b)
    PROVE  StockIInv'
<1> USE DEF StockIInv, Confirm, counters
<1>1. StockTypeOK'
  BY DEF StockTypeOK, Status
<1>2. UnlistedEmpty' /\ EditChecked' /\ Balanced'
  BY DEF UnlistedEmpty, EditChecked, Balanced
<1>3. BookedIsSold'
  <2>1. \A c \in Booking : Holds(c)' <=> Holds(c)
    BY DEF Holds, StockTypeOK
  <2>2. \A d : Places(d)' = Places(d)
    BY <2>1 DEF Places
  <2>3. QED
    BY <2>2 DEF BookedIsSold, Sold
<1>4. QED
  BY <1>1, <1>2, <1>3

(* The whole of a provider request, step by step.                          *)
LEMMA SetRequest_IInv ==
    ASSUME StockIInv, NEW e \in Editor, NEW first \in Day, NEW last \in Day,
           NEW t \in Totals, SetRequest(e, first, last, t)
    PROVE  StockIInv'
<1> USE DEF StockIInv, SetRequest, counters
<1>1. StockTypeOK'
  BY DEF StockTypeOK, bookings, Edits, EditStep
<1>2. UnlistedEmpty' /\ EditChecked' /\ Balanced'
  BY DEF UnlistedEmpty, EditChecked, Balanced, StockTypeOK
<1>3. BookedIsSold'
  BY SoldUnchanged DEF BookedIsSold
<1>4. QED
  BY <1>1, <1>2, <1>3

LEMMA NextDateType ==
    ASSUME NEW r \in Edits
    PROVE  NextDate(r) \in Edits /\ NextDate(r).step # "update"
<1>1. CASE r.day < r.last
  <2>1. r.day + 1 \in Day
    BY <1>1, StockAssumption DEF Edits, Day
  <2>2. QED
    BY <1>1, <2>1 DEF NextDate, Edits, EditStep
<1>2. CASE ~(r.day < r.last)
  <2>1. 1 \in Day
    BY StockAssumption DEF Edits, Day
  <2>2. QED
    BY <1>2, <2>1 DEF NextDate, NoEdit, Edits, EditStep
<1>3. QED
  BY <1>1, <1>2

LEMMA SetRead_IInv ==
    ASSUME StockIInv, NEW e \in Editor, SetRead(e)
    PROVE  StockIInv'
<1> USE DEF StockIInv
<1> DEFINE r == edit[e]
<1>1. r \in Edits /\ r.day \in Day /\ booked[r.day] \in Nat
  BY DEF StockTypeOK, Edits
<1>2. /\ UNCHANGED <<listed, total, available, booked, bookings, stale>>
      /\ edit' = [edit EXCEPT ![e] = edit'[e]]
      /\ edit'[e] \in {[r EXCEPT !.step = "create"], NoEdit,
                        [r EXCEPT !.step = "update", !.seen = booked[r.day]]}
      /\ edit'[e].step = "update" => booked[r.day] <= r.total /\ edit'[e].seen = booked[r.day]
                                       /\ edit'[e].total = r.total
  BY <1>1, StockAssumption DEF SetRead, counters, StockTypeOK, NoEdit, Edits
<1>3. edit'[e] \in Edits
  <2>1. NoEdit \in Edits
    BY <1>1, StockAssumption DEF NoEdit, Edits, EditStep, Day
  <2>2. QED
    BY <1>1, <1>2, <2>1 DEF Edits, EditStep
<1>4. StockTypeOK'
  BY <1>2, <1>3 DEF StockTypeOK, bookings
<1>5. UnlistedEmpty' /\ Balanced'
  BY <1>2 DEF UnlistedEmpty, Balanced
<1>6. EditChecked'
  BY <1>2 DEF EditChecked, StockTypeOK
<1>7. BookedIsSold'
  BY <1>2, SoldUnchanged DEF BookedIsSold
<1>8. QED
  BY <1>4, <1>5, <1>6, <1>7

LEMMA EditFields ==
    ASSUME NEW r \in Edits
    PROVE  r.day \in Day /\ r.total \in Nat /\ r.seen \in Nat
<1>1. r.day \in Day /\ r.total \in Totals \cup {0} /\ r.seen \in Nat
  BY DEF Edits
<1>2. \A t \in Totals \cup {0} : t \in Nat
  BY StockAssumption
<1>3. QED
  BY <1>1, <1>2

LEMMA SetUpdate_IInv ==
    ASSUME StockIInv, NEW e \in Editor, SetUpdate(e)
    PROVE  StockIInv'
<1> USE DEF StockIInv
<1> DEFINE r == edit[e]
<1>0. r \in Edits /\ r.seen <= r.total
  BY DEF StockTypeOK, SetUpdate, EditChecked
<1>1. /\ r \in Edits /\ r.day \in Day
      /\ r.total \in Nat /\ r.seen \in Nat /\ r.seen <= r.total
  BY <1>0, EditFields
<1>2. /\ total' = [total EXCEPT ![r.day] = r.total]
      /\ available' = [available EXCEPT ![r.day] = r.total - r.seen]
      /\ stale' = IF r.seen = booked[r.day] THEN stale \ {r.day} ELSE stale \cup {r.day}
      /\ edit' = [edit EXCEPT ![e] = NextDate(r)]
      /\ UNCHANGED <<listed, booked, bookings>>
  BY DEF SetUpdate
<1>3. StockTypeOK'
  BY <1>1, <1>2, NextDateType DEF StockTypeOK, bookings
<1>4. UnlistedEmpty'
  BY <1>2 DEF UnlistedEmpty
<1>5. EditChecked'
  BY <1>1, <1>2, NextDateType DEF EditChecked, StockTypeOK
<1>6. BookedIsSold'
  BY <1>2, SoldUnchanged DEF BookedIsSold
<1>7. Balanced'
  BY <1>1, <1>2 DEF Balanced, StockTypeOK
<1>8. QED
  BY <1>3, <1>4, <1>5, <1>6, <1>7

LEMMA SetCreate_IInv ==
    ASSUME StockIInv, NEW e \in Editor, SetCreate(e)
    PROVE  StockIInv'
<1> USE DEF StockIInv
<1> DEFINE r == edit[e]
<1>0. r \in Edits
  BY DEF StockTypeOK
<1>1. r \in Edits /\ r.day \in Day /\ r.total \in Nat
  BY <1>0, EditFields
<1>2. UNCHANGED <<booked, bookings, stale>> /\ BookedIsSold'
  BY SoldUnchanged DEF SetCreate, BookedIsSold
<1>3. CASE r.day \notin listed
  <2>1. /\ listed' = listed \cup {r.day}
        /\ total' = [total EXCEPT ![r.day] = r.total]
        /\ available' = [available EXCEPT ![r.day] = r.total]
        /\ edit' = [edit EXCEPT ![e] = NextDate(r)]
    BY <1>3 DEF SetCreate
  <2>2. booked[r.day] = 0
    BY <1>1, <1>3 DEF UnlistedEmpty
  <2>3. StockTypeOK'
    BY <1>1, <1>2, <2>1, NextDateType DEF StockTypeOK, bookings
  <2>4. UnlistedEmpty' /\ EditChecked'
    BY <1>1, <1>2, <2>1, NextDateType DEF UnlistedEmpty, EditChecked, StockTypeOK
  <2>5. Balanced'
    BY <1>1, <1>2, <2>1, <2>2 DEF Balanced, StockTypeOK
  <2>6. QED
    BY <1>2, <2>3, <2>4, <2>5
<1>4. CASE r.day \in listed
  <2>1. /\ edit' = [edit EXCEPT ![e] = NoEdit]
        /\ UNCHANGED <<listed, total, available>>
    BY <1>4 DEF SetCreate
  <2>2. NoEdit \in Edits /\ NoEdit.step # "update"
    BY <1>1, StockAssumption DEF NoEdit, Edits, EditStep, Day
  <2>3. StockTypeOK'
    BY <1>2, <2>1, <2>2 DEF StockTypeOK, bookings
  <2>4. UnlistedEmpty' /\ EditChecked' /\ Balanced'
    BY <1>2, <2>1, <2>2 DEF UnlistedEmpty, EditChecked, Balanced, StockTypeOK
  <2>5. QED
    BY <1>2, <2>3, <2>4
<1>5. QED
  BY <1>3, <1>4

-----------------------------------------------------------------------------
(* Theorems                                                                *)

LEMMA StockStep_IInv == StockIInv /\ [StockNext]_stockVars => StockIInv'
<1> SUFFICES ASSUME StockIInv, [StockNext]_stockVars
             PROVE  StockIInv'
  OBVIOUS
<1>1. ASSUME NEW b \in Booking, NEW D \in SUBSET Day, NEW n \in Party, Book(b, D, n)
      PROVE  StockIInv'
  BY <1>1, Book_IInv
<1>2. ASSUME NEW b \in Booking, Confirm(b)
      PROVE  StockIInv'
  BY <1>2, Confirm_IInv
<1>3. ASSUME NEW b \in Booking, Cancel(b)
      PROVE  StockIInv'
  <2>1. /\ Holds(b)
        /\ status' = [status EXCEPT ![b] = "CANCELLED"]
        /\ GiveBack(b)
        /\ UNCHANGED <<listed, days, people, edit, stale>>
    BY <1>3 DEF Cancel, Holds
  <2>2. QED
    BY <2>1, GiveBackExact
<1>4. ASSUME NEW b \in Booking, Expire(b)
      PROVE  StockIInv'
  <2>1. /\ Holds(b)
        /\ status' = [status EXCEPT ![b] = "EXPIRED"]
        /\ GiveBack(b)
        /\ UNCHANGED <<listed, days, people, edit, stale>>
    BY <1>4 DEF Expire, Holds
  <2>2. QED
    BY <2>1, GiveBackExact
<1>5. ASSUME NEW e \in Editor, NEW first \in Day, NEW last \in Day, NEW t \in Totals,
             SetRequest(e, first, last, t)
      PROVE  StockIInv'
  BY <1>5, SetRequest_IInv
<1>6. ASSUME NEW e \in Editor, SetStep(e)
      PROVE  StockIInv'
  BY <1>6, SetRead_IInv, SetUpdate_IInv, SetCreate_IInv DEF SetStep
<1>7. CASE UNCHANGED stockVars
  <2>1. UNCHANGED <<listed, total, available, booked, bookings, status, days, people, edit, stale>>
    BY <1>7 DEF stockVars, counters, bookings
  <2>2. BookedIsSold'
    BY <2>1, SoldUnchanged DEF BookedIsSold, StockIInv
  <2>3. QED
    BY <2>1, <2>2 DEF StockIInv, StockTypeOK, UnlistedEmpty, EditChecked, Balanced
<1>8. QED
  BY <1>1, <1>2, <1>3, <1>4, <1>5, <1>6, <1>7 DEF StockNext

LEMMA StockInvariant == StockSpec => []StockIInv
<1>1. QED
  BY StockInit_IInv, StockStep_IInv, PTL DEF StockSpec

(* The counters stay natural numbers: available never goes negative, which *)
(* is what the WHERE clause of the booking's UPDATE is for.                *)
THEOREM StockTypeCorrect == StockSpec => []StockTypeOK
<1>1. StockIInv => StockTypeOK
  BY DEF StockIInv
<1>2. QED
  BY <1>1, StockInvariant, PTL

(* The booked counter of every date is what its live bookings hold, for    *)
(* every interleaving of bookings, releases and provider edits.            *)
THEOREM BookedCounterExact == StockSpec => []BookedIsSold
<1>1. StockIInv => BookedIsSold
  BY DEF StockIInv
<1>2. QED
  BY <1>1, StockInvariant, PTL

(* available + booked = total on every date whose last provider write used *)
(* a current count.                                                        *)
THEOREM CountersBalance == StockSpec => []Balanced
<1>1. StockIInv => Balanced
  BY DEF StockIInv
<1>2. QED
  BY <1>1, StockInvariant, PTL

(* No overselling but for a provider edit that raced with a booking.       *)
THEOREM NoOversellWithoutRace == StockSpec => []NoOversellUnlessStale
<1>1. ASSUME StockIInv
      PROVE  NoOversellUnlessStale
  <2>1. ASSUME NEW d \in Day \ stale
        PROVE  Sold(d) <= total[d]
    <3>1. /\ available[d] \in Nat /\ booked[d] \in Nat /\ total[d] \in Nat
          /\ booked[d] = Sold(d)
          /\ available[d] + booked[d] = total[d]
      BY <1>1 DEF StockIInv, StockTypeOK, BookedIsSold, Balanced
    <3>2. QED
      BY <3>1
  <2>2. QED
    BY <2>1 DEF NoOversellUnlessStale
<1>2. StockIInv => NoOversellUnlessStale
  BY <1>1
<1>3. QED
  BY <1>2, StockInvariant, PTL

-----------------------------------------------------------------------------
(* The protocol.  A domain adds its create request, a step that records a *)
(* request and no more.                                                    *)

(* The stays there are: consecutive nights of the horizon.  One date is a  *)
(* stay from it to the next.                                               *)
Stays ==
    {D \in SUBSET Day : \E checkIn, checkOut \in 1..(Horizon + 1) :
                            D = EnumerateNights(checkIn, checkOut)}

(* What a create request that passed its checks asks for can be booked.    *)
RequestsFit ==
    \A b \in Booking : request[b] # NoRequest =>
        request[b].days \in Stays /\ request[b].people \in Party

(* What is booked was asked for.                                           *)
StaysBooked ==
    /\ days = [b \in Booking |-> days[b]] /\ people = [b \in Booking |-> people[b]]
    /\ \A b \in Booking : Holds(b) => days[b] \in Stays /\ people[b] \in Party

SweepInv ==
    /\ status \in [Booking -> Status]
    /\ expiredIds \subseteq Booking
    /\ ExpiredIdsExpired

ServiceIInv == RequestsFit /\ SweepInv /\ StaysBooked

(* The create request of a domain: checks, then the stay is kept.          *)
Asks == \E b \in Booking, D \in Stays, n \in Party : AskFor(b, D, n)

LEMMA ServiceInitIInv ==
    ASSUME ServiceInit PROVE ServiceIInv
<1>1. RequestsFit
  BY DEF ServiceInit, RequestsFit
<1>2. SweepInv
  BY DEF ServiceInit, StockInit, SweepInv, Status, ExpiredIdsExpired
<1>3. StaysBooked
  BY DEF ServiceInit, StockInit, StaysBooked, Holds
<1>4. QED
  BY <1>1, <1>2, <1>3 DEF ServiceIInv

-----------------------------------------------------------------------------
(* Requests                                                                *)

(* Requests are only made by create requests and dropped by commits.       *)
LEMMA RequestsStep ==
    ASSUME RequestsFit, [Asks \/ ServiceStep]_serviceVars
    PROVE  RequestsFit'
<1>1. ASSUME NEW b \in Booking, NEW D \in Stays, NEW n \in Party, AskFor(b, D, n)
      PROVE  RequestsFit'
  BY <1>1 DEF AskFor, RequestsFit
<1>2. ASSUME NEW b \in Booking, Commit(b) PROVE RequestsFit'
  BY <1>2 DEF Commit, RequestsFit
<1>3. ASSUME request' = request PROVE RequestsFit'
  BY <1>3 DEF RequestsFit
<1>4. request' = request \/ Asks \/ \E b \in Booking : Commit(b)
  BY DEF ServiceStep, Moderate, Midnight, Scan, CutShort, AskCancel, CommitCancel, Pay, Age,
         ExpireNext, Edit, serviceVars, requestVars
<1>5. QED
  BY <1>1, <1>2, <1>3, <1>4 DEF Asks

(* Every step is a step of the stock, or leaves the stock alone.           *)
LEMMA ServiceRefinesStock ==
    ASSUME RequestsFit, [Asks \/ ServiceStep]_serviceVars
    PROVE  [StockNext]_stockVars
<1>1. ASSUME NEW b \in Booking, Commit(b) PROVE [StockNext]_stockVars
  BY <1>1 DEF Commit, RequestsFit, Stays, StockNext
<1>2. ASSUME NEW b \in Booking, CommitCancel(b) PROVE [StockNext]_stockVars
  BY <1>2 DEF CommitCancel, StockNext
<1>3. ASSUME NEW b \in Booking, Pay(b) PROVE [StockNext]_stockVars
  BY <1>3 DEF Pay, StockNext
<1>4. ASSUME NEW b \in Booking, ExpireNext(b) PROVE [StockNext]_stockVars
  BY <1>4 DEF ExpireNext, StockNext
<1>5. ASSUME NEW e \in Editor, Edit(e) PROVE [StockNext]_stockVars
  BY <1>5 DEF Edit, StockNext
<1>6. \/ UNCHANGED stockVars
      \/ \E b \in Booking : Commit(b) \/ CommitCancel(b) \/ Pay(b) \/ ExpireNext(b)
      \/ \E e \in Editor : Edit(e)
  BY DEF Asks, AskFor, ServiceStep, Moderate, Midnight, Scan, CutShort, AskCancel, Age, serviceVars
<1>7. QED
  BY <1>1, <1>2, <1>3, <1>4, <1>5, <1>6

-----------------------------------------------------------------------------
(* The expiration job                                                      *)

(* What a step of the stock may do to the status of a booking.             *)
StatusMoves ==
    \A b \in Booking : status'[b] = status[b] \/
        <<status[b], status'[b]>> \in {<<"ABSENT", "PENDING_PAYMENT">>, <<"PENDING_PAYMENT",
        "CONFIRMED">>,
                                       <<"PENDING_PAYMENT", "EXPIRED">>, <<"CONFIRMED",
                                       "CANCELLED">>}

LEMMA StockStatusMoves ==
    ASSUME status \in [Booking -> Status], [StockNext]_stockVars
    PROVE  StatusMoves /\ status' \in [Booking -> Status]
<1> USE DEF StatusMoves, Status
<1>1. ASSUME NEW b \in Booking, NEW D \in SUBSET Day, NEW n \in Party, Book(b, D, n)
      PROVE  StatusMoves /\ status' \in [Booking -> Status]
  BY <1>1 DEF Book
<1>2. ASSUME NEW b \in Booking, Confirm(b) \/ Cancel(b) \/ Expire(b)
      PROVE  StatusMoves /\ status' \in [Booking -> Status]
  BY <1>2 DEF Confirm, Cancel, Expire
<1>3. \/ status' = status
      \/ \E b \in Booking : \/ \E D \in SUBSET Day, n \in Party : Book(b, D, n)
                            \/ Confirm(b) \/ Cancel(b) \/ Expire(b)
  BY DEF StockNext, SetRequest, SetStep, SetRead, SetUpdate, SetCreate, stockVars, bookings
<1>4. QED
  BY <1>1, <1>2, <1>3

LEMMA SweepStep ==
    ASSUME SweepInv, RequestsFit, [Asks \/ ServiceStep]_serviceVars
    PROVE  SweepInv' /\ StatusMoves
<1>1. StatusMoves /\ status' \in [Booking -> Status]
  BY ServiceRefinesStock, StockStatusMoves DEF SweepInv
<1>2. \A b \in expiredIds' : b \in expiredIds \/ (b \in Booking /\ Expire(b))
  BY DEF Asks, AskFor, ServiceStep, Moderate, Midnight, Scan, CutShort, Commit, AskCancel,
     CommitCancel,
         Pay, Age, ExpireNext, Edit, serviceVars, requestVars, sweepVars
<1>3. ASSUME NEW b \in expiredIds' PROVE b \in Booking /\ status'[b] = "EXPIRED"
  <2>1. CASE b \in expiredIds
    BY <1>1, <2>1 DEF SweepInv, ExpiredIdsExpired, StatusMoves
  <2>2. CASE b \in Booking /\ Expire(b)
    BY <2>2 DEF Expire, SweepInv
  <2>3. QED
    BY <1>2, <2>1, <2>2
<1>4. QED
  BY <1>1, <1>3 DEF SweepInv, ExpiredIdsExpired

(* Only the transaction of a request that passed its checks books a stay.  *)
LEMMA BookedStep ==
    ASSUME StaysBooked, RequestsFit, SweepInv, [Asks \/ ServiceStep]_serviceVars
    PROVE  StaysBooked'
<1> USE DEF StaysBooked, Holds
<1>1. ASSUME NEW b \in Booking, Commit(b), ~UNCHANGED stockVars PROVE StaysBooked'
  BY <1>1 DEF Commit, Book, RequestsFit, SweepInv
<1>2. ASSUME UNCHANGED stockVars PROVE StaysBooked'
  BY <1>2 DEF stockVars, bookings
<1>3. ASSUME NEW b \in Booking, Confirm(b) \/ Cancel(b) \/ Expire(b) PROVE StaysBooked'
  BY <1>3 DEF Confirm, Cancel, Expire, SweepInv
<1>4. ASSUME NEW e \in Editor, Edit(e) PROVE StaysBooked'
  BY <1>4 DEF Edit, SetRequest, SetStep, SetRead, SetUpdate, SetCreate, bookings
<1>5. \/ UNCHANGED stockVars
      \/ \E b \in Booking : Commit(b) \/ Confirm(b) \/ Cancel(b) \/ Expire(b)
      \/ \E e \in Editor : Edit(e)
  BY DEF Asks, AskFor, ServiceStep, Moderate, Midnight, Scan, CutShort, AskCancel, Age,
         CommitCancel, Pay, ExpireNext, serviceVars
<1> QED
  BY <1>1, <1>2, <1>3, <1>4, <1>5

-----------------------------------------------------------------------------
(* The domains: whichever of them a listing belongs to, its requests are   *)
(* those of BookingService.                                                *)

LEMMA SingleNight == \A d \in Day : {d} \in Stays
<1> SUFFICES ASSUME NEW d \in Day PROVE {d} \in Stays
  OBVIOUS
<1>1. d \in 1..(Horizon + 1) /\ d + 1 \in 1..(Horizon + 1) /\ {d} = EnumerateNights(d, d + 1)
  BY StockAssumption DEF Day, EnumerateNights
<1> QED
  BY <1>1 DEF Stays

(* A valid stay is a request for dates of the horizon, one unit a night.   *)
LEMMA HotelAsks ==
    ASSUME HotelNext PROVE Asks \/ ServiceStep
<1>1. ASSUME NEW b \in Booking, NEW checkIn \in Day, NEW checkOut \in 1..(Horizon + 1),
             CreateBooking(b, checkIn, checkOut)
      PROVE  Asks
  <2>1. EnumerateNights(checkIn, checkOut) \in Stays
    BY StockAssumption DEF EnumerateNights, Stays, Day
  <2>2. 1 \in Party
    BY StayAssumption DEF Party
  <2>3. QED
    BY <1>1, <2>1, <2>2 DEF CreateBooking, Asks
<1>2. QED
  BY <1>1 DEF HotelNext

(* A departure is a request for one date.                                  *)
LEMMA TourAsks ==
    ASSUME TourNext PROVE Asks \/ ServiceStep
<1>1. ASSUME NEW b \in Booking, NEW d \in Day, NEW n \in Party, AskForTour(b, d, n)
      PROVE  Asks
  <2>1. {d} \in Stays
    BY SingleNight
  <2>2. QED
    BY <1>1, <2>1 DEF AskForTour, Asks
<1>2. QED
  BY <1>1 DEF TourNext, ServiceStep, Edit, ScanTourBookings, CreateTourBooking, AskCancelTour,
              CancelTourBooking, ExpireTourBooking, AskSetTourSchedule, SetTourSchedule

LEMMA ExperienceAsks ==
    ASSUME ExperienceNext PROVE Asks \/ ServiceStep
<1>1. ASSUME NEW b \in Booking, NEW d \in Day, NEW n \in Party, AskForExperience(b, d, n)
      PROVE  Asks
  <2>1. {d} \in Stays
    BY SingleNight
  <2>2. QED
    BY <1>1, <2>1 DEF AskForExperience, Asks
<1>2. QED
  BY <1>1 DEF ExperienceNext, ServiceStep, Edit, ScanExperienceBookings,
              CreateExperienceBooking, AskCancelExperience, CancelExperienceBooking,
              ExpireExperienceBooking, AskSetExperienceSchedule, SetExperienceSchedule

LEMMA TransportAsks ==
    ASSUME TransportNext PROVE Asks \/ ServiceStep
<1>1. ASSUME NEW b \in Booking, NEW d \in Day, NEW n \in Party, AskForTransport(b, d, n)
      PROVE  Asks
  <2>1. {d} \in Stays
    BY SingleNight
  <2>2. QED
    BY <1>1, <2>1 DEF AskForTransport, Asks
<1>2. QED
  BY <1>1 DEF TransportNext, ServiceStep, Edit, ScanTransportBookings, CreateTransportBooking,
              AskCancelTransport, CancelTransportBooking, ExpireTransportBooking,
              AskSetTransportSchedule, SetTransportSchedule

LEMMA DatedStep ==
    ASSUME ServiceIInv, [DatedNext]_datedVars
    PROVE  ServiceIInv' /\ StatusMoves /\ [StockNext]_stockVars
<1>1. [Asks \/ ServiceStep]_serviceVars
  BY HotelAsks, TourAsks, ExperienceAsks, TransportAsks DEF DatedNext, datedVars
<1>2. QED
  BY <1>1, RequestsStep, ServiceRefinesStock, SweepStep, BookedStep DEF ServiceIInv

LEMMA DatedInvariant == DatedSpec => []ServiceIInv
<1>1. DatedInit => ServiceIInv
  BY ServiceInitIInv DEF DatedInit
<1>2. QED
  BY <1>1, DatedStep, PTL DEF DatedSpec

(* Bookings of every domain, with the stale reads of their requests, use   *)
(* the stock of a listing only as DatedStock allows.                       *)
THEOREM DatedImplementsStock == DatedSpec => StockSpec
<1>1. DatedInit => StockInit
  BY DEF DatedInit, ServiceInit
<1>2. ServiceIInv /\ [DatedNext]_datedVars => [StockNext]_stockVars
  BY DatedStep
<1>3. QED
  BY <1>1, <1>2, DatedInvariant, PTL DEF DatedSpec, StockSpec

(* No date is oversold unless a provider edit raced a booking.             *)
THEOREM DatedNoOversell == DatedSpec => []NoOversellUnlessStale
  BY DatedImplementsStock, NoOversellWithoutRace, PTL

(* A run of the expiration job hands on the ids of expired bookings only.  *)
THEOREM DatedExpiredIds == DatedSpec => []ExpiredIdsExpired
<1>1. ServiceIInv => ExpiredIdsExpired
  BY DEF ServiceIInv, SweepInv
<1>2. QED
  BY <1>1, DatedInvariant, PTL

(* No run of the expiration job takes back a booking that was paid.        *)
THEOREM DatedConfirmedStays == DatedSpec => ConfirmedOutlivesSweep
<1> DEFINE A == \A b \in Booking : status[b] = "CONFIRMED" => status'[b] \in {"CONFIRMED", "CANCELLED"}
<1>1. ServiceIInv /\ [DatedNext]_datedVars => A
  BY DatedStep DEF StatusMoves
<1>2. serviceVars' = serviceVars => UNCHANGED status
  BY DEF serviceVars, stockVars, bookings
<1>3. ServiceIInv /\ [DatedNext]_datedVars => [A]_serviceVars
  BY <1>1
<1>4. QED
  BY <1>3, DatedInvariant, PTL DEF DatedSpec, ConfirmedOutlivesSweep

(* BookingRepository.createBooking and its siblings take a stay date by    *)
(* date: what a live booking holds is a whole stay nevertheless, and each  *)
(* of its dates has a row that counts it.                                  *)
THEOREM DatedStaysWhole == DatedSpec => []StaysWhole
<1>1. ASSUME ServiceIInv, StockIInv PROVE StaysWhole
  <2> SUFFICES ASSUME NEW b \in Booking, Holds(b), NEW d \in days[b]
               PROVE  d \in listed /\ booked[d] >= 1
    BY <1>1 DEF StaysWhole, ServiceIInv, StaysBooked, Stays
  <2>1. d \in Day /\ people[b] \in Party
    BY <1>1 DEF ServiceIInv, StaysBooked, Stays
  <2>2. <<b, 1>> \in Places(d)
    BY <2>1, StockAssumption DEF Places, Party
  <2>3. IsFiniteSet(Places(d)) /\ Sold(d) # 0
    BY <2>1, <2>2, PlacesFinite, FS_EmptySet DEF Sold
  <2> QED
    BY <1>1, <2>1, <2>3 DEF StockIInv, StockTypeOK, BookedIsSold, UnlistedEmpty
<1>2. QED
  BY <1>1, DatedInvariant, DatedImplementsStock, StockInvariant, PTL
=============================================================================
