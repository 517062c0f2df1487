------------------------ MODULE FlightBookingProofs ------------------------
(***************************************************************************)
(* Proofs about FlightBooking and SeatNumbers, for every number of dates,  *)
(* bookings and requests and every capacity of the aircraft.               *)
(***************************************************************************)
EXTENDS FlightBooking, FiniteSetTheorems, TLAPS

-----------------------------------------------------------------------------
(* The seats of a cabin                                                    *)

(* Letter by letter and row by row, no seat number comes twice.            *)
LEMMA RowsInjective ==
    ASSUME NEW letters \in {4, 6}, NEW startRow \in Nat, NEW i \in Nat, NEW j \in Nat,
           <<startRow + i \div letters, i % letters>> = <<startRow + j \div letters, j % letters>>
    PROVE  i = j
<1>1. i \div letters = j \div letters /\ i % letters = j % letters
  <2>1. i \div letters \in Int /\ j \div letters \in Int
    BY SMT
  <2>2. QED
    BY <2>1
<1>2. CASE letters = 4
  BY <1>1, <1>2, SMT
<1>3. CASE letters = 6
  BY <1>1, <1>3, SMT
<1>4. QED
  BY <1>2, <1>3

(* generateRows returns as many seats as the capacity asks for.            *)
LEMMA RowsComplete ==
    ASSUME NEW capacity \in Nat, NEW letters \in {4, 6}, NEW startRow \in Nat
    PROVE  /\ IsFiniteSet(GenerateRows(capacity, letters, startRow))
           /\ Cardinality(GenerateRows(capacity, letters, startRow)) = capacity
<1> DEFINE S == 0..(capacity - 1)
           T == GenerateRows(capacity, letters, startRow)
           f == [i \in S |-> <<startRow + i \div letters, i % letters>>]
<1>1. f \in Bijection(S, T)
  <2>1. f \in [S -> T]
    BY DEF GenerateRows
  <2>2. \A i, j \in S : f[i] = f[j] => i = j
    <3>1. S \subseteq Nat
      OBVIOUS
    <3>2. QED
      BY <3>1, RowsInjective
  <2>3. \A t \in T : \E i \in S : f[i] = t
    BY DEF GenerateRows
  <2>4. QED
    BY <2>1, <2>2, <2>3 DEF Bijection, Injection, Surjection, IsInjective
<1>2. IsFiniteSet(S) /\ Cardinality(S) = capacity
  BY FS_Interval
<1>3. QED
  BY <1>1, <1>2, FS_Bijection DEF ExistsBijection

(* Business rows come before economy rows: a number tells the class.       *)
LEMMA CabinsApart ==
    ASSUME NEW c \in [business : Nat, economy : Nat],
           NEW s \in GenerateSeatNumbers(c), NEW t \in GenerateSeatNumbers(c), s[1] = t[1]
    PROVE  s = t
<1> DEFINE n == NextRow(c.business, BUSINESS_LETTERS, 1)
<1>1. \A q \in BusinessSeats(c) : q[1] < n + 1
  <2> TAKE q \in BusinessSeats(c)
  <2>1. PICK i \in 0..(c.business - 1) : q = <<1 + i \div 4, i % 4>>
    BY DEF BusinessSeats, GenerateRows, BUSINESS_LETTERS
  <2>2. i \div 4 <= (c.business + 3) \div 4
    BY SMT
  <2>3. q[1] = 1 + i \div 4
    BY <2>1
  <2>4. n = 1 + (c.business + 3) \div 4
    BY SMT DEF NextRow, BUSINESS_LETTERS
  <2>5. QED
    BY <2>2, <2>3, <2>4, SMT
<1>2. \A q \in EconomySeats(c) : q[1] >= n + 1
  <2> TAKE q \in EconomySeats(c)
  <2>1. PICK i \in 0..(c.economy - 1) : q = <<(n + 1) + i \div 6, i % 6>>
    BY DEF EconomySeats, GenerateRows, ECONOMY_LETTERS
  <2>2. i \div 6 >= 0 /\ i \div 6 \in Int
    BY SMT
  <2>3. n \in Int
    BY SMT DEF NextRow, BUSINESS_LETTERS
  <2>4. q[1] = (n + 1) + i \div 6
    BY <2>1
  <2>5. QED
    BY <2>2, <2>3, <2>4, SMT
<1>3. n \in Int
  BY SMT DEF NextRow, BUSINESS_LETTERS
<1>4. \A q \in BusinessSeats(c) \cup EconomySeats(c) : q[1] \in Int
  <2>1. \A q \in BusinessSeats(c) : q[1] \in Int
    BY SMT DEF BusinessSeats, GenerateRows, BUSINESS_LETTERS
  <2>2. \A q \in EconomySeats(c) : q[1] \in Int
    BY <1>3, SMT DEF EconomySeats, GenerateRows, ECONOMY_LETTERS
  <2>3. QED
    BY <2>1, <2>2
<1>5. BusinessSeats(c) \cap EconomySeats(c) = {}
  BY <1>1, <1>2, <1>3, <1>4
<1>6. QED
  BY <1>5 DEF GenerateSeatNumbers

(* An aircraft gets exactly as many seats as its two capacities say.       *)
THEOREM SeatsMatchCapacity ==
    ASSUME NEW c \in [business : Nat, economy : Nat]
    PROVE  /\ Cardinality(BusinessSeats(c)) = c.business
           /\ Cardinality(EconomySeats(c)) = c.economy
<1>1. Cardinality(BusinessSeats(c)) = c.business
  BY RowsComplete DEF BusinessSeats, BUSINESS_LETTERS
<1>2. NextRow(c.business, BUSINESS_LETTERS, 1) + 1 \in Nat
  BY SMT DEF NextRow, BUSINESS_LETTERS
<1>3. Cardinality(EconomySeats(c)) = c.economy
  BY <1>2, RowsComplete DEF EconomySeats, ECONOMY_LETTERS
<1>4. QED
  BY <1>1, <1>3

-----------------------------------------------------------------------------
(* The inductive invariant                                                 *)

(* A request updates a schedule that exists, and one that has just created *)
(* a schedule is the only one that gives it its seats.                     *)
EditsInOrder ==
    /\ \A e \in Editor : edit[e].step = "update" => edit[e].date \in schedule
    /\ \A e \in Editor : edit[e].step = "seats" =>
          /\ edit[e].date \in schedule
          /\ edit[e].cabin = built[edit[e].date]
          /\ SeatsOf(edit[e].date) = {}
    /\ \A e, f \in Editor :
          edit[e].step = "seats" /\ edit[f].step = "seats" /\ edit[e].date = edit[f].date => e = f

(* A request is for a booking that is not in the table yet.                *)
RequestsFresh == \A b \in Booking : request[b] # {} => status[b] = "ABSENT"

IInv ==
    /\ TypeOK
    /\ EditsInOrder
    /\ CabinWholeOrEmpty
    /\ RequestsFresh
    /\ SeatsExclusive
    /\ TakenIsHeld

LEMMA InitIInv == Init => IInv
<1> SUFFICES ASSUME Init PROVE IInv
  OBVIOUS
<1>1. TypeOK
  BY FlightAssumption DEF Init, TypeOK, Edits, NoEdit, Date
<1>2. EditsInOrder
  BY DEF Init, EditsInOrder, NoEdit
<1>3. CabinWholeOrEmpty
  BY DEF Init, CabinWholeOrEmpty, SeatsOf
<1>4. RequestsFresh /\ SeatsExclusive /\ TakenIsHeld
  BY DEF Init, RequestsFresh, SeatsExclusive, TakenIsHeld, Holds
<1>5. QED
  BY <1>1, <1>2, <1>3, <1>4 DEF IInv

-----------------------------------------------------------------------------
(* The airline's steps leave the bookings alone                            *)

BookingSide == <<taken, status, passengers, request>>

LEMMA BookingSideKept ==
    ASSUME IInv, UNCHANGED BookingSide
    PROVE  RequestsFresh' /\ SeatsExclusive' /\ TakenIsHeld'
  BY DEF IInv, BookingSide, RequestsFresh, SeatsExclusive, TakenIsHeld, Holds

AirlineSide == <<airline, seats>>

LEMMA AirlineSideKept ==
    ASSUME IInv, UNCHANGED AirlineSide
    PROVE  EditsInOrder' /\ CabinWholeOrEmpty'
  BY DEF IInv, AirlineSide, airline, EditsInOrder, CabinWholeOrEmpty, SeatsOf

(* The next date of a range is a date.                                     *)
LEMMA NextDateType ==
    ASSUME NEW r \in Edits
    PROVE  NextDate(r) \in Edits /\ NextDate(r).step \in {"idle", "read"}
<1>1. CASE r.date < r.last
  <2>1. r.date + 1 \in Date
    BY <1>1, FlightAssumption DEF Edits, Date
  <2>2. NextDate(r) = [r EXCEPT !.step = "read", !.date = r.date + 1]
    BY <1>1 DEF NextDate
  <2>3. QED
    BY <2>1, <2>2 DEF Edits
<1>2. CASE ~(r.date < r.last)
  BY <1>2, FlightAssumption DEF NextDate, Edits, NoEdit, Date
<1>3. QED
  BY <1>1, <1>2

LEMMA SetRequestStep ==
    ASSUME IInv, NEW e \in Editor, NEW first \in Date, NEW last \in Date, NEW w \in BOOLEAN,
           SetRequest(e, first, last, w)
    PROVE  IInv'
<1> DEFINE r == [step |-> "read", date |-> first, last |-> last,
                 cabin |-> GenerateSeatNumbers(aircraft), business |-> w]
<1>1. r \in Edits
  BY DEF IInv, TypeOK, Edits, Cabins
<1>2. edit' = [edit EXCEPT ![e] = r]
  BY DEF SetRequest
<1>3. TypeOK'
  BY <1>1, <1>2 DEF IInv, TypeOK, SetRequest, flows
<1>4. EditsInOrder'
  BY <1>2 DEF IInv, TypeOK, EditsInOrder, SetRequest, SeatsOf
<1>5. CabinWholeOrEmpty'
  BY DEF IInv, CabinWholeOrEmpty, SetRequest, SeatsOf
<1>6. UNCHANGED BookingSide
  BY DEF SetRequest, BookingSide, flows
<1>7. QED
  BY <1>3, <1>4, <1>5, <1>6, BookingSideKept DEF IInv

LEMMA SetReadStep ==
    ASSUME IInv, NEW e \in Editor, SetRead(e)
    PROVE  IInv'
<1>1. TypeOK'
  BY DEF IInv, TypeOK, SetRead, flows, Edits
<1>2. EditsInOrder'
  BY DEF IInv, TypeOK, EditsInOrder, SetRead, SeatsOf, Edits
<1>3. CabinWholeOrEmpty'
  BY DEF IInv, CabinWholeOrEmpty, SetRead, SeatsOf
<1>4. UNCHANGED BookingSide
  BY DEF SetRead, BookingSide, flows
<1>5. QED
  BY <1>1, <1>2, <1>3, <1>4, BookingSideKept DEF IInv

LEMMA SetUpdateStep ==
    ASSUME IInv, NEW e \in Editor, SetUpdate(e)
    PROVE  IInv'
<1>1. edit[e] \in Edits /\ edit[e].date \in schedule
  BY DEF IInv, TypeOK, EditsInOrder, SetUpdate
<1>2. NextDate(edit[e]) \in Edits /\ NextDate(edit[e]).step \in {"idle", "read"}
  BY <1>1, NextDateType
<1>3. edit' = [edit EXCEPT ![e] = NextDate(edit[e])]
  BY DEF SetUpdate
<1>4. TypeOK'
  BY <1>1, <1>2, <1>3 DEF IInv, TypeOK, SetUpdate, flows, Fares
<1>5. EditsInOrder'
  BY <1>2, <1>3 DEF IInv, TypeOK, EditsInOrder, SetUpdate, SeatsOf
<1>6. CabinWholeOrEmpty'
  BY DEF IInv, CabinWholeOrEmpty, SetUpdate, SeatsOf
<1>7. UNCHANGED BookingSide
  BY DEF SetUpdate, BookingSide, flows
<1>8. QED
  BY <1>4, <1>5, <1>6, <1>7, BookingSideKept DEF IInv

LEMMA SetCreateStep ==
    ASSUME IInv, NEW e \in Editor, SetCreate(e)
    PROVE  IInv'
<1> DEFINE d == edit[e].date
           NewSeatsOf(x) == {s \in seats' : DateOf(s) = x}
<1>1. d \in Date /\ edit[e] \in Edits /\ edit[e].step = "create" /\ edit[e].cabin \in Cabins \cup {{}}
  BY DEF IInv, TypeOK, Edits, SetCreate
<1>2. UNCHANGED BookingSide
  BY DEF SetCreate, BookingSide, flows
<1>3. CASE d \notin schedule
  <2>1. /\ schedule' = schedule \cup {d}
        /\ built' = [built EXCEPT ![d] = edit[e].cabin]
        /\ edit' = [edit EXCEPT ![e].step = "seats"]
        /\ seats' = seats
        /\ Fares(e)
    BY <1>3 DEF SetCreate
  <2>2. SeatsOf(d) = {}
    BY <1>1, <1>3 DEF IInv, CabinWholeOrEmpty
  <2>3. TypeOK'
    BY <1>1, <2>1 DEF IInv, TypeOK, SetCreate, flows, Fares, Edits
  <2>4. EditsInOrder'
    <3>1. \A f \in Editor \ {e} : edit'[f] = edit[f]
      BY <2>1 DEF IInv, TypeOK
    <3>2. edit'[e].step = "seats" /\ edit'[e].date = d /\ edit'[e].cabin = edit[e].cabin
      BY <1>1, <2>1 DEF IInv, TypeOK, Edits
    <3>3. \A f \in Editor \ {e} : edit[f].step = "seats" => edit[f].date # d
      BY <1>3 DEF IInv, EditsInOrder
    <3>4. built'[d] = edit[e].cabin /\ \A x \in Date : x # d => built'[x] = built[x]
      BY <1>1, <2>1 DEF IInv, TypeOK
    <3>5. \A f \in Editor : edit[f].date \in Date
      BY DEF IInv, TypeOK, Edits
    <3>6. \A x \in Date : NewSeatsOf(x) = SeatsOf(x)
      BY <2>1 DEF SeatsOf
    <3>7. \A f \in Editor : edit'[f].step = "update" => edit'[f].date \in schedule'
      BY <2>1, <3>1, <3>2 DEF IInv, EditsInOrder
    <3>8. \A f \in Editor : edit'[f].step = "seats" =>
             /\ edit'[f].date \in schedule'
             /\ edit'[f].cabin = built'[edit'[f].date]
             /\ NewSeatsOf(edit'[f].date) = {}
      <4> TAKE f \in Editor
      <4>1. CASE f = e
        BY <1>1, <2>1, <2>2, <3>2, <3>4, <3>6, <4>1
      <4>2. CASE f # e
        BY <2>1, <3>1, <3>3, <3>4, <3>5, <3>6, <4>2 DEF IInv, EditsInOrder
      <4>3. QED
        BY <4>1, <4>2
    <3>9. \A f, g \in Editor :
             edit'[f].step = "seats" /\ edit'[g].step = "seats" /\ edit'[f].date = edit'[g].date => f = g
      BY <3>1, <3>2, <3>3 DEF IInv, EditsInOrder
    <3>10. QED
      BY <3>7, <3>8, <3>9 DEF EditsInOrder, SeatsOf
  <2>5. CabinWholeOrEmpty'
    BY <1>1, <2>1, <2>2 DEF IInv, TypeOK, CabinWholeOrEmpty, SeatsOf
  <2>6. QED
    BY <1>2, <2>3, <2>4, <2>5, BookingSideKept DEF IInv
<1>4. CASE d \in schedule
  <2>1. /\ edit' = [edit EXCEPT ![e] = NoEdit]
        /\ UNCHANGED <<schedule, built, business, seats>>
    BY <1>4 DEF SetCreate
  <2>2. NoEdit \in Edits /\ NoEdit.step = "idle"
    BY FlightAssumption DEF NoEdit, Edits, Date
  <2>3. TypeOK'
    BY <2>1, <2>2 DEF IInv, TypeOK, SetCreate, flows
  <2>4. EditsInOrder'
    BY <2>1, <2>2 DEF IInv, TypeOK, EditsInOrder, SeatsOf
  <2>5. CabinWholeOrEmpty'
    BY <2>1 DEF IInv, CabinWholeOrEmpty, SeatsOf
  <2>6. QED
    BY <1>2, <2>3, <2>4, <2>5, BookingSideKept DEF IInv
<1>5. QED
  BY <1>3, <1>4

LEMMA CreateSeatsStep ==
    ASSUME IInv, NEW e \in Editor, CreateSeats(e)
    PROVE  IInv'
<1> DEFINE d == edit[e].date
           new == {d} \X edit[e].cabin
           NewSeatsOf(x) == {s \in seats' : DateOf(s) = x}
<1>1. /\ d \in Date /\ edit[e] \in Edits /\ edit[e].cabin \in Cabins \cup {{}}
      /\ d \in schedule /\ edit[e].cabin = built[d] /\ SeatsOf(d) = {}
  BY DEF IInv, TypeOK, Edits, CreateSeats, EditsInOrder
<1>2. NextDate(edit[e]) \in Edits /\ NextDate(edit[e]).step \in {"idle", "read"}
  BY <1>1, NextDateType
<1>3. /\ edit' = [edit EXCEPT ![e] = NextDate(edit[e])]
      /\ seats' = seats \cup new
      /\ UNCHANGED <<schedule, built>>
  BY DEF CreateSeats
<1>4. new \subseteq Seat
  BY <1>1 DEF Seat
<1>5. TypeOK'
  BY <1>2, <1>3, <1>4 DEF IInv, TypeOK, CreateSeats, flows
<1>6. NewSeatsOf(d) = {d} \X built[d] /\ \A x \in Date \ {d} : NewSeatsOf(x) = SeatsOf(x)
  <2>1. \A s \in new : DateOf(s) = d
    BY DEF DateOf
  <2>2. NewSeatsOf(d) = new
    BY <1>1, <1>3, <2>1 DEF SeatsOf
  <2>3. \A x \in Date \ {d} : NewSeatsOf(x) = SeatsOf(x)
    BY <1>3, <2>1 DEF SeatsOf
  <2>4. QED
    BY <1>1, <2>2, <2>3
<1>7. EditsInOrder'
  <2>1. \A f \in Editor \ {e} : edit'[f] = edit[f]
    BY <1>3 DEF IInv, TypeOK
  <2>2. edit'[e].step \in {"idle", "read"}
    BY <1>2, <1>3 DEF IInv, TypeOK
  <2>3. \A f \in Editor \ {e} : edit[f].step = "seats" => edit[f].date # d
    BY DEF IInv, EditsInOrder, CreateSeats
  <2>4. \A f \in Editor : edit[f].date \in Date
    BY DEF IInv, TypeOK, Edits
  <2>5. \A f \in Editor : edit'[f].step = "seats" =>
           f # e /\ edit'[f] = edit[f] /\ NewSeatsOf(edit[f].date) = SeatsOf(edit[f].date)
    BY <1>6, <2>1, <2>2, <2>3, <2>4
  <2>6. \A f \in Editor : edit'[f].step = "update" => edit'[f] = edit[f]
    BY <2>1, <2>2
  <2>7. \A f \in Editor : edit'[f].step = "seats" =>
           /\ edit'[f].date \in schedule'
           /\ edit'[f].cabin = built'[edit'[f].date]
           /\ NewSeatsOf(edit'[f].date) = {}
    BY <1>3, <2>5 DEF IInv, EditsInOrder
  <2>8. QED
    BY <1>3, <2>5, <2>6, <2>7 DEF IInv, EditsInOrder, SeatsOf
<1>8. CabinWholeOrEmpty'
  <2>1. \A x \in Date : NewSeatsOf(x) # {} => x \in schedule' /\ NewSeatsOf(x) = {x} \X built'[x]
    BY <1>1, <1>3, <1>6 DEF IInv, CabinWholeOrEmpty
  <2>2. QED
    BY <2>1 DEF CabinWholeOrEmpty, SeatsOf
<1>9. UNCHANGED BookingSide
  BY DEF CreateSeats, BookingSide, flows
<1>10. QED
  BY <1>5, <1>7, <1>8, <1>9, BookingSideKept DEF IInv

LEMMA SetFailsStep ==
    ASSUME IInv, NEW e \in Editor, SetFails(e)
    PROVE  IInv'
<1>1. edit' = [edit EXCEPT ![e] = NoEdit] /\ UNCHANGED <<schedule, built, business, seats>>
  BY DEF SetFails
<1>2. NoEdit \in Edits /\ NoEdit.step = "idle"
  BY FlightAssumption DEF NoEdit, Edits, Date
<1>3. TypeOK'
  BY <1>1, <1>2 DEF IInv, TypeOK, SetFails, flows
<1>4. EditsInOrder'
  BY <1>1, <1>2 DEF IInv, TypeOK, EditsInOrder, SeatsOf
<1>5. CabinWholeOrEmpty'
  BY <1>1 DEF IInv, CabinWholeOrEmpty, SeatsOf
<1>6. UNCHANGED BookingSide
  BY DEF SetFails, BookingSide, flows
<1>7. QED
  BY <1>3, <1>4, <1>5, <1>6, BookingSideKept DEF IInv

-----------------------------------------------------------------------------
(* The travellers' steps leave the schedules alone                         *)

LEMMA AskForStep ==
    ASSUME IInv, NEW b \in Booking, NEW d \in Date, NEW S \in SUBSET seats, AskFor(b, d, S)
    PROVE  IInv'
<1>1. TypeOK'
  BY DEF IInv, TypeOK, AskFor, airline
<1>2. RequestsFresh'
  BY DEF IInv, TypeOK, RequestsFresh, AskFor
<1>3. SeatsExclusive' /\ TakenIsHeld'
  BY DEF IInv, SeatsExclusive, TakenIsHeld, Holds, AskFor
<1>4. UNCHANGED AirlineSide
  BY DEF AskFor, AirlineSide
<1>5. QED
  BY <1>1, <1>2, <1>3, <1>4, AirlineSideKept DEF IInv

(* The UPDATE takes only seats that no live booking holds.                 *)
LEMMA CreateBookingStep ==
    ASSUME IInv, NEW b \in Booking, CreateBooking(b)
    PROVE  IInv'
<1> DEFINE S == request[b]
<1>1. UNCHANGED AirlineSide
  BY DEF CreateBooking, AirlineSide
<1>2. status[b] = "ABSENT" /\ S \subseteq seats /\ request' = [request EXCEPT ![b] = {}]
  BY DEF IInv, TypeOK, RequestsFresh, CreateBooking
<1>3. CASE Free(S)
  <2>1. /\ taken' = taken \cup S
        /\ status' = [status EXCEPT ![b] = "PENDING_PAYMENT"]
        /\ passengers' = [passengers EXCEPT ![b] = S]
    BY <1>3 DEF CreateBooking
  <2>2. TypeOK'
    BY <1>2, <2>1 DEF IInv, TypeOK, CreateBooking, airline
  <2>3. RequestsFresh'
    BY <1>2, <2>1 DEF IInv, TypeOK, RequestsFresh
  <2>4. /\ Holds(b)' /\ passengers'[b] = S
        /\ \A a \in Booking \ {b} : (Holds(a)' <=> Holds(a)) /\ passengers'[a] = passengers[a]
    BY <2>1 DEF IInv, TypeOK, Holds
  <2>5. \A a \in Booking : Holds(a) => a # b /\ passengers[a] \subseteq taken /\ passengers[a] \cap S = {}
    BY <1>2, <1>3 DEF IInv, TakenIsHeld, Free, Holds
  <2>6. SeatsExclusive'
    BY <2>4, <2>5 DEF IInv, SeatsExclusive
  <2>7. TakenIsHeld'
    <3>1. taken = UNION {passengers[a] : a \in {c \in Booking : Holds(c)}}
      BY DEF IInv, TakenIsHeld
    <3>2. \A x : x \in taken' <=> \E a \in Booking : Holds(a)' /\ x \in passengers'[a]
      BY <2>1, <2>4, <2>5, <3>1
    <3>3. taken' = UNION {passengers'[a] : a \in {c \in Booking : Holds(c)'}}
      BY <3>2
    <3>4. QED
      BY <3>3 DEF TakenIsHeld
  <2>8. QED
    BY <1>1, <2>2, <2>3, <2>6, <2>7, AirlineSideKept DEF IInv
<1>4. CASE ~Free(S)
  <2>1. UNCHANGED <<taken, status, passengers>>
    BY <1>4 DEF CreateBooking
  <2>2. TypeOK'
    BY <1>2, <2>1 DEF IInv, TypeOK, CreateBooking, airline
  <2>3. RequestsFresh'
    BY <1>2, <2>1 DEF IInv, TypeOK, RequestsFresh
  <2>4. SeatsExclusive' /\ TakenIsHeld'
    BY <2>1 DEF IInv, SeatsExclusive, TakenIsHeld, Holds
  <2>5. QED
    BY <1>1, <2>2, <2>3, <2>4, AirlineSideKept DEF IInv
<1>5. QED
  BY <1>3, <1>4

LEMMA ConfirmStep ==
    ASSUME IInv, NEW b \in Booking, Confirm(b)
    PROVE  IInv'
<1>1. TypeOK'
  BY DEF IInv, TypeOK, Confirm, airline, flows
<1>2. RequestsFresh'
  BY DEF IInv, TypeOK, RequestsFresh, Confirm, flows
<1>3. \A a \in Booking : (Holds(a)' <=> Holds(a)) /\ passengers'[a] = passengers[a]
  BY DEF IInv, TypeOK, Holds, Confirm
<1>4. SeatsExclusive'
  BY <1>3 DEF IInv, SeatsExclusive
<1>5. TakenIsHeld'
  <2>1. {c \in Booking : Holds(c)}' = {c \in Booking : Holds(c)}
    BY <1>3
  <2>2. QED
    BY <2>1 DEF IInv, TakenIsHeld, Confirm
<1>6. UNCHANGED AirlineSide
  BY DEF Confirm, AirlineSide
<1>7. QED
  BY <1>1, <1>2, <1>4, <1>5, <1>6, AirlineSideKept DEF IInv

(* A live booking that ends gives back its seats, and no other booking's.  *)
LEMMA SeatsGivenBack ==
    ASSUME IInv, NEW b \in Booking, Holds(b), NEW end \in {"CANCELLED", "EXPIRED"},
           status' = [status EXCEPT ![b] = end],
           taken' = taken \ passengers[b],
           UNCHANGED passengers
    PROVE  SeatsExclusive' /\ TakenIsHeld'
<1>1. /\ ~Holds(b)'
      /\ \A a \in Booking \ {b} : (Holds(a)' <=> Holds(a)) /\ passengers'[a] = passengers[a]
  BY DEF IInv, TypeOK, Holds
<1>2. SeatsExclusive'
  BY <1>1 DEF IInv, SeatsExclusive
<1>3. \A a \in Booking \ {b} : Holds(a) => passengers[a] \cap passengers[b] = {}
  BY DEF IInv, SeatsExclusive
<1>4. taken = UNION {passengers[a] : a \in {c \in Booking : Holds(c)}}
  BY DEF IInv, TakenIsHeld
<1>5. \A x : x \in taken' <=> \E a \in Booking : Holds(a)' /\ x \in passengers'[a]
  BY <1>1, <1>3, <1>4
<1>6. taken' = UNION {passengers'[a] : a \in {c \in Booking : Holds(c)'}}
  BY <1>5
<1>7. QED
  BY <1>2, <1>6 DEF TakenIsHeld

LEMMA CancelBookingStep ==
    ASSUME IInv, NEW b \in Booking, CancelBooking(b)
    PROVE  IInv'
<1>1. TypeOK'
  BY DEF IInv, TypeOK, CancelBooking, airline, flows
<1>2. RequestsFresh'
  BY DEF IInv, TypeOK, RequestsFresh, CancelBooking, flows
<1>3. SeatsExclusive' /\ TakenIsHeld'
  BY SeatsGivenBack DEF CancelBooking, Holds
<1>4. UNCHANGED AirlineSide
  BY DEF CancelBooking, AirlineSide
<1>5. QED
  BY <1>1, <1>2, <1>3, <1>4, AirlineSideKept DEF IInv

LEMMA ExpirePendingStep ==
    ASSUME IInv, NEW b \in Booking, ExpirePending(b)
    PROVE  IInv'
<1>1. UNCHANGED AirlineSide
  BY DEF ExpirePending, AirlineSide
<1>2. CASE status[b] = "PENDING_PAYMENT"
  <2>1. /\ status' = [status EXCEPT ![b] = "EXPIRED"]
        /\ taken' = taken \ passengers[b]
        /\ UNCHANGED <<passengers, request>>
    BY <1>2 DEF ExpirePending
  <2>2. TypeOK'
    BY <2>1 DEF IInv, TypeOK, ExpirePending, airline
  <2>3. RequestsFresh'
    BY <1>2, <2>1 DEF IInv, TypeOK, RequestsFresh
  <2>4. SeatsExclusive' /\ TakenIsHeld'
    BY <1>2, <2>1, SeatsGivenBack DEF Holds
  <2>5. QED
    BY <1>1, <2>2, <2>3, <2>4, AirlineSideKept DEF IInv
<1>3. CASE status[b] # "PENDING_PAYMENT"
  <2>1. UNCHANGED BookingSide
    BY <1>3 DEF ExpirePending, BookingSide
  <2>2. TypeOK'
    BY <1>3 DEF IInv, TypeOK, ExpirePending, airline
  <2>3. QED
    BY <1>1, <2>1, <2>2, BookingSideKept, AirlineSideKept DEF IInv
<1>4. QED
  BY <1>2, <1>3

(* Steps that change neither the seats, the schedules nor the bookings.    *)
LEMMA QuietStep ==
    ASSUME IInv, Review \/ UpdateAircraft \/ Midnight \/ Scan \/ \E b \in Booking : AskCancel(b)
    PROVE  IInv'
<1>1. UNCHANGED BookingSide
  BY DEF Review, UpdateAircraft, Midnight, Scan, AskCancel, BookingSide, airline, flows
<1>2. UNCHANGED <<schedule, built, edit, seats>>
  BY DEF Review, UpdateAircraft, Midnight, Scan, AskCancel, airline, flows
<1>3. EditsInOrder' /\ CabinWholeOrEmpty'
  BY <1>2 DEF IInv, EditsInOrder, CabinWholeOrEmpty, SeatsOf
<1>4. TypeOK'
  <2>1. CASE Review
    BY <2>1 DEF IInv, TypeOK, Review, flows
  <2>2. CASE UpdateAircraft
    BY <2>2 DEF IInv, TypeOK, UpdateAircraft, flows
  <2>3. CASE Midnight
    BY <2>3, FlightAssumption DEF IInv, TypeOK, Midnight, airline
  <2>4. CASE Scan
    BY <2>4 DEF IInv, TypeOK, Scan, airline
  <2>5. CASE \E b \in Booking : AskCancel(b)
    BY <2>5 DEF IInv, TypeOK, AskCancel, airline
  <2>6. QED
    BY <2>1, <2>2, <2>3, <2>4, <2>5
<1>5. QED
  BY <1>1, <1>3, <1>4, BookingSideKept DEF IInv

-----------------------------------------------------------------------------
LEMMA InvariantStep == IInv /\ [Next]_vars => IInv'
<1> SUFFICES ASSUME IInv, [Next]_vars PROVE IInv'
  OBVIOUS
<1>1. CASE Review \/ UpdateAircraft \/ Midnight \/ Scan
  BY <1>1, QuietStep
<1>2. ASSUME NEW e \in Editor, NEW first \in Date, NEW last \in Date, NEW w \in BOOLEAN,
             SetRequest(e, first, last, w)
      PROVE  IInv'
  BY <1>2, SetRequestStep
<1>3. ASSUME NEW e \in Editor, \/ SetRead(e) \/ SetUpdate(e) \/ SetCreate(e)
                               \/ CreateSeats(e) \/ SetFails(e)
      PROVE  IInv'
  BY <1>3, SetReadStep, SetUpdateStep, SetCreateStep, CreateSeatsStep, SetFailsStep
<1>4. ASSUME NEW b \in Booking, NEW d \in Date, NEW S \in SUBSET seats, AskFor(b, d, S)
      PROVE  IInv'
  BY <1>4, AskForStep
<1>5. ASSUME NEW b \in Booking, \/ CreateBooking(b) \/ Confirm(b) \/ AskCancel(b)
                                \/ CancelBooking(b) \/ ExpirePending(b)
      PROVE  IInv'
  BY <1>5, CreateBookingStep, ConfirmStep, QuietStep, CancelBookingStep, ExpirePendingStep
<1>6. CASE UNCHANGED vars
  <2>1. UNCHANGED BookingSide /\ UNCHANGED AirlineSide
    BY <1>6 DEF vars, flows, BookingSide, AirlineSide
  <2>2. TypeOK'
    BY <1>6 DEF IInv, TypeOK, vars, airline, flows
  <2>3. QED
    BY <2>1, <2>2, BookingSideKept, AirlineSideKept DEF IInv
<1>7. QED
  BY <1>1, <1>2, <1>3, <1>4, <1>5, <1>6 DEF Next

LEMMA FlightInvariant == Spec => []IInv
  BY InitIInv, InvariantStep, PTL DEF Spec

(* The flight model is type correct.                                       *)
THEOREM FlightTypeCorrect == Spec => []TypeOK
  BY FlightInvariant, PTL DEF IInv

(* No two travellers ever hold the same seat of a departure.               *)
THEOREM OneTravellerPerSeat == Spec => []SeatsExclusive
  BY FlightInvariant, PTL DEF IInv

(* The BOOKED seats are those of the live bookings.                        *)
THEOREM BookedSeatsAreHeld == Spec => []TakenIsHeld
  BY FlightInvariant, PTL DEF IInv

(* The airline's requests never give a departure a part of a cabin, or two.*)
THEOREM CabinsComeWhole == Spec => []CabinWholeOrEmpty
  BY FlightInvariant, PTL DEF IInv

(* No departure has a seat number twice.                                   *)
THEOREM SeatNumbersNeverCollide == Spec => []SeatNumbersUnique
<1>1. IInv => SeatNumbersUnique
  <2> SUFFICES ASSUME IInv, NEW s \in seats, NEW t \in seats,
                      DateOf(s) = DateOf(t), NumberOf(s) = NumberOf(t)
               PROVE  s = t
    BY DEF SeatNumbersUnique
  <2> DEFINE d == DateOf(s)
  <2>1. s \in Seat /\ t \in Seat /\ d \in Date
    BY DEF IInv, TypeOK, Seat, DateOf
  <2>2. s \in SeatsOf(d) /\ t \in SeatsOf(d)
    BY DEF SeatsOf
  <2>3. s \in {d} \X built[d] /\ t \in {d} \X built[d]
    BY <2>1, <2>2 DEF IInv, CabinWholeOrEmpty
  <2>4. PICK c \in Capacities : built[d] = GenerateSeatNumbers(c)
    BY <2>1, <2>3 DEF IInv, TypeOK, Cabins
  <2>5. c \in [business : Nat, economy : Nat]
    BY FlightAssumption
  <2>6. s[2] \in GenerateSeatNumbers(c) /\ t[2] \in GenerateSeatNumbers(c) /\ s[2][1] = t[2][1]
    BY <2>3, <2>4 DEF NumberOf
  <2>7. s[2] = t[2]
    BY <2>5, <2>6, CabinsApart
  <2>8. QED
    BY <2>3, <2>7
<1>2. QED
  BY <1>1, FlightInvariant, PTL
=============================================================================
