---------------------------- MODULE FlightBooking ----------------------------
(***************************************************************************)
(* The bookings of one flight.  A departure date has a schedule row and    *)
(* one row per seat, AVAILABLE or BOOKED; a booking names its seats.  The  *)
(* provider's "set" request creates a missing schedule and then, in a      *)
(* second statement, its seats; one that exists gets its fares updated and *)
(* keeps its seats.  Fares are left out, but for whether the business      *)
(* class has one.                                                          *)
(*                                                                         *)
(* A handler's reads and its transaction are steps of their own, as in     *)
(* BookingService, and so is each candidate of the expiration job.         *)
(***************************************************************************)
EXTENDS SeatNumbers, FiniteSets

CONSTANTS
    Booking,
    Editor,      \* "set" requests of the airline
    LastDate,    \* departures are on the dates 1..LastDate
    Capacities,  \* records [business, economy]: capacities of an aircraft
    MaxSeats     \* most seats of one booking

Date == 1..LastDate

ASSUME FlightAssumption ==
    /\ LastDate \in Nat \ {0}
    /\ Capacities \subseteq [business : Nat, economy : Nat]

Cabins == {GenerateSeatNumbers(c) : c \in Capacities}

(* A FlightSeat row: the date of its schedule, and its number and class.   *)
Seat == Date \X UNION Cabins
DateOf(s) == s[1]
NumberOf(s) == s[2][1]
ClassOf(s) == s[2][2]

VARIABLES
    approved,   \* flight.status = APPROVED
    aircraft,   \* the capacities of its aircraft
    schedule,   \* dates with a FlightSchedule row
    built,      \* history: the capacities a schedule was created for
    business,   \* dates with a businessPrice
    seats,      \* FlightSeat rows
    taken,      \* those that are BOOKED
    edit,       \* progress of the "set" requests
    status,     \* BookingStatus, "ABSENT" before the insert
    passengers, \* seats of the booking's Passenger rows
    request,    \* seats a create request checked
    cancelling, \* bookings that some cancel request found cancellable
    candidates, \* bookings the expiration job still has to visit
    today

airline == <<approved, aircraft, schedule, built, business, edit>>
flows == <<request, cancelling, candidates, today>>
vars == <<airline, seats, taken, status, passengers, flows>>

Edits == [step : {"idle", "read", "update", "create", "seats"}, date : Date, last : Date,
          cabin : Cabins \cup {{}}, business : BOOLEAN]
NoEdit == [step |-> "idle", date |-> 1, last |-> 1, cabin |-> {}, business |-> FALSE]

Init ==
    /\ approved \in BOOLEAN
    /\ aircraft \in Capacities
    /\ schedule = {}
    /\ built = [d \in Date |-> {}]
    /\ business = {}
    /\ seats = {}
    /\ taken = {}
    /\ edit = [e \in Editor |-> NoEdit]
    /\ status = [b \in Booking |-> "ABSENT"]
    /\ passengers = [b \in Booking |-> {}]
    /\ request = [b \in Booking |-> {}]
    /\ cancelling = {}
    /\ candidates = {}
    /\ today = 0

-----------------------------------------------------------------------------
(* The airline, the moderator and the calendar                             *)

Review ==
    /\ approved' = ~approved
    /\ UNCHANGED <<aircraft, schedule, built, business, edit, seats, taken, status, passengers, flows>>

UpdateAircraft ==
    /\ aircraft' \in Capacities
    /\ UNCHANGED <<approved, schedule, built, business, edit, seats, taken, status, passengers, flows>>

Midnight ==
    /\ today < LastDate
    /\ today' = today + 1
    /\ UNCHANGED <<airline, seats, taken, status, passengers, request, cancelling, candidates>>

(* "set" generates the seat numbers once, for all the dates first..last.   *)
SetRequest(e, first, last, withBusiness) ==
    /\ edit[e].step = "idle"
    /\ first <= last
    /\ edit' = [edit EXCEPT ![e] =
                  [step |-> "read", date |-> first, last |-> last,
                   cabin |-> GenerateSeatNumbers(aircraft), business |-> withBusiness]]
    /\ UNCHANGED <<approved, aircraft, schedule, built, business, seats, taken, status, passengers, flows>>

NextDate(r) ==
    IF r.date < r.last THEN [r EXCEPT !.step = "read", !.date = @ + 1] ELSE NoEdit

SetRead(e) ==
    /\ edit[e].step = "read"
    /\ edit' = [edit EXCEPT ![e].step = IF edit[e].date \in schedule THEN "update" ELSE "create"]
    /\ UNCHANGED <<approved, aircraft, schedule, built, business, seats, taken, status, passengers, flows>>

Fares(e) == business' = IF edit[e].business THEN business \cup {edit[e].date} ELSE business

(* Mutant: a schedule that is set again gets seats again.                  *)
SetUpdateRefills(e) ==
    /\ edit[e].step = "update"
    /\ Fares(e)
    /\ seats' = seats \cup ({edit[e].date} \X edit[e].cabin)
    /\ edit' = [edit EXCEPT ![e] = NextDate(@)]
    /\ UNCHANGED <<approved, aircraft, schedule, built, taken, status, passengers, flows>>

SetUpdate(e) ==
    /\ edit[e].step = "update"
    /\ Fares(e)
    /\ edit' = [edit EXCEPT ![e] = NextDate(@)]
    /\ UNCHANGED <<approved, aircraft, schedule, built, seats, taken, status, passengers, flows>>

(* The unique key on (flight, date) refuses a second row.                  *)
SetCreate(e) ==
    LET d == edit[e].date
    IN  /\ edit[e].step = "create"
        /\ \/ /\ d \notin schedule
              /\ schedule' = schedule \cup {d}
              /\ built' = [built EXCEPT ![d] = edit[e].cabin]
              /\ Fares(e)
              /\ edit' = [edit EXCEPT ![e].step = "seats"]
           \/ /\ d \in schedule
              /\ edit' = [edit EXCEPT ![e] = NoEdit]
              /\ UNCHANGED <<schedule, built, business>>
        /\ UNCHANGED <<approved, aircraft, seats, taken, status, passengers, flows>>

(* createMany: the seats of the new schedule, in one INSERT.               *)
CreateSeats(e) ==
    /\ edit[e].step = "seats"
    /\ seats' = seats \cup ({edit[e].date} \X edit[e].cabin)
    /\ edit' = [edit EXCEPT ![e] = NextDate(@)]
    /\ UNCHANGED <<approved, aircraft, schedule, built, business, taken, status, passengers, flows>>

(* A query fails or the process stops between two statements.              *)
SetFails(e) ==
    /\ edit[e].step # "idle"
    /\ edit' = [edit EXCEPT ![e] = NoEdit]
    /\ UNCHANGED <<approved, aircraft, schedule, built, business, seats, taken, status, passengers, flows>>

-----------------------------------------------------------------------------
(* Bookings                                                                *)

(* Mutant: one affected row is enough.                                     *)
FreeSome(S) == S \subseteq seats /\ ~(S \subseteq taken)
Free(S) == S \subseteq seats \ taken

(* The checks before the transaction: seats of one schedule, AVAILABLE,    *)
(* the flight approved, and the business fare known where it is needed.    *)
AskFor(b, d, S) ==
    /\ status[b] = "ABSENT"
    /\ request[b] = {}
    /\ approved
    /\ d \in schedule
    /\ \A s \in S : DateOf(s) = d
    /\ Free(S)
    /\ (\E s \in S : ClassOf(s) = "BUSINESS") => d \in business
    /\ request' = [request EXCEPT ![b] = S]
    /\ UNCHANGED <<airline, seats, taken, status, passengers, cancelling, candidates, today>>

(* UPDATE ... WHERE status = 'AVAILABLE' must affect all the seats.        *)
CreateBooking(b) ==
    LET S == request[b]
    IN  /\ S # {}
        /\ \/ /\ Free(S)
              /\ taken' = taken \cup S
              /\ status' = [status EXCEPT ![b] = "PENDING_PAYMENT"]
              /\ passengers' = [passengers EXCEPT ![b] = S]
           \/ ~Free(S) /\ UNCHANGED <<taken, status, passengers>>
        /\ request' = [request EXCEPT ![b] = {}]
        /\ UNCHANGED <<airline, seats, cancelling, candidates, today>>

(* The payment webhook's transaction, see BookingPayment.                  *)
Confirm(b) ==
    /\ status[b] = "PENDING_PAYMENT"
    /\ status' = [status EXCEPT ![b] = "CONFIRMED"]
    /\ UNCHANGED <<airline, seats, taken, passengers, flows>>

AskCancel(b) ==
    /\ status[b] = "CONFIRMED"
    /\ \A s \in passengers[b] : DateOf(s) > today
    /\ cancelling' = cancelling \cup {b}
    /\ UNCHANGED <<airline, seats, taken, status, passengers, request, candidates, today>>

(* Mutant: a second cancellation gives the seats back again.               *)
CancelBookingAgain(b) ==
    /\ b \in cancelling
    /\ status' = [status EXCEPT ![b] = "CANCELLED"]
    /\ taken' = taken \ passengers[b]
    /\ UNCHANGED <<airline, seats, passengers, flows>>

(* The status is checked by the UPDATE, the seats go back by their ids.    *)
CancelBooking(b) ==
    /\ b \in cancelling
    /\ status[b] = "CONFIRMED"
    /\ status' = [status EXCEPT ![b] = "CANCELLED"]
    /\ taken' = taken \ passengers[b]
    /\ UNCHANGED <<airline, seats, passengers, flows>>

Scan ==
    /\ candidates = {}
    /\ \E overdue \in SUBSET {b \in Booking : status[b] = "PENDING_PAYMENT"} : candidates' = overdue
    /\ UNCHANGED <<airline, seats, taken, status, passengers, request, cancelling, today>>

ExpirePending(b) ==
    /\ b \in candidates
    /\ candidates' = candidates \ {b}
    /\ \/ /\ status[b] = "PENDING_PAYMENT"
          /\ status' = [status EXCEPT ![b] = "EXPIRED"]
          /\ taken' = taken \ passengers[b]
       \/ status[b] # "PENDING_PAYMENT" /\ UNCHANGED <<status, taken>>
    /\ UNCHANGED <<airline, seats, passengers, request, cancelling, today>>

-----------------------------------------------------------------------------
Next ==
    \/ Review \/ UpdateAircraft \/ Midnight \/ Scan
    \/ \E e \in Editor :
         \/ \E first, last \in Date, withBusiness \in BOOLEAN : SetRequest(e, first, last, withBusiness)
         \/ SetRead(e) \/ SetUpdate(e) \/ SetCreate(e) \/ CreateSeats(e) \/ SetFails(e)
    \/ \E b \in Booking :
         \/ \E d \in Date, S \in SUBSET seats :
              S # {} /\ Cardinality(S) <= MaxSeats /\ AskFor(b, d, S)
         \/ CreateBooking(b) \/ Confirm(b)
         \/ AskCancel(b) \/ CancelBooking(b) \/ ExpirePending(b)

Spec == Init /\ [][Next]_vars

-----------------------------------------------------------------------------
(* Properties                                                              *)

TypeOK ==
    /\ approved \in BOOLEAN
    /\ aircraft \in Capacities
    /\ schedule \subseteq Date
    /\ built \in [Date -> Cabins \cup {{}}]
    /\ business \subseteq schedule
    /\ seats \subseteq Seat
    /\ taken \subseteq seats
    /\ status \in [Booking -> {"ABSENT", "PENDING_PAYMENT", "CONFIRMED", "EXPIRED", "CANCELLED"}]
    /\ passengers \in [Booking -> SUBSET seats]
    /\ request \in [Booking -> SUBSET seats]
    /\ cancelling \subseteq Booking
    /\ candidates \subseteq Booking
    /\ today \in 0..LastDate
    /\ edit \in [Editor -> Edits]

Holds(b) == status[b] \in {"PENDING_PAYMENT", "CONFIRMED"}

(* Two live bookings never have a seat in common, although both requests   *)
(* may have found it AVAILABLE and seats are given back by id alone.       *)
SeatsExclusive ==
    \A a, b \in Booking : a # b /\ Holds(a) /\ Holds(b) => passengers[a] \cap passengers[b] = {}

(* A seat is BOOKED exactly while a live booking has it: none is freed     *)
(* under a traveller, and none stays blocked after its booking ended.      *)
TakenIsHeld == taken = UNION {passengers[b] : b \in {c \in Booking : Holds(c)}}

SeatsOf(d) == {s \in seats : DateOf(s) = d}

(* A schedule that has any seat has the whole cabin it was created with,   *)
(* whatever requests set it again and whatever became of the aircraft.     *)
CabinWholeOrEmpty ==
    \A d \in Date : SeatsOf(d) # {} => d \in schedule /\ SeatsOf(d) = {d} \X built[d]

(* A seat number occurs once per departure, as the key of flight_seats     *)
(* asks: business and economy rows never collide, however large the cabins *)
(* are, so the seats of a new schedule can always be inserted.             *)
SeatNumbersUnique ==
    \A s, t \in seats : DateOf(s) = DateOf(t) /\ NumberOf(s) = NumberOf(t) => s = t
=============================================================================
