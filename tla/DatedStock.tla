----------------------------- MODULE DatedStock -----------------------------
(***************************************************************************)
(* The stock of one listing sold by date: the nights of a room             *)
(* (room_inventory), the departures of a tour, the sessions of an          *)
(* experience, the departures of a vehicle on a route.  Each date has at   *)
(* most one row with the counters total / available / booked.              *)
(*                                                                         *)
(* Travellers' bookings change the row with one UPDATE guarded by its      *)
(* WHERE clause, inside a transaction that also changes the booking's      *)
(* status: one atomic step here.  The provider's "set" request reads the   *)
(* row, compares, and writes it back in a second statement, outside any    *)
(* transaction and one date after the other: two steps per date here.      *)
(***************************************************************************)
EXTENDS Integers, FiniteSets

CONSTANTS
    Booking,   \* ids of booking rows
    Editor,    \* "set" requests of the provider's staff
    Horizon,   \* the dates are 1..Horizon
    MaxParty,  \* largest number of people of one booking
    Totals     \* values a provider gives to totalRooms / capacity

Day == 1..Horizon
Party == 1..MaxParty

ASSUME StockAssumption ==
    /\ IsFiniteSet(Booking)
    /\ Horizon \in Nat \ {0}
    /\ MaxParty \in Nat
    /\ Totals \subseteq Nat

VARIABLES
    listed,     \* dates that have a row
    total,      \* totalRooms / capacity
    available,  \* availableRooms / available
    booked,     \* bookedRooms / booked
    status,     \* BookingStatus of every booking, "ABSENT" before its insert
    days,       \* dates a booking is for
    people,     \* units it takes on each of them
    edit,       \* progress of the "set" requests
    stale       \* history: dates last written from a count no longer current

counters == <<total, available, booked>>
bookings == <<status, days, people>>
stockVars == <<listed, counters, bookings, edit, stale>>

(* The statuses the code sets; PAID and COMPLETED are never assigned, and  *)
(* what follows CANCELLED is the business of the refund.                   *)
Status == {"ABSENT", "PENDING_PAYMENT", "CONFIRMED", "EXPIRED", "CANCELLED"}
EditStep == {"idle", "read", "update", "create"}

Edits == [step: EditStep, day: Day, last: Day, total: Totals \cup {0}, seen: Nat]
NoEdit == [step |-> "idle", day |-> 1, last |-> 1, total |-> 0, seen |-> 0]

StockInit ==
    /\ listed = {}
    /\ total = [d \in Day |-> 0]
    /\ available = [d \in Day |-> 0]
    /\ booked = [d \in Day |-> 0]
    /\ status = [b \in Booking |-> "ABSENT"]
    /\ days = [b \in Booking |-> {}]
    /\ people = [b \in Booking |-> 0]
    /\ edit = [e \in Editor |-> NoEdit]
    /\ stale = {}

-----------------------------------------------------------------------------
(* Bookings: one database transaction each.                                *)

(* Mutants: the units left are not compared, or only on the first date.    *)
CanTakeUnchecked(D, n) == D \subseteq listed
CanTakeFirst(D, n) ==
    \E first \in D : /\ \A d \in D : first <= d
                     /\ first \in listed /\ available[first] >= n

(* All the dates have a row with n units left: otherwise the transaction   *)
(* throws MissingInventory or SoldOut and takes nothing on any date.       *)
CanTake(D, n) == D \subseteq listed /\ \A d \in D : available[d] >= n

Book(b, D, n) ==
    /\ status[b] = "ABSENT"
    /\ D # {}
    /\ CanTake(D, n)
    /\ available' = [d \in Day |-> IF d \in D THEN available[d] - n ELSE available[d]]
    /\ booked' = [d \in Day |-> IF d \in D THEN booked[d] + n ELSE booked[d]]
    /\ status' = [status EXCEPT ![b] = "PENDING_PAYMENT"]
    /\ days' = [days EXCEPT ![b] = D]
    /\ people' = [people EXCEPT ![b] = n]
    /\ UNCHANGED <<listed, total, edit, stale>>

(* The payment webhook confirms the booking and leaves the counters alone. *)
Confirm(b) ==
    /\ status[b] = "PENDING_PAYMENT"
    /\ status' = [status EXCEPT ![b] = "CONFIRMED"]
    /\ UNCHANGED <<listed, counters, days, people, edit, stale>>

(* Gives back the units of b, date by date, each UPDATE being skipped when *)
(* the row counts fewer booked units than it is asked to give back.        *)
GiveBack(b) ==
    LET returns(d) == d \in days[b] /\ booked[d] >= people[b]
    IN  /\ available' = [d \in Day |-> IF returns(d) THEN available[d] + people[b] ELSE available[d]]
        /\ booked' = [d \in Day |-> IF returns(d) THEN booked[d] - people[b] ELSE booked[d]]
        /\ UNCHANGED total

Cancel(b) ==
    /\ status[b] = "CONFIRMED"
    /\ status' = [status EXCEPT ![b] = "CANCELLED"]
    /\ GiveBack(b)
    /\ UNCHANGED <<listed, days, people, edit, stale>>

(* Mutant: the UPDATE has no status guard.                                 *)
ExpireAnyStatus(b) ==
    /\ status[b] # "ABSENT"
    /\ status' = [status EXCEPT ![b] = "EXPIRED"]
    /\ GiveBack(b)
    /\ UNCHANGED <<listed, days, people, edit, stale>>

Expire(b) ==
    /\ status[b] = "PENDING_PAYMENT"
    /\ status' = [status EXCEPT ![b] = "EXPIRED"]
    /\ GiveBack(b)
    /\ UNCHANGED <<listed, days, people, edit, stale>>

-----------------------------------------------------------------------------
(* The provider's "set" request over the dates first..last.                *)

SetRequest(e, first, last, t) ==
    /\ edit[e].step = "idle"
    /\ first <= last
    /\ edit' = [edit EXCEPT ![e] =
                  [step |-> "read", day |-> first, last |-> last, total |-> t, seen |-> 0]]
    /\ UNCHANGED <<listed, counters, bookings, stale>>

(* The date's row is read; a total below the count of booked units rejects *)
(* the rest of the request, what it wrote for earlier dates stays.         *)
SetRead(e) ==
    LET d == edit[e].day
    IN  /\ edit[e].step = "read"
        /\ edit' = [edit EXCEPT ![e] =
                      IF d \notin listed THEN [@ EXCEPT !.step = "create"]
                      ELSE IF @.total < booked[d] THEN NoEdit
                      ELSE [@ EXCEPT !.step = "update", !.seen = booked[d]]]
        /\ UNCHANGED <<listed, counters, bookings, stale>>

NextDate(r) ==
    IF r.day < r.last
    THEN [r EXCEPT !.step = "read", !.day = @ + 1, !.seen = 0]
    ELSE NoEdit

(* Mutant: the booked units are not taken off.                             *)
SetUpdateAllAvailable(e) ==
    LET d == edit[e].day
    IN  /\ edit[e].step = "update"
        /\ total' = [total EXCEPT ![d] = edit[e].total]
        /\ available' = [available EXCEPT ![d] = edit[e].total]
        /\ stale' = IF edit[e].seen = booked[d] THEN stale \ {d} ELSE stale \cup {d}
        /\ edit' = [edit EXCEPT ![e] = NextDate(@)]
        /\ UNCHANGED <<listed, booked, bookings>>

(* UPDATE by row id: total and available are overwritten, booked is not.   *)
SetUpdate(e) ==
    LET d == edit[e].day
    IN  /\ edit[e].step = "update"
        /\ total' = [total EXCEPT ![d] = edit[e].total]
        /\ available' = [available EXCEPT ![d] = edit[e].total - edit[e].seen]
        /\ stale' = IF edit[e].seen = booked[d] THEN stale \ {d} ELSE stale \cup {d}
        /\ edit' = [edit EXCEPT ![e] = NextDate(@)]
        /\ UNCHANGED <<listed, booked, bookings>>

(* INSERT: the unique key on (listing, date) refuses a second row, and the *)
(* error ends the request.                                                 *)
SetCreate(e) ==
    LET d == edit[e].day
    IN  /\ edit[e].step = "create"
        /\ \/ /\ d \notin listed
              /\ listed' = listed \cup {d}
              /\ total' = [total EXCEPT ![d] = edit[e].total]
              /\ available' = [available EXCEPT ![d] = edit[e].total]
              /\ edit' = [edit EXCEPT ![e] = NextDate(@)]
           \/ /\ d \in listed
              /\ edit' = [edit EXCEPT ![e] = NoEdit]
              /\ UNCHANGED <<listed, total, available>>
        /\ UNCHANGED <<booked, bookings, stale>>

SetStep(e) == SetRead(e) \/ SetUpdate(e) \/ SetCreate(e)

StockNext ==
    \/ \E b \in Booking :
         \/ \E D \in SUBSET Day, n \in Party : Book(b, D, n)
         \/ Confirm(b)
         \/ Cancel(b)
         \/ Expire(b)
    \/ \E e \in Editor :
         \/ \E first, last \in Day, t \in Totals : SetRequest(e, first, last, t)
         \/ SetStep(e)

StockSpec == StockInit /\ [][StockNext]_stockVars

-----------------------------------------------------------------------------
(* Properties                                                              *)

StockTypeOK ==
    /\ listed \subseteq Day
    /\ total \in [Day -> Nat]
    /\ available \in [Day -> Nat]
    /\ booked \in [Day -> Nat]
    /\ status \in [Booking -> Status]
    /\ days \in [Booking -> SUBSET Day]
    /\ people \in [Booking -> 0..MaxParty]
    /\ edit \in [Editor -> Edits]
    /\ stale \subseteq Day

Holds(b) == status[b] \in {"PENDING_PAYMENT", "CONFIRMED"}

(* The units of date d that live bookings hold, as a set of places.        *)
Places(d) ==
    {p \in Booking \X Party : /\ Holds(p[1])
                              /\ d \in days[p[1]]
                              /\ p[2] <= people[p[1]]}
Sold(d) == Cardinality(Places(d))

(* Whatever the interleaving of bookings, webhooks, cancellations, the     *)
(* expiry job and provider edits, the booked counter of a date is exactly  *)
(* what its live bookings hold: nothing is given back twice, or skipped by *)
(* the WHERE booked >= n of the release.                                   *)
BookedIsSold == \A d \in Day : booked[d] = Sold(d)

(* A date whose last provider write used a current count balances:         *)
(* available + booked = total.                                             *)
Balanced == \A d \in Day \ stale : available[d] + booked[d] = total[d]

(* No overselling (README.md:17), except on a date where a provider edit   *)
(* overwrote available from a count of booked units that had changed.      *)
NoOversellUnlessStale == \A d \in Day \ stale : Sold(d) <= total[d]

(* README.md:17 without the exception: never more units sold than the      *)
(* provider offers.                                                        *)
NoOversell == \A d \in Day : Sold(d) <= total[d]
=============================================================================
