---------------------------- MODULE HotelBooking ----------------------------
(***************************************************************************)
(* Hotel bookings: one room, a stay of consecutive nights, one unit a      *)
(* night.                                                                  *)
(***************************************************************************)
EXTENDS BookingService

CONSTANT
    MAX_NIGHTS  \* longest stay

ASSUME StayAssumption == MAX_NIGHTS \in Nat /\ MaxParty >= 1

(* The nights slept from checkIn to checkOut.                              *)
EnumerateNights(checkIn, checkOut) == checkIn..(checkOut - 1)

ValidStay(checkIn, checkOut) ==
    /\ checkIn < checkOut
    /\ checkOut - checkIn <= MAX_NIGHTS

CreateBooking(b, checkIn, checkOut) ==
    /\ ValidStay(checkIn, checkOut)
    /\ AskFor(b, EnumerateNights(checkIn, checkOut), 1)

HotelNext ==
    \/ \E b \in Booking, checkIn \in Day, checkOut \in 1..(Horizon + 1) :
          CreateBooking(b, checkIn, checkOut)
    \/ ServiceStep

HotelSpec == ServiceInit /\ [][HotelNext]_serviceVars /\ SweepFairness

(* Live bookings are whole stays: consecutive nights, each of them backed  *)
(* by a row that counts it, although the rows are taken one at a time.     *)
StaysWhole ==
    \A b \in Booking : Holds(b) =>
        \E checkIn, checkOut \in 1..(Horizon + 1) :
            /\ days[b] = EnumerateNights(checkIn, checkOut)
            /\ \A d \in days[b] : d \in listed /\ booked[d] >= 1
=============================================================================
