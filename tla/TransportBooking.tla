-------------------------- MODULE TransportBooking --------------------------
(***************************************************************************)
(* Transport: bookings of a route, a vehicle and a date; the row of the    *)
(* schedule is that of all three.                                          *)
(***************************************************************************)
EXTENDS Departure

(* create: route and vehicle are APPROVED, the party fits the vehicle.     *)
AskForTransport(b, d, n) ==
    /\ n <= MaxGroup
    /\ AskFor(b, {d}, n)

CreateTransportBooking(b) == Commit(b)
AskCancelTransport(b) == AskCancel(b)
CancelTransportBooking(b) == CommitCancel(b)
ScanTransportBookings == Scan
ExpireTransportBooking(b) == ExpireNext(b)

AskSetTransportSchedule(e, first, last, t) == SetRequest(e, first, last, t)
SetTransportSchedule(e) == SetStep(e)

TransportNext ==
    \/ Moderate \/ Midnight \/ ScanTransportBookings \/ CutShort
    \/ \E b \in Booking :
         \/ \E d \in Day, n \in Party : AskForTransport(b, d, n)
         \/ CreateTransportBooking(b) \/ AskCancelTransport(b)
         \/ CancelTransportBooking(b)
         \/ Pay(b) \/ Age(b) \/ ExpireTransportBooking(b)
    \/ \E e \in Editor :
         /\ \/ \E first, last \in Day, t \in Totals : AskSetTransportSchedule(e, first, last, t)
            \/ SetTransportSchedule(e)
         /\ UNCHANGED <<requestVars, sweepVars>>
=============================================================================
