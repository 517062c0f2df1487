---------------------------- MODULE TourBooking -----------------------------
(***************************************************************************)
(* Tours: bookings of a departure date and the operator's schedule.        *)
(***************************************************************************)
EXTENDS Departure

(* create: the checks before the transaction.                              *)
AskForTour(b, d, n) ==
    /\ FitsGroup(n)
    /\ AskFor(b, {d}, n)

CreateTourBooking(b) == Commit(b)
AskCancelTour(b) == AskCancel(b)
CancelTourBooking(b) == CommitCancel(b)
ScanTourBookings == Scan
ExpireTourBooking(b) == ExpireNext(b)

AskSetTourSchedule(e, first, last, t) == SetRequest(e, first, last, t)
SetTourSchedule(e) == SetStep(e)

TourNext ==
    \/ Moderate \/ Midnight \/ ScanTourBookings \/ CutShort
    \/ \E b \in Booking :
         \/ \E d \in Day, n \in Party : AskForTour(b, d, n)
         \/ CreateTourBooking(b) \/ AskCancelTour(b) \/ CancelTourBooking(b)
         \/ Pay(b) \/ Age(b) \/ ExpireTourBooking(b)
    \/ \E e \in Editor :
         /\ \/ \E first, last \in Day, t \in Totals : AskSetTourSchedule(e, first, last, t)
            \/ SetTourSchedule(e)
         /\ UNCHANGED <<requestVars, sweepVars>>
=============================================================================
