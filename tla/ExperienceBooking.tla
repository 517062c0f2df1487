------------------------- MODULE ExperienceBooking --------------------------
(***************************************************************************)
(* Experiences: bookings of a date, and the operator's schedule.           *)
(***************************************************************************)
EXTENDS Departure

(* create: the checks before the transaction.                              *)
AskForExperience(b, d, n) ==
    /\ FitsGroup(n)
    /\ AskFor(b, {d}, n)

CreateExperienceBooking(b) == Commit(b)
AskCancelExperience(b) == AskCancel(b)
CancelExperienceBooking(b) == CommitCancel(b)
ScanExperienceBookings == Scan
ExpireExperienceBooking(b) == ExpireNext(b)

AskSetExperienceSchedule(e, first, last, t) == SetRequest(e, first, last, t)
SetExperienceSchedule(e) == SetStep(e)

ExperienceNext ==
    \/ Moderate \/ Midnight \/ ScanExperienceBookings \/ CutShort
    \/ \E b \in Booking :
         \/ \E d \in Day, n \in Party : AskForExperience(b, d, n)
         \/ CreateExperienceBooking(b) \/ AskCancelExperience(b)
         \/ CancelExperienceBooking(b)
         \/ Pay(b) \/ Age(b) \/ ExpireExperienceBooking(b)
    \/ \E e \in Editor :
         /\ \/ \E first, last \in Day, t \in Totals :
                  AskSetExperienceSchedule(e, first, last, t)
            \/ SetExperienceSchedule(e)
         /\ UNCHANGED <<requestVars, sweepVars>>
=============================================================================
