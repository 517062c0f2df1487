---------------------------- MODULE DatedBooking ----------------------------
(***************************************************************************)
(* The four domains sold by date over one specification of the stock: a    *)
(* listing belongs to one of them.                                         *)
(***************************************************************************)
EXTENDS HotelBooking, TourBooking, ExperienceBooking, TransportBooking

VARIABLE domain  \* BookingDomain of the listing

datedVars == <<serviceVars, domain>>

DatedInit ==
    /\ ServiceInit
    /\ domain \in {"HOTEL", "TOUR", "EXPERIENCE", "TRANSPORT"}

DatedNext ==
    /\ \/ domain = "HOTEL" /\ HotelNext
       \/ domain = "TOUR" /\ TourNext
       \/ domain = "EXPERIENCE" /\ ExperienceNext
       \/ domain = "TRANSPORT" /\ TransportNext
    /\ UNCHANGED domain

DatedSpec == DatedInit /\ [][DatedNext]_datedVars /\ SweepFairness
=============================================================================
