------------------------------ MODULE Staffing ------------------------------
(***************************************************************************)
(* Who leads a tour's departure and who drives a transport booking.  Both  *)
(* are assigned by a request that checks first and writes later, and both  *)
(* are taken off their work before they are removed.  A guide's row is     *)
(* deleted and a foreign key watches it; a driver's row only gets its      *)
(* deletedAt, which no key sees.                                           *)
(***************************************************************************)
EXTENDS Naturals

CONSTANTS
    Guide,       \* rows of tour_guides
    Driver,      \* rows of drivers
    Account,     \* AccountOf[g]: TourGuide.userId
    AccountOf,
    Departure,   \* rows of tour_schedules
    Ride,        \* rows of transport_bookings
    NoOne

ASSUME StaffAssumption ==
    /\ AccountOf \in [Guide -> Account]
    /\ Guide \cap Driver = {} /\ NoOne \notin Guide \cup Driver

VARIABLES
    staff,       \* is the row of a guide or driver there, and not deleted?
    guideOf,     \* TourSchedule.guideId
    driverOf,    \* TransportBooking.driverId
    assigning,   \* assignments past their checks
    leaving,     \* taken off all work by a removal that has still to remove the row
    crossed      \* history: drivers assigned after a removal took them off their work

staffVars == <<staff, guideOf, driverOf, assigning, leaving, crossed>>

Person == Guide \cup Driver

StaffInit ==
    /\ staff = [p \in Person |-> "ABSENT"]
    /\ guideOf = [d \in Departure |-> NoOne]
    /\ driverOf = [r \in Ride |-> NoOne]
    /\ assigning = {} /\ leaving = {} /\ crossed = {}

Hired(p) == staff[p] = "HIRED"

Hire(p) ==
    /\ staff[p] = "ABSENT"
    /\ staff' = [staff EXCEPT ![p] = "HIRED"]
    /\ UNCHANGED <<guideOf, driverOf, assigning, leaving, crossed>>

\* The work of everybody in P is given to nobody.
Released(work, P) == [w \in DOMAIN work |-> IF work[w] \in P THEN NoOne ELSE work[w]]

\* assign, up to its last check.
AskAssign(w, p) ==
    /\ Hired(p)
    /\ assigning' = assigning \cup {<<w, p>>}
    /\ UNCHANGED <<staff, guideOf, driverOf, leaving, crossed>>

-----------------------------------------------------------------------------
(* Guides.                                                                 *)

\* "This account is already a guide": read first, and the unique key in the end.
CreateGuide(g) ==
    /\ \A h \in Guide : Hired(h) => AccountOf[h] # AccountOf[g]
    /\ Hire(g)

AskAssignGuide(d, g) == AskAssign(d, g)

\* The UPDATE, which the foreign key refuses when the guide is gone.
AssignGuide(d, g) ==
    /\ <<d, g>> \in assigning
    /\ assigning' = assigning \ {<<d, g>>}
    /\ guideOf' = IF Hired(g) THEN [guideOf EXCEPT ![d] = g] ELSE guideOf
    /\ UNCHANGED <<staff, driverOf, leaving, crossed>>

\* assign without a guideId.
ClearGuide(d) ==
    /\ guideOf' = [guideOf EXCEPT ![d] = NoOne]
    /\ UNCHANGED <<staff, driverOf, assigning, leaving, crossed>>

\* remove: all departures of the guide, then the row.
UnassignGuideFromAll(g) ==
    /\ Hired(g)
    /\ guideOf' = Released(guideOf, {g})
    /\ leaving' = leaving \cup {g}
    /\ UNCHANGED <<staff, driverOf, assigning, crossed>>

\* DELETE; ON DELETE SET NULL catches an assignment written since.
RemoveGuide(g) ==
    /\ g \in leaving
    /\ staff' = [staff EXCEPT ![g] = "GONE"]
    /\ guideOf' = Released(guideOf, {g})
    /\ leaving' = leaving \ {g}
    /\ UNCHANGED <<driverOf, assigning, crossed>>

-----------------------------------------------------------------------------
(* Drivers.                                                                *)

CreateDriver(d) == Hire(d)

AskAssignDriver(r, d) == AskAssign(r, d)

\* UPDATE by id: the row of a removed driver is still there for the foreign key.
AssignDriver(r, d) ==
    /\ <<r, d>> \in assigning
    /\ assigning' = assigning \ {<<r, d>>}
    /\ driverOf' = [driverOf EXCEPT ![r] = d]
    /\ crossed' = IF Hired(d) /\ d \notin leaving THEN crossed ELSE crossed \cup {d}
    /\ UNCHANGED <<staff, guideOf, leaving>>

ClearDriver(r) ==
    /\ driverOf' = [driverOf EXCEPT ![r] = NoOne]
    /\ UNCHANGED <<staff, guideOf, assigning, leaving, crossed>>

(* Mutant: softDelete marks the row and forgets the bookings.              *)
ReleaseNoDriver(d) ==
    /\ Hired(d)
    /\ leaving' = leaving \cup {d}
    /\ UNCHANGED <<staff, guideOf, driverOf, assigning, crossed>>

\* softDelete: two statements, no transaction.
ReleaseDriver(d) ==
    /\ Hired(d)
    /\ driverOf' = Released(driverOf, {d})
    /\ leaving' = leaving \cup {d}
    /\ UNCHANGED <<staff, guideOf, assigning, crossed>>

SoftDeleteDriver(d) ==
    /\ d \in leaving
    /\ staff' = [staff EXCEPT ![d] = "GONE"]
    /\ leaving' = leaving \ {d}
    /\ UNCHANGED <<guideOf, driverOf, assigning, crossed>>

-----------------------------------------------------------------------------
StaffNext ==
    \/ \E g \in Guide :
         \/ CreateGuide(g) \/ UnassignGuideFromAll(g) \/ RemoveGuide(g)
         \/ \E d \in Departure : AskAssignGuide(d, g) \/ AssignGuide(d, g)
    \/ \E d \in Departure : ClearGuide(d)
    \/ \E d \in Driver :
         \/ CreateDriver(d) \/ ReleaseDriver(d) \/ SoftDeleteDriver(d)
         \/ \E r \in Ride : AskAssignDriver(r, d) \/ AssignDriver(r, d)
    \/ \E r \in Ride : ClearDriver(r)

StaffSpec == StaffInit /\ [][StaffNext]_staffVars

-----------------------------------------------------------------------------
(* Properties.                                                             *)

\* Everything is of its kind; nobody is a guide twice, and a departure names a
\* guide who is still there ("avoid leaving a ghost guideId"), whatever crosses.
StaffTypeOK ==
    /\ staff \in [Person -> {"ABSENT", "HIRED", "GONE"}]
    /\ guideOf \in [Departure -> Guide \cup {NoOne}]
    /\ driverOf \in [Ride -> Driver \cup {NoOne}]
    /\ assigning \subseteq (Departure \X Guide) \cup (Ride \X Driver)
    /\ leaving \subseteq Person /\ crossed \subseteq Driver
    /\ \A g, h \in Guide : Hired(g) /\ Hired(h) /\ AccountOf[g] = AccountOf[h] => g = h
    /\ \A d \in Departure : guideOf[d] # NoOne => Hired(guideOf[d])

\* "No ghost FK": a removed driver drives nothing, unless an assignment that had
\* checked the driver before was written after the removal released the rides.
RemovedDriverIdle ==
    \A r \in Ride, d \in Driver \ crossed : driverOf[r] = d => staff[d] = "HIRED"
=============================================================================
