------------------------------- MODULE Reviews ------------------------------
(***************************************************************************)
(* What one user does about reviewing one destination, property, tour,     *)
(* experience or flight.  All but a destination have to be earned by a     *)
(* booking.  Each create looks at the bookings, then for an earlier review, *)
(* and then inserts a row or brings the deleted one back.  Reviews of other *)
(* users and of other subjects are other rows, with other keys.            *)
(***************************************************************************)
EXTENDS Naturals

CONSTANT ReviewRequest      \* creates; a row has the name of the one that inserted it

VARIABLES
    subject,     \* what is reviewed
    offered,     \* the subject is not withdrawn
    visit,       \* status of the user's booking of it
    review,      \* the rows: "NONE", "SHOWN", "DELETED"
    stars,       \* their ratings
    writing,     \* what a create has found out
    earned       \* history: the user had a CONFIRMED booking at some time

reviewVars == <<subject, offered, visit, review, stars, writing, earned>>

Bookable == {"PROPERTY", "TOUR", "EXPERIENCE", "FLIGHT"}
Stars == {"LOW", "HIGH"}

ReviewInit ==
    /\ subject \in Bookable \cup {"DESTINATION"}
    /\ offered = TRUE
    /\ visit = "NONE" /\ earned = FALSE
    /\ review = [r \in ReviewRequest |-> "NONE"]
    /\ stars = [r \in ReviewRequest |-> "LOW"]
    /\ writing = [q \in ReviewRequest |-> <<"NEW">>]

Written == {r \in ReviewRequest : review[r] # "NONE"}

\* The booking modules, as seen from here.
MoveVisit(from, to) ==
    /\ subject \in Bookable /\ visit = from
    /\ visit' = to
    /\ earned' = (earned \/ to = "CONFIRMED")
    /\ UNCHANGED <<subject, offered, review, stars, writing>>

VisitBooked == MoveVisit("NONE", "PENDING_PAYMENT")
VisitConfirmed == MoveVisit("PENDING_PAYMENT", "CONFIRMED")
VisitEnded == MoveVisit("PENDING_PAYMENT", "EXPIRED") \/ MoveVisit("CONFIRMED", "CANCELLED")

SubjectWithdrawn ==
    /\ offered
    /\ offered' = FALSE
    /\ UNCHANGED <<subject, visit, review, stars, writing, earned>>

-----------------------------------------------------------------------------
(* create.                                                                 *)

(* Mutant: a booking of any status counts.                                 *)
AnyBooking == visit # "NONE"

\* hasConfirmedBookingFor...: no code sets COMPLETED.
HasConfirmedBooking == visit = "CONFIRMED"

\* The first checks of a create.
Ask(q) ==
    /\ offered /\ writing[q] = <<"NEW">>
    /\ writing' = [writing EXCEPT ![q] = <<"ALLOWED">>]
    /\ UNCHANGED <<subject, offered, visit, review, stars, earned>>

CreateForDestination(q) == subject = "DESTINATION" /\ Ask(q)
CreateForProperty(q) == subject = "PROPERTY" /\ HasConfirmedBooking /\ Ask(q)
CreateForTour(q) == subject = "TOUR" /\ HasConfirmedBooking /\ Ask(q)
CreateForExperience(q) == subject = "EXPERIENCE" /\ HasConfirmedBooking /\ Ask(q)
CreateForFlight(q) == subject = "FLIGHT" /\ HasConfirmedBooking /\ Ask(q)

\* findByUserAnd...: a deleted row is found too, a shown one ends the request.
FindExisting(q) ==
    /\ writing[q] = <<"ALLOWED">>
    /\ \/ /\ Written = {}
          /\ writing' = [writing EXCEPT ![q] = <<"INSERT">>]
       \/ \E r \in Written :
            writing' = [writing EXCEPT ![q] =
              IF review[r] = "DELETED" THEN <<"RESTORE", r>> ELSE <<"DONE">>]
    /\ UNCHANGED <<subject, offered, visit, review, stars, earned>>

\* The INSERT, refused by the key of user and subject when a row is there.
InsertReview(q) ==
    /\ writing[q] = <<"INSERT">>
    /\ \/ /\ Written = {}
          /\ review' = [review EXCEPT ![q] = "SHOWN"]
          /\ \E s \in Stars : stars' = [stars EXCEPT ![q] = s]
       \/ Written # {} /\ UNCHANGED <<review, stars>>
    /\ writing' = [writing EXCEPT ![q] = <<"DONE">>]
    /\ UNCHANGED <<subject, offered, visit, earned>>

\* UPDATE by id of the row that was found deleted.
RestoreReview(q, r) ==
    /\ writing[q] = <<"RESTORE", r>>
    /\ review' = [review EXCEPT ![r] = "SHOWN"]
    /\ \E s \in Stars : stars' = [stars EXCEPT ![r] = s]
    /\ writing' = [writing EXCEPT ![q] = <<"DONE">>]
    /\ UNCHANGED <<subject, offered, visit, earned>>

-----------------------------------------------------------------------------
(* update and remove look the row up and write it by id: whoever saw it    *)
(* shown once may still write it now.                                      *)

UpdateReview(r) ==
    /\ r \in Written
    /\ \E s \in Stars : stars' = [stars EXCEPT ![r] = s]
    /\ UNCHANGED <<subject, offered, visit, review, writing, earned>>

RemoveReview(r) ==
    /\ r \in Written
    /\ review' = [review EXCEPT ![r] = "DELETED"]
    /\ UNCHANGED <<subject, offered, visit, stars, writing, earned>>

ReviewNext ==
    \/ VisitBooked \/ VisitConfirmed \/ VisitEnded \/ SubjectWithdrawn
    \/ \E q \in ReviewRequest :
         \/ CreateForDestination(q) \/ CreateForProperty(q) \/ CreateForTour(q)
         \/ CreateForExperience(q) \/ CreateForFlight(q)
         \/ FindExisting(q) \/ InsertReview(q)
         \/ UpdateReview(q) \/ RemoveReview(q)
         \/ \E r \in ReviewRequest : RestoreReview(q, r)

ReviewSpec == ReviewInit /\ [][ReviewNext]_reviewVars

-----------------------------------------------------------------------------
(* Properties.                                                             *)

\* The rows are of their kinds, and a user has one at most, deleted or not.
ReviewTypeOK ==
    /\ visit \in {"NONE", "PENDING_PAYMENT", "CONFIRMED", "EXPIRED", "CANCELLED"}
    /\ review \in [ReviewRequest -> {"NONE", "SHOWN", "DELETED"}]
    /\ stars \in [ReviewRequest -> Stars]
    /\ \A q, r \in Written : q = r

\* "A review of what was bought": whoever has reviewed something that can be booked
\* had a confirmed booking of it, however late the review was written.
ReviewsEarned == subject \in Bookable /\ Written # {} => earned
=============================================================================
