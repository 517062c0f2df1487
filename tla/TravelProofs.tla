---------------------------- MODULE TravelProofs ----------------------------
(***************************************************************************)
(* The parts around the bookings that plan and run the travel: a removed   *)
(* driver drives nothing, a review was earned and is the only one of its   *)
(* author, a message is read by its other side, a flight can be flown, and *)
(* the days and items of a plan stay in order.  Each is proved for the     *)
(* part on its own; PlatformProofs puts them together.                     *)
(***************************************************************************)
EXTENDS Staffing, Fleet, Reviews, Conversations, Trip, FiniteSetTheorems, TLAPS

-----------------------------------------------------------------------------
(* Drivers.                                                                *)

StaffShape ==
    /\ staff \in [Person -> {"ABSENT", "HIRED", "GONE"}]
    /\ driverOf \in [Ride -> Driver \cup {NoOne}]

\* A removal has released the rides before it takes the row away: one whose rides
\* are released is as good as gone.
IdleOnceReleased ==
    \A r \in Ride, d \in Driver \ crossed :
        driverOf[r] = d => Hired(d) /\ d \notin leaving

StaffInv == StaffShape /\ IdleOnceReleased

LEMMA StaffStep == StaffInv /\ [StaffNext]_staffVars => StaffInv'
<1> SUFFICES ASSUME StaffInv, [StaffNext]_staffVars PROVE StaffInv'
  OBVIOUS
<1> USE StaffAssumption DEF StaffInv, StaffShape, IdleOnceReleased, Person, Hired
<1>1. ASSUME NEW g \in Guide, CreateGuide(g) PROVE StaffInv'
  BY <1>1 DEF CreateGuide, Hire
<1>2. ASSUME NEW g \in Guide, UnassignGuideFromAll(g) PROVE StaffInv'
  BY <1>2 DEF UnassignGuideFromAll
<1>3. ASSUME NEW g \in Guide, RemoveGuide(g) PROVE StaffInv'
  BY <1>3 DEF RemoveGuide
<1>4. ASSUME NEW g \in Guide, NEW d \in Departure, AskAssignGuide(d, g) \/ AssignGuide(d, g)
      PROVE StaffInv'
  BY <1>4 DEF AskAssignGuide, AskAssign, AssignGuide
<1>5. ASSUME NEW d \in Departure, ClearGuide(d) PROVE StaffInv'
  BY <1>5 DEF ClearGuide
<1>6. ASSUME NEW d \in Driver, CreateDriver(d) PROVE StaffInv'
  BY <1>6 DEF CreateDriver, Hire
<1>7. ASSUME NEW d \in Driver, ReleaseDriver(d) PROVE StaffInv'
  BY <1>7 DEF ReleaseDriver, Released
<1>8. ASSUME NEW d \in Driver, SoftDeleteDriver(d) PROVE StaffInv'
  BY <1>8 DEF SoftDeleteDriver
<1>9. ASSUME NEW d \in Driver, NEW r \in Ride, AskAssignDriver(r, d) PROVE StaffInv'
  BY <1>9 DEF AskAssignDriver, AskAssign
<1>10. ASSUME NEW d \in Driver, NEW r \in Ride, AssignDriver(r, d) PROVE StaffInv'
  BY <1>10 DEF AssignDriver
<1>11. ASSUME NEW r \in Ride, ClearDriver(r) PROVE StaffInv'
  BY <1>11 DEF ClearDriver
<1>12. CASE UNCHANGED staffVars
  BY <1>12 DEF staffVars
<1> QED
  BY <1>1, <1>2, <1>3, <1>4, <1>5, <1>6, <1>7, <1>8, <1>9, <1>10, <1>11, <1>12 DEF StaffNext

(* DriverService.remove: a driver who was removed drives nothing, for any  *)
(* number of drivers and rides, unless an assignment crossed the removal.  *)
THEOREM NoGhostDriver == StaffSpec => []RemovedDriverIdle
<1>1. StaffInit => StaffInv
  BY StaffAssumption DEF StaffInit, StaffInv, StaffShape, IdleOnceReleased, Person
<1>2. StaffInv => RemovedDriverIdle
  BY DEF StaffInv, IdleOnceReleased, RemovedDriverIdle, Hired
<1> QED
  BY <1>1, <1>2, StaffStep, PTL DEF StaffSpec

LEMMA StaffTypeStep == StaffTypeOK /\ [StaffNext]_staffVars => StaffTypeOK'
<1> SUFFICES ASSUME StaffTypeOK, [StaffNext]_staffVars PROVE StaffTypeOK'
  OBVIOUS
<1> USE StaffAssumption DEF StaffTypeOK, Person, Hired
<1>1. ASSUME NEW g \in Guide, CreateGuide(g) PROVE StaffTypeOK'
  BY <1>1 DEF CreateGuide, Hire
<1>2. ASSUME NEW g \in Guide, UnassignGuideFromAll(g) PROVE StaffTypeOK'
  BY <1>2 DEF UnassignGuideFromAll, Released
<1>3. ASSUME NEW g \in Guide, RemoveGuide(g) PROVE StaffTypeOK'
  BY <1>3 DEF RemoveGuide, Released
<1>4. ASSUME NEW g \in Guide, NEW d \in Departure, AskAssignGuide(d, g) \/ AssignGuide(d, g)
      PROVE StaffTypeOK'
  BY <1>4 DEF AskAssignGuide, AskAssign, AssignGuide
<1>5. ASSUME NEW d \in Departure, ClearGuide(d) PROVE StaffTypeOK'
  BY <1>5 DEF ClearGuide
<1>6. ASSUME NEW d \in Driver, CreateDriver(d) PROVE StaffTypeOK'
  BY <1>6 DEF CreateDriver, Hire
<1>7. ASSUME NEW d \in Driver, ReleaseDriver(d) PROVE StaffTypeOK'
  BY <1>7 DEF ReleaseDriver, Released
<1>8. ASSUME NEW d \in Driver, SoftDeleteDriver(d) PROVE StaffTypeOK'
  BY <1>8 DEF SoftDeleteDriver
<1>9. ASSUME NEW d \in Driver, NEW r \in Ride, AskAssignDriver(r, d) PROVE StaffTypeOK'
  BY <1>9 DEF AskAssignDriver, AskAssign
<1>10. ASSUME NEW d \in Driver, NEW r \in Ride, AssignDriver(r, d) PROVE StaffTypeOK'
  BY <1>10 DEF AssignDriver
<1>11. ASSUME NEW r \in Ride, ClearDriver(r) PROVE StaffTypeOK'
  BY <1>11 DEF ClearDriver
<1>12. CASE UNCHANGED staffVars
  BY <1>12 DEF staffVars
<1> QED
  BY <1>1, <1>2, <1>3, <1>4, <1>5, <1>6, <1>7, <1>8, <1>9, <1>10, <1>11, <1>12 DEF StaffNext

\* Who is hired, assigned and driving is of its kind, for any guides, drivers and departures.
THEOREM StaffTypeCorrect == StaffSpec => []StaffTypeOK
<1>1. StaffInit => StaffTypeOK
  BY StaffAssumption DEF StaffInit, StaffTypeOK, Person, Hired
<1> QED
  BY <1>1, StaffTypeStep, PTL DEF StaffSpec

-----------------------------------------------------------------------------
(* Reviews.                                                                *)

\* Before there was a confirmed booking no request got past its first check.
NothingUnearned ==
    /\ visit = "CONFIRMED" => earned
    /\ subject \in Bookable /\ ~earned =>
         \A q \in ReviewRequest : review[q] = "NONE" /\ writing[q] = <<"NEW">>

ReviewInv ==
    /\ subject \in Bookable \cup {"DESTINATION"}
    /\ earned \in BOOLEAN
    /\ review \in [ReviewRequest -> {"NONE", "SHOWN", "DELETED"}]
    /\ writing = [q \in ReviewRequest |-> writing[q]]
    /\ NothingUnearned

LEMMA ReviewStep == ReviewInv /\ [ReviewNext]_reviewVars => ReviewInv'
<1> SUFFICES ASSUME ReviewInv, [ReviewNext]_reviewVars PROVE ReviewInv'
  OBVIOUS
<1> USE DEF ReviewInv, NothingUnearned, Bookable
<1>1. CASE VisitBooked \/ VisitConfirmed \/ VisitEnded
  BY <1>1 DEF VisitBooked, VisitConfirmed, VisitEnded, MoveVisit
<1>2. CASE SubjectWithdrawn
  BY <1>2 DEF SubjectWithdrawn
<1>3. ASSUME NEW q \in ReviewRequest,
             \/ CreateForDestination(q) \/ CreateForProperty(q) \/ CreateForTour(q)
             \/ CreateForExperience(q) \/ CreateForFlight(q)
      PROVE  ReviewInv'
  <2>1. Ask(q) /\ (subject = "DESTINATION" \/ visit = "CONFIRMED")
    BY <1>3 DEF CreateForDestination, CreateForProperty, CreateForTour,
                CreateForExperience, CreateForFlight, HasConfirmedBooking
  <2> QED
    BY <2>1 DEF Ask
<1>4. ASSUME NEW q \in ReviewRequest, FindExisting(q) PROVE ReviewInv'
  <2>1. subject \in Bookable => earned
    <3>1. writing[q] = <<"ALLOWED">> /\ <<"ALLOWED">> # <<"NEW">>
      BY <1>4 DEF FindExisting
    <3> QED
      BY <3>1
  <2>2. \E v : writing' = [writing EXCEPT ![q] = v]
    BY <1>4 DEF FindExisting
  <2> QED
    BY <1>4, <2>1, <2>2 DEF FindExisting
<1>5. ASSUME NEW q \in ReviewRequest, InsertReview(q) PROVE ReviewInv'
  <2>1. subject \in Bookable => earned
    <3>1. writing[q] = <<"INSERT">> /\ <<"INSERT">> # <<"NEW">>
      BY <1>5 DEF InsertReview
    <3> QED
      BY <3>1
  <2> QED
    BY <1>5, <2>1 DEF InsertReview
<1>6. ASSUME NEW q \in ReviewRequest, NEW r \in ReviewRequest, RestoreReview(q, r)
      PROVE  ReviewInv'
  <2>1. subject \in Bookable => earned
    <3>1. writing[q] = <<"RESTORE", r>> /\ <<"RESTORE", r>> # <<"NEW">>
      BY <1>6 DEF RestoreReview
    <3> QED
      BY <3>1
  <2> QED
    BY <1>6, <2>1 DEF RestoreReview
<1>7. ASSUME NEW r \in ReviewRequest, UpdateReview(r) \/ RemoveReview(r) PROVE ReviewInv'
  <2>1. subject \in Bookable => earned
    BY <1>7 DEF UpdateReview, RemoveReview, Written
  <2> QED
    BY <1>7, <2>1 DEF UpdateReview, RemoveReview
<1>8. CASE UNCHANGED reviewVars
  BY <1>8 DEF reviewVars
<1> QED
  BY <1>1, <1>2, <1>3, <1>4, <1>5, <1>6, <1>7, <1>8 DEF ReviewNext

(* ReviewService.create: whoever has reviewed something that can be booked *)
(* had a confirmed booking of it, for any number of requests at once.      *)
THEOREM EveryReviewEarned == ReviewSpec => []ReviewsEarned
<1>1. ReviewInit => ReviewInv
  BY DEF ReviewInit, ReviewInv, NothingUnearned, Bookable
<1>2. ReviewInv => ReviewsEarned
  BY DEF ReviewInv, NothingUnearned, ReviewsEarned, Written
<1> QED
  BY <1>1, <1>2, ReviewStep, PTL DEF ReviewSpec

\* A review that is to come back has been written.
ReviewRows ==
    /\ ReviewTypeOK
    /\ writing = [q \in ReviewRequest |-> writing[q]]
    /\ \A q, r \in ReviewRequest : writing[q] = <<"RESTORE", r>> => r \in Written

LEMMA ReviewRowsStep == ReviewRows /\ [ReviewNext]_reviewVars => ReviewRows'
<1> SUFFICES ASSUME ReviewRows, [ReviewNext]_reviewVars PROVE ReviewRows'
  OBVIOUS
<1> USE DEF ReviewRows, ReviewTypeOK, Written, Stars
<1>1. CASE VisitBooked \/ VisitConfirmed \/ VisitEnded
  BY <1>1 DEF VisitBooked, VisitConfirmed, VisitEnded, MoveVisit
<1>2. CASE SubjectWithdrawn
  BY <1>2 DEF SubjectWithdrawn
<1>3. ASSUME NEW q \in ReviewRequest, Ask(q)
      PROVE  ReviewRows'
  BY <1>3 DEF Ask
<1>4. ASSUME NEW q \in ReviewRequest, FindExisting(q) PROVE ReviewRows'
  <2>1. CASE /\ Written = {}
             /\ writing' = [writing EXCEPT ![q] = <<"INSERT">>]
    BY <1>4, <2>1 DEF FindExisting
  <2>2. ASSUME NEW r \in Written,
               writing' = [writing EXCEPT ![q] =
                  IF review[r] = "DELETED" THEN <<"RESTORE", r>> ELSE <<"DONE">>]
        PROVE  ReviewRows'
    BY <1>4, <2>2 DEF FindExisting
  <2> QED
    BY <1>4, <2>1, <2>2 DEF FindExisting
<1>5. ASSUME NEW q \in ReviewRequest, InsertReview(q) PROVE ReviewRows'
  BY <1>5 DEF InsertReview
<1>6. ASSUME NEW q \in ReviewRequest, NEW r \in ReviewRequest, RestoreReview(q, r)
      PROVE  ReviewRows'
  BY <1>6 DEF RestoreReview
<1>7. ASSUME NEW r \in ReviewRequest, UpdateReview(r) \/ RemoveReview(r) PROVE ReviewRows'
  BY <1>7 DEF UpdateReview, RemoveReview
<1>8. CASE UNCHANGED reviewVars
  BY <1>8 DEF reviewVars
<1> QED
  BY <1>1, <1>2, <1>3, <1>4, <1>5, <1>6, <1>7, <1>8
  DEF ReviewNext, CreateForDestination, CreateForProperty, CreateForTour, CreateForExperience,
      CreateForFlight

\* A user has one review of a subject, whatever requests overlap (the unique key the
\* repository restores a deleted review by).
THEOREM OneReviewEach == ReviewSpec => []ReviewTypeOK
<1>1. ReviewInit => ReviewRows
  BY DEF ReviewInit, ReviewRows, ReviewTypeOK, Written, Stars
<1>2. ReviewRows => ReviewTypeOK
  BY DEF ReviewRows
<1> QED
  BY <1>1, <1>2, ReviewRowsStep, PTL DEF ReviewSpec

-----------------------------------------------------------------------------
(* Conversations.                                                          *)

Opposite(u) == IF Side(u) = "traveler" THEN "provider" ELSE "traveler"

\* isRead and openedSince say the same of a message that is there, and nothing of one
\* that is not; a message on its way to the table is not in it.
ReadExactly ==
    \A m \in Message :
        /\ sending[m] # Nobody => sender[m] = Nobody
        /\ sender[m] = Nobody => m \notin isRead /\ openedSince[m] = {}
        /\ sender[m] # Nobody => (m \in isRead <=> Opposite(sender[m]) \in openedSince[m])

ConversationInv ==
    /\ sender \in [Message -> User \cup {Nobody}]
    /\ sending \in [Message -> User \cup {Nobody}]
    /\ openedSince \in [Message -> SUBSET {"traveler", "provider"}]
    /\ ReadExactly

LEMMA ConversationStep ==
    ConversationInv /\ [ConversationNext]_conversationVars => ConversationInv'
<1> SUFFICES ASSUME ConversationInv, [ConversationNext]_conversationVars
             PROVE  ConversationInv'
  OBVIOUS
<1> USE ConversationAssumption
    DEF ConversationInv, ReadExactly, User, Nobody, Traveler, Opposite, Side
<1>1. CASE MembershipChanges
  BY <1>1 DEF MembershipChanges
<1>2. ASSUME NEW m \in Message, StartConversation(m) PROVE ConversationInv'
  BY <1>2 DEF StartConversation
<1>3. ASSUME NEW m \in Message, AppendMessage(m) PROVE ConversationInv'
  BY <1>3 DEF AppendMessage
<1>4. ASSUME NEW m \in Message, NEW u \in User, SendMessage(u, m) PROVE ConversationInv'
  BY <1>4 DEF SendMessage
<1>5. ASSUME NEW u \in User, MarkAsRead(u) PROVE ConversationInv'
  BY <1>5 DEF MarkAsRead
<1>6. ASSUME NEW u \in User, MarkMessages(u) PROVE ConversationInv'
  <2>1. /\ UNCHANGED <<sender, sending>>
        /\ openedSince' = [m \in Message |->
              IF m \in Sent THEN openedSince[m] \cup {Side(u)} ELSE {}]
    BY <1>6 DEF MarkMessages
  <2>2. ASSUME NEW m \in Message, sender[m] # Nobody
        PROVE  m \in isRead' <=> Opposite(sender[m]) \in openedSince'[m]
    BY <1>6, <2>1, <2>2 DEF MarkMessages, MarkedByTraveler, MarkedByProvider, Sent
  <2>3. ASSUME NEW m \in Message, sender[m] = Nobody
        PROVE  m \notin isRead' /\ openedSince'[m] = {}
    BY <1>6, <2>1, <2>3 DEF MarkMessages, MarkedByTraveler, MarkedByProvider, Sent
  <2> QED
    BY <2>1, <2>2, <2>3
<1>7. CASE UNCHANGED conversationVars
  BY <1>7 DEF conversationVars
<1> QED
  BY <1>1, <1>2, <1>3, <1>4, <1>5, <1>6, <1>7 DEF ConversationNext

(* markAsRead: a message is read exactly since somebody of its other side  *)
(* opened the thread, for any number of members and messages.              *)
THEOREM OnlyTheOtherSideReads == ConversationSpec => []ReadByTheOtherSide
<1>1. ConversationInit => ConversationInv
  BY DEF ConversationInit, ConversationInv, ReadExactly, User, Nobody
<1>2. ConversationInv => ReadByTheOtherSide
  BY ConversationAssumption
     DEF ConversationInv, ReadExactly, ReadByTheOtherSide, UnreadByTraveler, UnreadByProvider,
         Sent, Side, Opposite, User, Nobody, Traveler
<1> QED
  BY <1>1, <1>2, ConversationStep, PTL DEF ConversationSpec

LEMMA ConversationTypeStep ==
    ConversationTypeOK /\ [ConversationNext]_conversationVars => ConversationTypeOK'
<1> SUFFICES ASSUME ConversationTypeOK, [ConversationNext]_conversationVars
             PROVE  ConversationTypeOK'
  OBVIOUS
<1> USE ConversationAssumption DEF ConversationTypeOK, User, Nobody, Traveler, Sent
<1>1. CASE MembershipChanges
  BY <1>1 DEF MembershipChanges
<1>2. ASSUME NEW m \in Message, StartConversation(m) PROVE ConversationTypeOK'
  BY <1>2 DEF StartConversation
<1>3. ASSUME NEW m \in Message, AppendMessage(m) PROVE ConversationTypeOK'
  BY <1>3 DEF AppendMessage
<1>4. ASSUME NEW m \in Message, NEW u \in User, SendMessage(u, m) PROVE ConversationTypeOK'
  BY <1>4 DEF SendMessage
<1>5. ASSUME NEW u \in User, MarkAsRead(u) PROVE ConversationTypeOK'
  BY <1>5 DEF MarkAsRead
<1>6. ASSUME NEW u \in User, MarkMessages(u) PROVE ConversationTypeOK'
  BY <1>6 DEF MarkMessages, MarkedByTraveler, MarkedByProvider
<1>7. CASE UNCHANGED conversationVars
  BY <1>7 DEF conversationVars
<1> QED
  BY <1>1, <1>2, <1>3, <1>4, <1>5, <1>6, <1>7 DEF ConversationNext

\* What a conversation keeps is of its kind, for any members and messages.
THEOREM ConversationTypeCorrect == ConversationSpec => []ConversationTypeOK
<1>1. ConversationInit => ConversationTypeOK
  BY DEF ConversationInit, ConversationTypeOK, User, Nobody, Sent
<1> QED
  BY <1>1, ConversationTypeStep, PTL DEF ConversationSpec

-----------------------------------------------------------------------------
(* Flights.                                                                *)

\* What the checks of an edit have established about the flight it read.
Checked(d) ==
    /\ d.by # Keep => d.by \in everFit
    /\ CASE d.kind = "CREATE" ->
              d.from \in Airport /\ d.to \in Airport /\ d.by \in Aircraft /\ d.from # d.to
         [] d.kind = "UPDATE" ->
              /\ d.from \in Airport \cup {Keep} /\ d.to \in Airport \cup {Keep}
              /\ d.by \in Aircraft \cup {Keep}
              /\ d.from # Keep \/ d.to # Keep =>
                   (IF d.from = Keep THEN d.read.from ELSE d.from)
                     # (IF d.to = Keep THEN d.read.to ELSE d.to)
         [] OTHER -> FALSE

FleetInv ==
    /\ fit \in [Aircraft -> {"PENDING", "APPROVED", "REJECTED"}]
    /\ \A a \in Aircraft : fit[a] = "APPROVED" => a \in everFit
    /\ outdated \in BOOLEAN
    /\ flight # "ABSENT" => leg \in Legs
    /\ drafting = [e \in FlightEdit |-> drafting[e]]
    /\ \A e \in FlightEdit : drafting[e].kind # "NONE" => Checked(drafting[e])
    /\ \A e \in FlightEdit : drafting[e].kind = "UPDATE" => flight # "ABSENT"
    /\ FlightsFlyable

LEMMA FleetStep == FleetInv /\ [FleetNext]_fleetVars => FleetInv'
<1> SUFFICES ASSUME FleetInv, [FleetNext]_fleetVars PROVE FleetInv'
  OBVIOUS
<1> USE FleetAssumption DEF FleetInv, FlightsFlyable
<1>1. ASSUME NEW s \in {"APPROVED", "REJECTED"}, ReviewFlight(s) PROVE FleetInv'
  BY <1>1 DEF ReviewFlight, Checked
<1>2. ASSUME NEW s \in {"APPROVED", "REJECTED"}, NEW a \in Aircraft, JudgeAircraft(a, s)
      PROVE  FleetInv'
  <2>1. everFit \subseteq everFit' /\ UNCHANGED <<flight, leg, drafting, outdated>>
    BY <1>2 DEF JudgeAircraft
  <2>2. \A d : Checked(d) => Checked(d)'
    BY <2>1 DEF Checked
  <2>3. /\ fit' \in [Aircraft -> {"PENDING", "APPROVED", "REJECTED"}]
        /\ \A b \in Aircraft : fit'[b] = "APPROVED" => b \in everFit'
    BY <1>2 DEF JudgeAircraft
  <2> QED
    BY <2>1, <2>2, <2>3 DEF Checked
<1>3. CASE RemoveFlight
  BY <1>3 DEF RemoveFlight, Checked
<1>4. ASSUME NEW e \in FlightEdit, CreateFlight(e) PROVE FleetInv'
  BY <1>4 DEF CreateFlight, Checked, Legs, NoDraft, Keep
<1>5. ASSUME NEW e \in FlightEdit, UpdateFlight(e) PROVE FleetInv'
  BY <1>5 DEF UpdateFlight, Checked, Legs, NoDraft, Keep
<1>6. ASSUME NEW e \in FlightEdit, NEW from \in Airport, NEW to \in Airport,
             NEW a \in Aircraft, AskFlight(e, from, to, a)
      PROVE  FleetInv'
  BY <1>6 DEF AskFlight, AssertApprovedAircraft, AssertDistinctAirports, Checked, Keep
<1>7. ASSUME NEW e \in FlightEdit, NEW from \in Airport \cup {Keep},
             NEW to \in Airport \cup {Keep}, NEW a \in Aircraft \cup {Keep},
             AskUpdate(e, from, to, a)
      PROVE  FleetInv'
  BY <1>7 DEF AskUpdate, AssertApprovedAircraft, AssertDistinctAirports, Checked, Keep
<1>8. CASE UNCHANGED fleetVars
  BY <1>8 DEF fleetVars, Checked
<1> QED
  BY <1>1, <1>2, <1>3, <1>4, <1>5, <1>6, <1>7, <1>8 DEF FleetNext

LEMMA FleetInitInv == FleetInit => FleetInv
<1> SUFFICES ASSUME FleetInit PROVE FleetInv
  OBVIOUS
<1>1. \A e \in FlightEdit : drafting[e].kind = "NONE"
  BY DEF FleetInit, NoDraft
<1>2. drafting = [e \in FlightEdit |-> drafting[e]]
  BY DEF FleetInit
<1> QED
  BY <1>1, <1>2 DEF FleetInit, FleetInv, FlightsFlyable

(* FlightService.create and update: a flight joins two different airports  *)
(* with an aircraft that was approved, for any edits in any order, unless  *)
(* one of them had compared airports that were replaced since.             *)
THEOREM FlightsStayFlyable == FleetSpec => []FlightsFlyable
<1>1. FleetInv => FlightsFlyable
  BY DEF FleetInv
<1> QED
  BY <1>1, FleetInitInv, FleetStep, PTL DEF FleetSpec

LEMMA FleetTypeStep == FleetInv /\ FleetTypeOK /\ [FleetNext]_fleetVars => FleetTypeOK'
<1> SUFFICES ASSUME FleetInv, FleetTypeOK, [FleetNext]_fleetVars PROVE FleetTypeOK'
  OBVIOUS
<1> USE FleetAssumption DEF FleetTypeOK, NoLeg, Legs
<1>1. ASSUME NEW s \in {"APPROVED", "REJECTED"}, ReviewFlight(s) PROVE FleetTypeOK'
  BY <1>1 DEF ReviewFlight
<1>2. ASSUME NEW s \in {"APPROVED", "REJECTED"}, NEW a \in Aircraft, JudgeAircraft(a, s)
      PROVE  FleetTypeOK'
  BY <1>2 DEF JudgeAircraft
<1>3. CASE RemoveFlight
  BY <1>3 DEF RemoveFlight
<1>4. ASSUME NEW e \in FlightEdit PROVE drafting[e].kind # "NONE" => Checked(drafting[e])
  BY DEF FleetInv
<1>5. ASSUME NEW e \in FlightEdit, NEW d, d.kind \in {"NONE", "CREATE", "UPDATE"},
             drafting' = [drafting EXCEPT ![e] = d]
      PROVE  \A f \in FlightEdit : drafting'[f].kind \in {"NONE", "CREATE", "UPDATE"}
  BY <1>5 DEF FleetInv
<1>6. NoDraft.kind = "NONE"
  BY DEF NoDraft
<1>7. ASSUME NEW e \in FlightEdit, CreateFlight(e) PROVE FleetTypeOK'
  <2>1. Checked(drafting[e]) /\ drafting[e].kind = "CREATE"
    BY <1>4, <1>7 DEF CreateFlight
  <2>2. leg' \in Legs /\ flight' = "PENDING"
    BY <1>7, <2>1 DEF CreateFlight, Checked
  <2>3. leg' # NoLeg
    BY <2>2
  <2>4. \A f \in FlightEdit : drafting'[f].kind \in {"NONE", "CREATE", "UPDATE"}
    BY <1>5, <1>6, <1>7 DEF CreateFlight
  <2> QED
    BY <1>7, <2>2, <2>3, <2>4 DEF CreateFlight
<1>8. ASSUME NEW e \in FlightEdit, UpdateFlight(e) PROVE FleetTypeOK'
  <2>1. Checked(drafting[e]) /\ drafting[e].kind = "UPDATE" /\ flight # "ABSENT" /\ leg \in Legs
    BY <1>4, <1>8 DEF UpdateFlight, FleetInv
  <2>2. leg' \in Legs /\ flight' = flight
    BY <1>8, <2>1 DEF UpdateFlight, Checked, Keep
  <2>3. leg' # NoLeg
    BY <2>2
  <2>4. \A f \in FlightEdit : drafting'[f].kind \in {"NONE", "CREATE", "UPDATE"}
    BY <1>5, <1>6, <1>8 DEF UpdateFlight
  <2> QED
    BY <1>8, <2>1, <2>2, <2>3, <2>4 DEF UpdateFlight
<1>9. ASSUME NEW e \in FlightEdit, NEW from, NEW to, NEW a, AskFlight(e, from, to, a)
      PROVE  FleetTypeOK'
  BY <1>5, <1>9 DEF AskFlight
<1>10. ASSUME NEW e \in FlightEdit, NEW from, NEW to, NEW a, AskUpdate(e, from, to, a)
       PROVE  FleetTypeOK'
  BY <1>5, <1>10 DEF AskUpdate
<1>11. CASE UNCHANGED fleetVars
  BY <1>11 DEF fleetVars
<1> QED
  BY <1>1, <1>2, <1>3, <1>7, <1>8, <1>9, <1>10, <1>11 DEF FleetNext

\* Flights, aircraft and their drafts are of their kinds, for any airports and aircraft.
THEOREM FleetTypeCorrect == FleetSpec => []FleetTypeOK
<1>1. FleetInit => FleetTypeOK
  BY DEF FleetInit, FleetTypeOK, NoDraft, NoLeg
<1> QED
  BY <1>1, FleetInitInv, FleetStep, FleetTypeStep, PTL DEF FleetSpec

-----------------------------------------------------------------------------
(* Trips and itineraries.                                                  *)

\* A finite set of numbers has a largest one.
LEMMA MaxExists ==
    ASSUME NEW S \in SUBSET Nat, IsFiniteSet(S), S # {}
    PROVE  Max(S) \in S /\ \A x \in S : x <= Max(S)
<1> DEFINE Topped(T) == \E x \in T : \A y \in T : x >= y
           Sizes == {n \in Nat : \E T \in SUBSET S : T # {} /\ ~Topped(T) /\ Cardinality(T) = n}
<1>1. Sizes = {}
  <2> SUFFICES ASSUME Sizes # {} PROVE FALSE
    OBVIOUS
  <2>1. PICK n \in Sizes : \A m \in Sizes : ~(m < n)
    <3>1. \E n \in Sizes : \A m \in Sizes : <<m, n>> \notin OpToRel(<, Nat)
      <4> HIDE DEF Sizes
      <4>1. Sizes \subseteq Nat
        BY DEF Sizes
      <4> QED
        BY <4>1, NatLessThanWellFounded, WFMin
    <3> QED
      BY <3>1 DEF OpToRel
  <2>2. PICK T \in SUBSET S : T # {} /\ ~Topped(T) /\ Cardinality(T) = n
    OBVIOUS
  <2>3. PICK x \in T : TRUE
    BY <2>2
  <2>4. IsFiniteSet(T) /\ IsFiniteSet(T \ {x}) /\ Cardinality(T \ {x}) = n - 1
        /\ Cardinality(T \ {x}) \in Nat
    <3>1. IsFiniteSet(T)
      BY FS_Subset
    <3>2. IsFiniteSet(T \ {x}) /\ Cardinality(T \ {x}) = Cardinality(T) - 1
      BY <3>1, FS_RemoveElement
    <3>3. Cardinality(T \ {x}) \in Nat
      BY <3>2, FS_CardinalityType
    <3> QED
      BY <2>2, <3>1, <3>2, <3>3
  <2>5. T \ {x} # {}
    <3> SUFFICES ASSUME T = {x} PROVE FALSE
      OBVIOUS
    <3> QED
      BY <2>2
  <2>6. Topped(T \ {x})
    <3> SUFFICES ASSUME ~Topped(T \ {x}) PROVE FALSE
      OBVIOUS
    <3>1. T \ {x} \in SUBSET S
      OBVIOUS
    <3>2. n - 1 \in Sizes
      BY <2>4, <2>5, <3>1
    <3> QED
      BY <2>1, <3>2
  <2>7. PICK m \in T \ {x} : \A y \in T \ {x} : m >= y
    BY <2>6
  <2>8. m \in Nat /\ x \in Nat
    OBVIOUS
  <2>9. \A y \in T : y \in Nat
    OBVIOUS
  <2> QED
    <3>1. CASE m >= x
      BY <2>2, <2>7, <3>1
    <3>2. CASE x >= m
      BY <2>2, <2>7, <2>8, <2>9, <3>2
    <3> QED
      BY <2>8, <3>1, <3>2
<1>2. Cardinality(S) \in Nat
  BY FS_CardinalityType
<1>3. Topped(S)
  BY <1>1, <1>2
<1> QED
  BY <1>3 DEF Max

\* What a function makes of a finite set is finite.
LEMMA ImageFinite ==
    ASSUME NEW S, IsFiniteSet(S), NEW f
    PROVE  IsFiniteSet({f[x] : x \in S})
<1> DEFINE T == {f[x] : x \in S}
           g == [x \in S |-> f[x]]
<1>1. g \in Surjection(S, T)
  BY DEF Surjection
<1> QED
  BY <1>1, FS_Surjection

\* The kinds of what a plan keeps.
PlanShape ==
    /\ dayNumber \in [TripDay -> Nat] /\ numbering \in [TripDay -> Nat]
    /\ place \in [TripItem -> Places] /\ placing \in [TripItem -> Places]
    /\ moving \in [TripDay -> Seq(TripItem)]

Placed(i) == place[i] # Nowhere

\* An id is spent once: a day that was removed, and an item, do not come back.
IdsSpent ==
    /\ \A d \in TripDay : (dayNumber[d] # 0 => d \in spent) /\ (numbering[d] # 0 => d \notin spent)
    /\ \A i \in TripItem : (Placed(i) => i \in spent) /\ (placing[i] # Nowhere => i \notin spent)
    /\ \A d \in TripDay : \A k \in DOMAIN moving[d] :
         LET i == moving[d][k] IN i \in spent /\ (Placed(i) => place[i].day = d)

\* No two days have the same number, and an item is in a day that is there.
DaysThere ==
    /\ \A d, e \in TripDay : dayNumber[d] = dayNumber[e] /\ dayNumber[d] # 0 => d = e
    /\ \A i \in TripItem : Placed(i) => dayNumber[place[i].day] # 0

\* While no day was removed, a number under way is at most the one after the last.
DaysFilled ==
    ~removed => \E n \in Nat :
      /\ \A d \in TripDay : dayNumber[d] <= n /\ numbering[d] <= n + 1
      /\ \A k \in 1..n : \E d \in TripDay : dayNumber[d] = k

\* The place of an item under way is behind all of its day, or the item is late.
BehindAll ==
    \A i, j \in TripItem :
      placing[i] # Nowhere /\ i \notin late /\ Placed(j) /\ place[j].day = placing[i].day
        => place[j].order < placing[i].order

PlanInv ==
    /\ PlanShape /\ IdsSpent /\ DaysThere /\ DaysFilled /\ BehindAll /\ PositionsDistinct

LEMMA PlanInitInv == PlanInit => PlanInv
<1> SUFFICES ASSUME PlanInit PROVE PlanInv
  OBVIOUS
<1> USE DEF PlanInit
<1>1. PlanShape
  BY DEF PlanShape, Places
<1>2. IdsSpent
  BY DEF IdsSpent, Placed
<1>3. DaysThere /\ BehindAll /\ PositionsDistinct
  BY DEF DaysThere, BehindAll, PositionsDistinct, Placed
<1>4. DaysFilled
  <2>1. /\ 0 \in Nat /\ \A d \in TripDay : dayNumber[d] <= 0 /\ numbering[d] <= 0 + 1
        /\ \A k \in 1..0 : \E d \in TripDay : dayNumber[d] = k
    OBVIOUS
  <2> QED
    BY <2>1 DEF DaysFilled
<1> QED
  BY <1>1, <1>2, <1>3, <1>4 DEF PlanInv

\* The next number is one more than the largest, and so is the next order.
LEMMA NextNumber ==
    ASSUME PlanInv
    PROVE  /\ NextDayNumber \in Nat \ {0}
           /\ \A d \in TripDay : dayNumber[d] < NextDayNumber
           /\ NextDayNumber = 1 \/ \E d \in TripDay : dayNumber[d] + 1 = NextDayNumber
<1> DEFINE S == {0} \cup {dayNumber[d] : d \in TripDay}
<1>1. S \in SUBSET Nat
  BY DEF PlanInv, PlanShape
<1>2. IsFiniteSet(S)
  <2>1. IsFiniteSet(TripDay)
    BY PlanAssumption, FS_Subset
  <2>2. IsFiniteSet({dayNumber[d] : d \in TripDay})
    BY <2>1, ImageFinite
  <2> QED
    BY <2>2, FS_Union, FS_Singleton
<1>3. Max(S) \in S /\ \A x \in S : x <= Max(S)
  BY <1>1, <1>2, MaxExists
<1>4. \A d \in TripDay : dayNumber[d] \in S
  OBVIOUS
<1> HIDE DEF S
<1>5. Max(S) \in Nat /\ \A d \in TripDay : dayNumber[d] \in Nat /\ dayNumber[d] <= Max(S)
  BY <1>1, <1>3, <1>4
<1>6. Max(S) = 0 \/ \E d \in TripDay : dayNumber[d] = Max(S)
  BY <1>3 DEF S
<1>7. NextDayNumber = Max(S) + 1
  BY DEF NextDayNumber, S
<1> QED
  BY <1>5, <1>6, <1>7

\* The next order of a day is behind those of all its items.
LEMMA NextOrder ==
    ASSUME PlanInv, NEW d \in TripDay
    PROVE  /\ NextSortOrder(d) \in Nat \ {0}
           /\ \A i \in ItemsOf(d) : place[i].order < NextSortOrder(d)
<1> DEFINE order == [i \in TripItem |-> place[i].order]
           S == {0} \cup {order[i] : i \in ItemsOf(d)}
<1>1. \A i \in TripItem : order[i] = place[i].order /\ place[i].order \in Nat
  BY DEF PlanInv, PlanShape, Places, Nowhere
<1>2. ItemsOf(d) \subseteq TripItem
  BY DEF ItemsOf
<1>3. S \in SUBSET Nat
  <2> HIDE DEF order
  <2> QED
    BY <1>1, <1>2
<1>4. IsFiniteSet(S)
  <2>1. IsFiniteSet(ItemsOf(d))
    BY <1>2, PlanAssumption, FS_Subset
  <2>2. IsFiniteSet({order[i] : i \in ItemsOf(d)})
    <3> HIDE DEF order
    <3> QED
      BY <2>1, ImageFinite
  <2> QED
    BY <2>2, FS_Union, FS_Singleton
<1>5. Max(S) \in S /\ \A x \in S : x <= Max(S)
  BY <1>3, <1>4, MaxExists
<1>6. S = {0} \cup {place[i].order : i \in ItemsOf(d)}
  BY <1>1, <1>2
<1>7. \A i \in ItemsOf(d) : place[i].order \in S
  BY <1>6
<1> HIDE DEF S
<1>8. Max(S) \in Nat /\ \A i \in ItemsOf(d) : place[i].order \in Nat /\ place[i].order <= Max(S)
  BY <1>1, <1>2, <1>3, <1>5, <1>7
<1>9. NextSortOrder(d) = Max(S) + 1
  BY <1>6 DEF NextSortOrder
<1> QED
  BY <1>8, <1>9

\* The positions a reorder writes are those of the list, and differ.
LEMMA LastIndexes ==
    ASSUME NEW ids \in Seq(TripItem), NEW i \in Listed(ids)
    PROVE  LastIndex(ids, i) \in DOMAIN ids /\ ids[LastIndex(ids, i)] = i
           /\ LastIndex(ids, i) \in Nat \ {0}
<1> DEFINE S == {k \in DOMAIN ids : ids[k] = i}
<1>1. S \in SUBSET Nat /\ S # {} /\ S \subseteq 1..Len(ids)
  BY DEF Listed
<1>2. IsFiniteSet(S)
  BY <1>1, FS_Interval, FS_Subset
<1>3. Max(S) \in S
  BY <1>1, <1>2, MaxExists
<1> QED
  BY <1>3 DEF LastIndex

LEMMA AddDayInv ==
    ASSUME PlanInv, NEW d \in TripDay, AskAddDay(d) PROVE PlanInv'
<1>1. /\ numbering' = [numbering EXCEPT ![d] = NextDayNumber] /\ d \notin spent
      /\ UNCHANGED <<plan, planOpen, dayNumber, spent, place, placing, moving, removed, late, muddled>>
  BY DEF AskAddDay
<1>2. /\ NextDayNumber \in Nat \ {0}
      /\ NextDayNumber = 1 \/ \E e \in TripDay : dayNumber[e] + 1 = NextDayNumber
  BY NextNumber
<1>3. PlanShape' /\ \A e \in TripDay : numbering'[e] = IF e = d THEN NextDayNumber ELSE numbering[e]
  BY <1>1, <1>2 DEF PlanInv, PlanShape
<1>4. IdsSpent'
  BY <1>1, <1>3 DEF PlanInv, IdsSpent, Placed
<1>5. DaysThere' /\ BehindAll' /\ PositionsDistinct'
  BY <1>1 DEF PlanInv, DaysThere, BehindAll, PositionsDistinct, Placed
<1>6. DaysFilled'
  <2> SUFFICES ASSUME ~removed
               PROVE  \E n \in Nat :
                        /\ \A e \in TripDay : dayNumber[e] <= n /\ numbering'[e] <= n + 1
                        /\ \A k \in 1..n : \E e \in TripDay : dayNumber[e] = k
    BY <1>1 DEF DaysFilled
  <2>1. PICK n \in Nat : /\ \A e \in TripDay : dayNumber[e] <= n /\ numbering[e] <= n + 1
                         /\ \A k \in 1..n : \E e \in TripDay : dayNumber[e] = k
    BY DEF PlanInv, DaysFilled
  <2>2. \A e \in TripDay : dayNumber[e] \in Nat
    BY DEF PlanInv, PlanShape
  <2>3. NextDayNumber <= n + 1
    BY <1>2, <2>1, <2>2
  <2> QED
    BY <1>3, <2>1, <2>3
<1> QED
  BY <1>3, <1>4, <1>5, <1>6 DEF PlanInv

LEMMA CreateDayInv ==
    ASSUME PlanInv, NEW d \in TripDay, CreateDay(d) PROVE PlanInv'
<1>1. /\ numbering[d] # 0 /\ numbering' = [numbering EXCEPT ![d] = 0]
      /\ UNCHANGED <<plan, planOpen, place, placing, moving, removed, late, muddled>>
      /\ \/ /\ \A e \in TripDay : dayNumber[e] # numbering[d]
            /\ dayNumber' = [dayNumber EXCEPT ![d] = numbering[d]]
            /\ spent' = spent \cup {d}
         \/ UNCHANGED <<dayNumber, spent>>
  BY DEF CreateDay
<1>2. PlanShape' /\ \A e \in TripDay : numbering'[e] = IF e = d THEN 0 ELSE numbering[e]
  BY <1>1 DEF PlanInv, PlanShape
<1>3. d \notin spent /\ dayNumber[d] = 0
  BY <1>1 DEF PlanInv, IdsSpent
<1>4. BehindAll' /\ PositionsDistinct'
  BY <1>1 DEF PlanInv, BehindAll, PositionsDistinct, Placed
<1>5. CASE UNCHANGED <<dayNumber, spent>>
  <2>1. IdsSpent' /\ DaysThere'
    BY <1>1, <1>2, <1>5 DEF PlanInv, IdsSpent, DaysThere, Placed
  <2>2. DaysFilled'
    <3> SUFFICES ASSUME ~removed
                 PROVE  \E n \in Nat :
                          /\ \A e \in TripDay : dayNumber[e] <= n /\ numbering'[e] <= n + 1
                          /\ \A k \in 1..n : \E e \in TripDay : dayNumber[e] = k
      BY <1>1, <1>5 DEF DaysFilled
    <3>1. PICK n \in Nat : /\ \A e \in TripDay : dayNumber[e] <= n /\ numbering[e] <= n + 1
                           /\ \A k \in 1..n : \E e \in TripDay : dayNumber[e] = k
      BY DEF PlanInv, DaysFilled
    <3> QED
      BY <1>2, <3>1
  <2> QED
    BY <1>2, <1>4, <2>1, <2>2 DEF PlanInv
<1>6. CASE /\ \A e \in TripDay : dayNumber[e] # numbering[d]
           /\ dayNumber' = [dayNumber EXCEPT ![d] = numbering[d]]
           /\ spent' = spent \cup {d}
  <2>1. \A e \in TripDay : dayNumber'[e] = IF e = d THEN numbering[d] ELSE dayNumber[e]
    BY <1>6 DEF PlanInv, PlanShape
  <2>2. \A i \in TripItem : i # d
    BY PlanAssumption
  <2>3. IdsSpent'
    BY <1>1, <1>2, <1>6, <2>1, <2>2 DEF PlanInv, IdsSpent, Placed
  <2>4. DaysThere'
    <3>1. \A i \in TripItem : Placed(i) => place[i].day \in TripDay
      BY DEF PlanInv, PlanShape, Placed, Places
    <3> QED
      BY <1>1, <1>6, <2>1, <3>1 DEF PlanInv, DaysThere, Placed
  <2>5. DaysFilled'
    <3> SUFFICES ASSUME ~removed
                 PROVE  \E n \in Nat :
                          /\ \A e \in TripDay : dayNumber'[e] <= n /\ numbering'[e] <= n + 1
                          /\ \A k \in 1..n : \E e \in TripDay : dayNumber'[e] = k
      BY <1>1 DEF DaysFilled
    <3>1. PICK n \in Nat : /\ \A e \in TripDay : dayNumber[e] <= n /\ numbering[e] <= n + 1
                           /\ \A k \in 1..n : \E e \in TripDay : dayNumber[e] = k
      BY DEF PlanInv, DaysFilled
    <3>2. \A e \in TripDay : dayNumber[e] \in Nat /\ numbering[e] \in Nat
      BY DEF PlanInv, PlanShape
    <3>3. numbering[d] = n + 1
      <4>1. numbering[d] \notin 1..n
        BY <1>6, <3>1
      <4> QED
        BY <1>1, <3>1, <3>2, <4>1
    <3>4. n + 1 \in Nat /\ \A e \in TripDay : dayNumber'[e] <= n + 1 /\ numbering'[e] <= n + 1 + 1
      BY <1>2, <2>1, <3>1, <3>2, <3>3
    <3>5. \A k \in 1..(n + 1) : \E e \in TripDay : dayNumber'[e] = k
      <4> SUFFICES ASSUME NEW k \in 1..(n + 1) PROVE \E e \in TripDay : dayNumber'[e] = k
        OBVIOUS
      <4>1. CASE k = n + 1
        BY <2>1, <3>3, <4>1
      <4>2. CASE k # n + 1
        <5>1. k \in 1..n
          BY <4>2
        <5>2. PICK e \in TripDay : dayNumber[e] = k
          BY <3>1, <5>1
        <5>3. e # d
          BY <1>3, <5>1, <5>2
        <5> QED
          BY <2>1, <5>2, <5>3
      <4> QED
        BY <4>1, <4>2
    <3> QED
      BY <3>4, <3>5
  <2> QED
    BY <1>2, <1>4, <2>3, <2>4, <2>5 DEF PlanInv
<1> QED
  BY <1>1, <1>5, <1>6

LEMMA RemoveDayInv ==
    ASSUME PlanInv, NEW d \in TripDay, RemoveDay(d) PROVE PlanInv'
<1>1. /\ dayNumber' = [dayNumber EXCEPT ![d] = 0]
      /\ place' = [i \in TripItem |-> IF place[i].day = d THEN Nowhere ELSE place[i]]
      /\ removed' = TRUE
      /\ late' = late \ Awaited(d) /\ muddled' = muddled \ {d}
      /\ UNCHANGED <<spent, numbering, placing, moving>>
  BY DEF RemoveDay
<1>2. PlanShape'
  BY <1>1 DEF PlanInv, PlanShape, Places
<1>3. /\ \A e \in TripDay : dayNumber'[e] = IF e = d THEN 0 ELSE dayNumber[e]
      /\ \A i \in TripItem : Placed(i)' => Placed(i) /\ place'[i] = place[i] /\ place[i].day # d
  BY <1>1 DEF PlanInv, PlanShape, Placed
<1>4. IdsSpent'
  <2>1. \A e \in TripDay : \A k \in DOMAIN moving[e] : moving[e][k] \in TripItem
    BY DEF PlanInv, PlanShape
  <2> QED
    BY <1>1, <1>3, <2>1 DEF PlanInv, IdsSpent
<1>5. DaysThere'
  <2>1. \A i \in TripItem : Placed(i) => place[i].day \in TripDay
    BY DEF PlanInv, PlanShape, Placed, Places
  <2> QED
    BY <1>3, <2>1 DEF PlanInv, DaysThere
<1>6. DaysFilled'
  BY <1>1 DEF DaysFilled
<1>7. BehindAll'
  BY <1>1, <1>3 DEF PlanInv, BehindAll, Awaited
<1>8. PositionsDistinct'
  BY <1>1, <1>3 DEF PlanInv, PositionsDistinct, Placed
<1> QED
  BY <1>2, <1>4, <1>5, <1>6, <1>7, <1>8 DEF PlanInv

LEMMA AddItemInv ==
    ASSUME PlanInv, NEW i \in TripItem, NEW d \in TripDay, AskAddItem(i, d) PROVE PlanInv'
<1>1. /\ placing' = [placing EXCEPT ![i] = [day |-> d, order |-> NextSortOrder(d)]]
      /\ i \notin spent
      /\ UNCHANGED <<dayNumber, spent, numbering, place, moving, removed, late, muddled>>
  BY DEF AskAddItem
<1>2. NextSortOrder(d) \in Nat \ {0} /\ \A j \in ItemsOf(d) : place[j].order < NextSortOrder(d)
  BY NextOrder
<1>3. [day |-> d, order |-> NextSortOrder(d)] \in Places
  BY <1>2 DEF Places
<1>4. PlanShape' /\ \A j \in TripItem :
          placing'[j] = IF j = i THEN [day |-> d, order |-> NextSortOrder(d)] ELSE placing[j]
  BY <1>1, <1>3 DEF PlanInv, PlanShape
<1>5. IdsSpent'
  BY <1>1, <1>4 DEF PlanInv, IdsSpent, Placed
<1>6. DaysThere' /\ DaysFilled' /\ PositionsDistinct'
  BY <1>1 DEF PlanInv, DaysThere, DaysFilled, PositionsDistinct, Placed
<1>7. BehindAll'
  BY <1>1, <1>2, <1>4 DEF PlanInv, BehindAll, Placed, ItemsOf
<1> QED
  BY <1>4, <1>5, <1>6, <1>7 DEF PlanInv

LEMMA CreateItemInv ==
    ASSUME PlanInv, NEW i \in TripItem, CreateItem(i) PROVE PlanInv'
<1> DEFINE d == placing[i].day
<1>1. /\ placing[i] # Nowhere
      /\ placing' = [placing EXCEPT ![i] = Nowhere]
      /\ \/ /\ dayNumber[d] # 0
            /\ place' = [place EXCEPT ![i] = placing[i]]
            /\ spent' = spent \cup {i}
            /\ muddled' = IF i \in late THEN muddled \cup {d} ELSE muddled
            /\ late' = (late \ {i}) \cup (Awaited(d) \ {i})
         \/ /\ late' = late \ {i}
            /\ UNCHANGED <<place, spent, muddled>>
      /\ UNCHANGED <<dayNumber, numbering, moving, removed>>
  BY DEF CreateItem
<1>2. i \notin spent /\ place[i] = Nowhere
  BY <1>1 DEF PlanInv, IdsSpent, Placed
<1>3. placing[i] \in [day : TripDay, order : Nat \ {0}] /\ d \in TripDay /\ placing[i] \in Places
  BY <1>1 DEF PlanInv, PlanShape, Places
<1>4. PlanShape' /\ \A j \in TripItem : placing'[j] = IF j = i THEN Nowhere ELSE placing[j]
  BY <1>1, <1>3 DEF PlanInv, PlanShape, Places
<1>5. DaysFilled'
  BY <1>1 DEF PlanInv, DaysFilled
<1>6. CASE late' = late \ {i} /\ UNCHANGED <<place, spent, muddled>>
  BY <1>1, <1>4, <1>5, <1>6 DEF PlanInv, IdsSpent, DaysThere, BehindAll, PositionsDistinct, Placed
<1>7. CASE /\ dayNumber[d] # 0
           /\ place' = [place EXCEPT ![i] = placing[i]]
           /\ spent' = spent \cup {i}
           /\ muddled' = IF i \in late THEN muddled \cup {d} ELSE muddled
           /\ late' = (late \ {i}) \cup (Awaited(d) \ {i})
  <2>1. \A j \in TripItem : place'[j] = IF j = i THEN placing[i] ELSE place[j]
    BY <1>7 DEF PlanInv, PlanShape
  <2>2. IdsSpent'
    <3>1. \A e \in TripDay : e # i
      BY PlanAssumption
    <3>2. \A e \in TripDay : \A k \in DOMAIN moving[e] : moving[e][k] # i /\ moving[e][k] \in TripItem
      BY <1>2 DEF PlanInv, PlanShape, IdsSpent
    <3> QED
      BY <1>1, <1>4, <1>7, <2>1, <3>1, <3>2 DEF PlanInv, IdsSpent, Placed
  <2>3. DaysThere'
    BY <1>1, <1>7, <2>1 DEF PlanInv, DaysThere, Placed
  <2>4. BehindAll'
    BY <1>4, <1>7, <2>1 DEF PlanInv, BehindAll, Placed, Awaited
  <2>5. PositionsDistinct'
    <3>1. ASSUME i \notin late, NEW j \in TripItem, j # i, Placed(j) PROVE place[j] # placing[i]
      <4>1. place[j].day = d => place[j].order < placing[i].order
        BY <1>1, <3>1 DEF PlanInv, BehindAll
      <4>2. placing[i].order \in Nat
        BY <1>3
      <4> QED
        BY <4>1, <4>2
    <3>2. \A j \in TripItem : j # i /\ place'[i].day \notin muddled' => place'[j] # place'[i]
      BY <1>1, <1>7, <2>1, <3>1 DEF Placed
    <3>3. \A j \in TripItem, k \in TripItem :
            j # i /\ k # i /\ j # k /\ place'[j] # Nowhere /\ place'[j].day \notin muddled'
              => place'[j] # place'[k]
      BY <1>7, <2>1 DEF PlanInv, PositionsDistinct
    <3> QED
      BY <3>2, <3>3 DEF PositionsDistinct
  <2> QED
    <3>1. PlanShape'
      BY <1>3, <1>4, <1>7 DEF PlanInv, PlanShape
    <3> QED
      BY <1>5, <2>2, <2>3, <2>4, <2>5, <3>1 DEF PlanInv
<1> QED
  BY <1>1, <1>6, <1>7

LEMMA RemoveItemInv ==
    ASSUME PlanInv, NEW i \in TripItem, RemoveItem(i) PROVE PlanInv'
<1>1. /\ place' = [place EXCEPT ![i] = Nowhere]
      /\ UNCHANGED <<dayNumber, spent, numbering, placing, moving, removed, late, muddled>>
  BY DEF RemoveItem
<1>2. PlanShape'
  BY <1>1 DEF PlanInv, PlanShape, Places
<1>3. \A j \in TripItem : Placed(j)' => Placed(j) /\ place'[j] = place[j]
  BY <1>1 DEF PlanInv, PlanShape, Placed
<1>4. IdsSpent'
  <2>1. \A e \in TripDay : \A k \in DOMAIN moving[e] : moving[e][k] \in TripItem
    BY DEF PlanInv, PlanShape
  <2> QED
    BY <1>1, <1>3, <2>1 DEF PlanInv, IdsSpent
<1>5. DaysThere' /\ DaysFilled' /\ BehindAll'
  BY <1>1, <1>3 DEF PlanInv, DaysThere, DaysFilled, BehindAll
<1>6. PositionsDistinct'
  BY <1>1, <1>3 DEF PlanInv, PositionsDistinct, Placed
<1> QED
  BY <1>2, <1>4, <1>5, <1>6 DEF PlanInv

LEMMA AskReorderInv ==
    ASSUME PlanInv, NEW d \in TripDay, NEW ids \in Seq(TripItem), AskReorder(d, ids) PROVE PlanInv'
<1>1. /\ moving' = [moving EXCEPT ![d] = ids] /\ \A k \in DOMAIN ids : ids[k] \in ItemsOf(d)
      /\ UNCHANGED <<dayNumber, spent, numbering, place, placing, removed, late, muddled>>
  BY DEF AskReorder
<1>2. PlanShape' /\ \A e \in TripDay : moving'[e] = IF e = d THEN ids ELSE moving[e]
  BY <1>1 DEF PlanInv, PlanShape
<1>3. \A k \in DOMAIN ids : ids[k] \in spent /\ place[ids[k]].day = d
  <2>1. \A i \in ItemsOf(d) : i \in TripItem /\ Placed(i) /\ place[i].day = d
    BY PlanAssumption DEF ItemsOf, Placed, Nowhere
  <2> QED
    BY <1>1, <2>1 DEF PlanInv, IdsSpent
<1>4. IdsSpent'
  BY <1>1, <1>2, <1>3 DEF PlanInv, IdsSpent, Placed
<1>5. DaysThere' /\ DaysFilled' /\ BehindAll' /\ PositionsDistinct'
  BY <1>1 DEF PlanInv, DaysThere, DaysFilled, BehindAll, PositionsDistinct, Placed
<1> QED
  BY <1>2, <1>4, <1>5 DEF PlanInv

LEMMA ReorderInv ==
    ASSUME PlanInv, NEW d \in TripDay, ReorderItems(d) PROVE PlanInv'
<1> DEFINE ids == moving[d]
<1>1. /\ moving' = [moving EXCEPT ![d] = <<>>]
      /\ \/ /\ \A i \in Listed(ids) : place[i] # Nowhere
            /\ place' = [i \in TripItem |->
                  IF i \in Listed(ids) THEN [place[i] EXCEPT !.order = LastIndex(ids, i)]
                  ELSE place[i]]
            /\ muddled' = IF ItemsOf(d) \subseteq Listed(ids)
                          THEN muddled \ {d} ELSE muddled \cup {d}
            /\ late' = late \cup Awaited(d)
         \/ UNCHANGED <<place, late, muddled>>
      /\ UNCHANGED <<dayNumber, spent, numbering, placing, removed>>
  BY DEF ReorderItems
<1>2. /\ moving' \in [TripDay -> Seq(TripItem)]
      /\ \A e \in TripDay : \A k \in DOMAIN moving'[e] : e # d /\ moving'[e] = moving[e]
  BY <1>1 DEF PlanInv, PlanShape
<1>3. DaysFilled'
  BY <1>1 DEF PlanInv, DaysFilled
<1>4. CASE UNCHANGED <<place, late, muddled>>
  BY <1>1, <1>2, <1>3, <1>4 DEF PlanInv, PlanShape, IdsSpent, DaysThere, BehindAll, PositionsDistinct,
                                Placed
<1>5. CASE /\ \A i \in Listed(ids) : place[i] # Nowhere
           /\ place' = [i \in TripItem |->
                 IF i \in Listed(ids) THEN [place[i] EXCEPT !.order = LastIndex(ids, i)]
                 ELSE place[i]]
           /\ muddled' = IF ItemsOf(d) \subseteq Listed(ids)
                         THEN muddled \ {d} ELSE muddled \cup {d}
           /\ late' = late \cup Awaited(d)
  <2>1. ids \in Seq(TripItem) /\ Listed(ids) \subseteq TripItem
    BY DEF PlanInv, PlanShape, Listed
  <2>2. \A i \in Listed(ids) : Placed(i) /\ place[i].day = d /\ place[i] \in [day : TripDay, order : Nat \ {0}]
    BY <1>5 DEF PlanInv, PlanShape, IdsSpent, Placed, Listed, Places
  <2>3. \A i \in Listed(ids) : LastIndex(ids, i) \in Nat \ {0} /\ ids[LastIndex(ids, i)] = i
    BY <2>1, LastIndexes
  <2>4. \A i \in TripItem :
          place'[i] = IF i \in Listed(ids) THEN [day |-> d, order |-> LastIndex(ids, i)] ELSE place[i]
    BY <1>5, <2>2
  <2>5. \A i \in TripItem : /\ Placed(i)' <=> Placed(i)
                            /\ place'[i].day = place[i].day
                            /\ place[i].day # d => place'[i] = place[i]
    <3>1. d # 0
      BY PlanAssumption
    <3>2. ASSUME NEW i \in Listed(ids)
          PROVE  place'[i].day = d /\ place'[i] # Nowhere
      <4>1. place'[i] = [day |-> d, order |-> LastIndex(ids, i)]
        BY <2>1, <2>4
      <4> QED
        BY <3>1, <4>1 DEF Nowhere
    <3> QED
      BY <2>2, <2>4, <3>2 DEF Placed
  <2>6. PlanShape'
    BY <1>1, <1>2, <1>5, <2>3, <2>4 DEF PlanInv, PlanShape, Places
  <2>7. IdsSpent'
    BY <1>1, <1>2, <2>5 DEF PlanInv, IdsSpent
  <2>8. DaysThere'
    BY <1>1, <2>5 DEF PlanInv, DaysThere
  <2>9. BehindAll'
    BY <1>1, <1>5, <2>5 DEF PlanInv, BehindAll, Awaited
  <2>10. PositionsDistinct'
    <3> SUFFICES ASSUME NEW i \in TripItem, NEW j \in TripItem, i # j, Placed(i)',
                        place'[i].day \notin muddled', place'[i] = place'[j]
                 PROVE  FALSE
      BY DEF PositionsDistinct, Placed
    <3>1. CASE place[i].day = d
      <4>1. ItemsOf(d) \subseteq Listed(ids)
        <5>1. d \notin muddled'
          BY <2>5, <3>1
        <5>2. muddled' = IF ItemsOf(d) \subseteq Listed(ids) THEN muddled \ {d} ELSE muddled \cup {d}
          BY <1>5
        <5> QED
          BY <5>1, <5>2
      <4>2. i \in Listed(ids) /\ j \in Listed(ids)
        BY <2>5, <3>1, <4>1 DEF ItemsOf
      <4>3. LastIndex(ids, i) = LastIndex(ids, j)
        <5>1. /\ place'[i] = [day |-> d, order |-> LastIndex(ids, i)]
              /\ place'[j] = [day |-> d, order |-> LastIndex(ids, j)]
          BY <2>4, <4>2
        <5>2. ASSUME NEW a, NEW b, [day |-> d, order |-> a] = [day |-> d, order |-> b] PROVE a = b
          <6>1. [day |-> d, order |-> a].order = [day |-> d, order |-> b].order
            BY ONLY <5>2
          <6> QED
            BY ONLY <6>1
        <5> QED
          BY <5>1, <5>2
      <4> QED
        BY <2>3, <4>2, <4>3
    <3>2. CASE place[i].day # d
      <4>1. place[j].day # d
        BY <2>5, <3>2
      <4> QED
        BY <1>5, <2>5, <3>2, <4>1 DEF PlanInv, PositionsDistinct, Placed
    <3> QED
      BY <3>1, <3>2
  <2> QED
    BY <1>3, <2>6, <2>7, <2>8, <2>9, <2>10 DEF PlanInv
<1> QED
  BY <1>1, <1>4, <1>5

LEMMA PlanStep == PlanInv /\ [PlanNext]_planVars => PlanInv'
<1> SUFFICES ASSUME PlanInv, [PlanNext]_planVars PROVE PlanInv'
  OBVIOUS
<1>1. CASE RemovePlan \/ UNCHANGED planVars
  <2>1. UNCHANGED <<dayNumber, spent, numbering, place, placing, moving, removed, late, muddled>>
    BY <1>1 DEF RemovePlan, planVars
  <2>2. PlanShape' /\ DaysFilled'
    BY <2>1 DEF PlanInv, PlanShape, DaysFilled
  <2>3. IdsSpent' /\ DaysThere' /\ BehindAll' /\ PositionsDistinct'
    BY <2>1 DEF PlanInv, IdsSpent, DaysThere, BehindAll, PositionsDistinct, Placed
  <2> QED
    BY <2>2, <2>3 DEF PlanInv
<1>2. ASSUME NEW d \in TripDay, NEW i \in TripItem, NEW j \in TripItem,
             AskReorder(d, <<i, j>>)
      PROVE  PlanInv'
  <2>1. <<i, j>> \in Seq(TripItem)
    OBVIOUS
  <2> QED
    BY <1>2, <2>1, AskReorderInv
<1> QED
  BY <1>1, <1>2, AddDayInv, CreateDayInv, RemoveDayInv, AddItemInv, CreateItemInv, RemoveItemInv,
     ReorderInv DEF PlanNext

\* What a plan keeps is of its kind, and items are in days that are there, for any days and
\* items (createDay, createItem and the removals of trip and itinerary).
THEOREM PlanTypeCorrect == PlanSpec => []PlanTypeOK
<1>1. PlanInv => PlanTypeOK
  BY DEF PlanInv, PlanShape, DaysThere, Placed, PlanTypeOK
<1> QED
  BY <1>1, PlanInitInv, PlanStep, PTL DEF PlanSpec

\* For any days and items: while no day is removed the days of a plan are numbered without
\* a gap, and no two items of a day share a position unless two requests for it overlapped
\* or a reorder meddled (nextDayNumber, nextSortOrder, reorderItems).
THEOREM PlanStaysInOrder == PlanSpec => []PlanInOrder
<1>1. PlanInv => PlanInOrder
  <2> SUFFICES ASSUME PlanInv, ~removed
               PROVE  LET there == {dayNumber[d] : d \in TripDay} \ {0}
                      IN  there = 1..Cardinality(there)
    BY DEF PlanInv, PlanInOrder, DaysConsecutive
  <2> DEFINE there == {dayNumber[d] : d \in TripDay} \ {0}
  <2>1. PICK n \in Nat : /\ \A d \in TripDay : dayNumber[d] <= n
                         /\ \A k \in 1..n : \E d \in TripDay : dayNumber[d] = k
    BY DEF PlanInv, DaysFilled
  <2>2. there = 1..n
    BY <2>1 DEF PlanInv, PlanShape
  <2>3. Cardinality(1..n) = n
    BY FS_Interval
  <2> QED
    BY <2>2, <2>3
<1> QED
  BY <1>1, PlanInitInv, PlanStep, PTL DEF PlanSpec
=============================================================================
