----------------------------- MODULE Departure ------------------------------
(***************************************************************************)
(* What tours, experiences and transport share: a booking is for one date  *)
(* and a number of people.                                                 *)
(***************************************************************************)
EXTENDS BookingService

CONSTANT
    MaxGroup  \* maxParticipants of the listing, capacity of the vehicle; 0: none set

ASSUME DepartureAssumption == MaxGroup \in Nat

(* A party that fits; maxParticipants may be left empty.                   *)
FitsGroup(n) == MaxGroup = 0 \/ n <= MaxGroup
=============================================================================
