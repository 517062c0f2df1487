-------------------------------- MODULE Fleet -------------------------------
(***************************************************************************)
(* One flight of an airline: its two airports, its aircraft, and edits     *)
(* that name some of the three.  An edit compares the airports it is given *)
(* with the ones it has read, and writes only those it is given.           *)
(***************************************************************************)
EXTENDS Naturals

CONSTANTS
    Airport,     \* rows of airports
    Aircraft,    \* aircraft of the airline
    FlightEdit   \* requests about the flight

ASSUME FleetAssumption == "KEEP" \notin Airport \cup Aircraft /\ "NONE" \notin Aircraft

VARIABLES
    fit,         \* status of an aircraft
    everFit,     \* history: aircraft that were APPROVED at some time
    flight,      \* status of the flight; "ABSENT" before the INSERT
    gone,        \* the flight has its deletedAt
    leg,         \* its airports and aircraft
    drafting,    \* what an edit that has passed its checks will write
    outdated     \* history: an edit that had read other airports was written

fleetVars == <<fit, everFit, flight, gone, leg, drafting, outdated>>

Keep == "KEEP"                       \* a field the request does not name
Legs == [from : Airport, to : Airport, by : Aircraft]
NoLeg == [from |-> Keep, to |-> Keep, by |-> "NONE"]
NoDraft == [kind |-> "NONE"]

FleetInit ==
    /\ fit = [a \in Aircraft |-> "PENDING"] /\ everFit = {}
    /\ flight = "ABSENT" /\ gone = FALSE /\ leg = NoLeg
    /\ drafting = [e \in FlightEdit |-> NoDraft]
    /\ outdated = FALSE

\* AircraftService.review.
JudgeAircraft(a, s) ==
    /\ fit' = [fit EXCEPT ![a] = s]
    /\ everFit' = IF s = "APPROVED" THEN everFit \cup {a} ELSE everFit
    /\ UNCHANGED <<flight, gone, leg, drafting, outdated>>

AssertApprovedAircraft(a) == a # Keep => fit[a] = "APPROVED"

(* Mutant: only what the request names is compared.                        *)
AssertDistinctGiven(from, to) == from # Keep /\ to # Keep => from # to

\* What the row will say is compared, if the request names an airport at all.
AssertDistinctAirports(from, to) ==
    from # Keep \/ to # Keep =>
      (IF from = Keep THEN leg.from ELSE from) # (IF to = Keep THEN leg.to ELSE to)

\* create, up to its INSERT.
AskFlight(e, from, to, a) ==
    /\ flight = "ABSENT" /\ drafting[e] = NoDraft
    /\ AssertApprovedAircraft(a) /\ AssertDistinctAirports(from, to)
    /\ drafting' = [drafting EXCEPT ![e] =
          [kind |-> "CREATE", from |-> from, to |-> to, by |-> a]]
    /\ UNCHANGED <<fit, everFit, flight, gone, leg, outdated>>

\* The INSERT.  The model follows the first flight only.
CreateFlight(e) ==
    LET d == drafting[e]
    IN  /\ d.kind = "CREATE" /\ flight = "ABSENT"
        /\ flight' = "PENDING" /\ leg' = [from |-> d.from, to |-> d.to, by |-> d.by]
        /\ drafting' = [drafting EXCEPT ![e] = NoDraft]
        /\ UNCHANGED <<fit, everFit, gone, outdated>>

\* update, up to its UPDATE.
AskUpdate(e, from, to, a) ==
    /\ flight # "ABSENT" /\ ~gone /\ drafting[e] = NoDraft
    /\ AssertApprovedAircraft(a) /\ AssertDistinctAirports(from, to)
    /\ drafting' = [drafting EXCEPT ![e] =
          [kind |-> "UPDATE", from |-> from, to |-> to, by |-> a, read |-> leg]]
    /\ UNCHANGED <<fit, everFit, flight, gone, leg, outdated>>

\* The UPDATE by id of the fields that were named.
UpdateFlight(e) ==
    LET d == drafting[e]
        Written(given, stored) == IF given = Keep THEN stored ELSE given
    IN  /\ d.kind = "UPDATE"
        /\ leg' = [from |-> Written(d.from, leg.from), to |-> Written(d.to, leg.to),
                   by |-> Written(d.by, leg.by)]
        /\ outdated' = (outdated \/ d.read.from # leg.from \/ d.read.to # leg.to)
        /\ drafting' = [drafting EXCEPT ![e] = NoDraft]
        /\ UNCHANGED <<fit, everFit, flight, gone>>

\* review: the flight was found, now or before it was removed.
ReviewFlight(s) ==
    /\ flight # "ABSENT"
    /\ flight' = s
    /\ UNCHANGED <<fit, everFit, gone, leg, drafting, outdated>>

RemoveFlight ==
    /\ flight # "ABSENT"
    /\ gone' = TRUE
    /\ UNCHANGED <<fit, everFit, flight, leg, drafting, outdated>>

FleetNext ==
    \/ \E s \in {"APPROVED", "REJECTED"} :
         ReviewFlight(s) \/ \E a \in Aircraft : JudgeAircraft(a, s)
    \/ RemoveFlight
    \/ \E e \in FlightEdit :
         \/ CreateFlight(e) \/ UpdateFlight(e)
         \/ \E from, to \in Airport, a \in Aircraft : AskFlight(e, from, to, a)
         \/ \E from, to \in Airport \cup {Keep}, a \in Aircraft \cup {Keep} :
              AskUpdate(e, from, to, a)

FleetSpec == FleetInit /\ [][FleetNext]_fleetVars

-----------------------------------------------------------------------------
(* Properties.                                                             *)

\* The flight and its requests are of their kinds.
FleetTypeOK ==
    /\ fit \in [Aircraft -> {"PENDING", "APPROVED", "REJECTED"}] /\ everFit \subseteq Aircraft
    /\ flight \in {"ABSENT", "PENDING", "APPROVED", "REJECTED"}
    /\ leg \in Legs \cup {NoLeg} /\ (leg = NoLeg <=> flight = "ABSENT")
    /\ \A e \in FlightEdit : drafting[e].kind \in {"NONE", "CREATE", "UPDATE"}

\* A flight joins two different airports and was given an aircraft that had been
\* approved, whichever fields its edits named and in whatever order: unless an edit
\* compared its airport with one that another edit has replaced since.
FlightsFlyable ==
    flight # "ABSENT" => leg.by \in everFit /\ (outdated \/ leg.from # leg.to)
=============================================================================
