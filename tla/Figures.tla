------------------------------- MODULE Figures -------------------------------
(***************************************************************************)
(* The dashboard of the platform: how many users, providers and bookings   *)
(* there are, and how many of the users who looked at something lately     *)
(* have booked something lately.  analytics() asks for these by calls that *)
(* are in flight at once, each of several statements.  The rows it counts  *)
(* belong to the other parts, and may change at any time.                  *)
(***************************************************************************)
EXTENDS Integers, FiniteSets

CONSTANTS
    Visitor,   \* ids of users
    Vendor,    \* ids of providers
    Order,     \* ids of bookings
    Domain     \* BookingDomain

ASSUME FiguresAssumption ==
    IsFiniteSet(Visitor) /\ IsFiniteSet(Vendor) /\ IsFiniteSet(Order) /\ IsFiniteSet(Domain)

VARIABLES
    standing,  \* UserStatus, "ABSENT" when there is no such user
    viewed,    \* users with a VIEW event of the last thirty days
    licence,   \* ProviderStatus, "ABSENT" when there is no such provider
    sales,     \* the bookings that are CONFIRMED or COMPLETED
    figures    \* the answers an analytics() has so far

tables == <<standing, viewed, licence, sales>>
figuresVars == <<tables, figures>>

UserStatus == {"ACTIVE", "INACTIVE", "BANNED"}
ProviderStatus == {"PENDING", "APPROVED", "REJECTED", "SUSPENDED"}
Sale == [id : Order, by : Visitor, domain : Domain, made : {"LATELY", "BEFORE"}]

Call == {"countUsers", "countProvidersByStatus", "countBookingsByDomain", "getConversion30d"}
NoFigures == [c \in {} |-> 0]

FiguresInit ==
    /\ standing = [v \in Visitor |-> "ABSENT"]
    /\ viewed = {}
    /\ licence = [p \in Vendor |-> "ABSENT"]
    /\ sales = {}
    /\ figures = NoFigures

-----------------------------------------------------------------------------
(* What the other parts do.  A report they come under makes no promise and *)
(* is not followed any further.                                            *)

\* register, and updateStatus; nobody deletes a user.
UserChanges(v, s) ==
    /\ standing[v] = "ABSENT" => s = "ACTIVE"
    /\ standing' = [standing EXCEPT ![v] = s]
    /\ figures' = NoFigures
    /\ UNCHANGED <<viewed, licence, sales>>

\* Events of a user come and, with time, leave the last thirty days.
ViewsChange(v) ==
    /\ viewed' = IF v \in viewed THEN viewed \ {v} ELSE viewed \cup {v}
    /\ figures' = NoFigures
    /\ UNCHANGED <<standing, licence, sales>>

\* apply, and what administrators decide.
ProviderChanges(p, s) ==
    /\ licence[p] = "ABSENT" => s = "PENDING"
    /\ licence' = [licence EXCEPT ![p] = s]
    /\ figures' = NoFigures
    /\ UNCHANGED <<standing, viewed, sales>>

(* A booking is paid for, grows older than thirty days, and is cancelled;  *)
(* its id may then stand for another booking.                              *)
SaleMade(r) ==
    /\ standing[r.by] # "ABSENT"
    /\ \A s \in sales : s.id # r.id
    /\ sales' = sales \cup {r}
    /\ figures' = NoFigures
    /\ UNCHANGED <<standing, viewed, licence>>

SaleAges(r) ==
    /\ r.made = "LATELY"
    /\ sales' = (sales \ {r}) \cup {[r EXCEPT !.made = "BEFORE"]}
    /\ figures' = NoFigures
    /\ UNCHANGED <<standing, viewed, licence>>

SaleEnds(r) ==
    /\ sales' = sales \ {r}
    /\ figures' = NoFigures
    /\ UNCHANGED <<standing, viewed, licence>>

-----------------------------------------------------------------------------
(* The four calls.  Nothing changes during a report that is followed, so   *)
(* the order of the statements inside a call is no matter.                 *)

UsersOf(s) == Cardinality({v \in Visitor : standing[v] = s})

CountUsers ==
    [total |-> Cardinality({v \in Visitor : standing[v] # "ABSENT"}),
     active |-> UsersOf("ACTIVE"), inactive |-> UsersOf("INACTIVE"), banned |-> UsersOf("BANNED")]

ProvidersOf(s) == Cardinality({p \in Vendor : licence[p] = s})

CountProvidersByStatus ==
    [total |-> Cardinality({p \in Vendor : licence[p] # "ABSENT"}),
     pending |-> ProvidersOf("PENDING"), approved |-> ProvidersOf("APPROVED"),
     rejected |-> ProvidersOf("REJECTED"), suspended |-> ProvidersOf("SUSPENDED")]

\* Bookings of one domain; the total is the sum over the domains.
SalesOf(d) == {r \in sales : r.domain = d}
CountBookingsByDomain == [total |-> Cardinality(UNION {SalesOf(d) : d \in Domain})]

Lately(r) == r.made = "LATELY"
Booked == {r.by : r \in {s \in sales : Lately(s)}}

(* Mutant: those who have booked, whether they have looked or not.         *)
ConversionOfAll == [viewedUsers |-> Cardinality(viewed), convertedUsers |-> Cardinality(Booked)]

GetConversion30d ==
    [viewedUsers |-> Cardinality(viewed), convertedUsers |-> Cardinality(viewed \cap Booked)]

Answer ==
    [countUsers |-> CountUsers, countProvidersByStatus |-> CountProvidersByStatus,
     countBookingsByDomain |-> CountBookingsByDomain, getConversion30d |-> GetConversion30d]

\* A new report: the one before has been delivered.
Analytics ==
    /\ figures # NoFigures
    /\ figures' = NoFigures
    /\ UNCHANGED tables

Answers(c) ==
    /\ c \notin DOMAIN figures
    /\ figures' = [a \in DOMAIN figures \cup {c} |-> IF a = c THEN Answer[c] ELSE figures[a]]
    /\ UNCHANGED tables

FiguresNext ==
    \/ \E v \in Visitor :
         ViewsChange(v) \/ \E s \in UserStatus : UserChanges(v, s)
    \/ \E p \in Vendor, s \in ProviderStatus : ProviderChanges(p, s)
    \/ \E r \in Sale : SaleMade(r)
    \/ \E r \in sales : SaleAges(r) \/ SaleEnds(r)
    \/ Analytics \/ \E c \in Call : Answers(c)

FiguresSpec == FiguresInit /\ [][FiguresNext]_figuresVars

-----------------------------------------------------------------------------
(* Properties.                                                             *)

\* Rows are of their kinds, and a booking is one row.
FiguresTypeOK ==
    /\ standing \in [Visitor -> UserStatus \cup {"ABSENT"}] /\ viewed \subseteq Visitor
    /\ licence \in [Vendor -> ProviderStatus \cup {"ABSENT"}]
    /\ sales \subseteq Sale /\ \A r, s \in sales : r.id = s.id => r = s
    /\ DOMAIN figures \subseteq Call

\* In a report nothing changed under, every user and every provider is counted in one of
\* the statuses.
EveryoneIsCounted ==
    /\ "countUsers" \in DOMAIN figures =>
         figures.countUsers.total = figures.countUsers.active + figures.countUsers.inactive
                                      + figures.countUsers.banned
    /\ "countProvidersByStatus" \in DOMAIN figures =>
         LET by == figures.countProvidersByStatus
         IN  by.total = by.pending + by.approved + by.rejected + by.suspended

\* Nobody is converted who did not look, or who has no booking that is counted.
ConversionIsBacked ==
    "getConversion30d" \in DOMAIN figures =>
      LET lately == figures.getConversion30d
      IN  /\ lately.convertedUsers <= lately.viewedUsers
          /\ "countBookingsByDomain" \in DOMAIN figures =>
               lately.convertedUsers <= figures.countBookingsByDomain.total

FiguresAddUp == EveryoneIsCounted /\ ConversionIsBacked
=============================================================================
