------------------------------- MODULE Coupon -------------------------------
(***************************************************************************)
(* Coupon codes: a create request checks the code before its booking is    *)
(* made and redeems it afterwards, and the expiration job gives back the   *)
(* redemptions of the bookings it expired.  A failed check after the       *)
(* booking was made costs the discount, never the booking.                 *)
(*                                                                         *)
(* Every read, and every database transaction, is one step.  Money is left *)
(* out: a booking gets its discount or it does not.  Whether a coupon is   *)
(* ACTIVE, within its dates and meant for the domain is one Boolean that   *)
(* the administrator and the clock may flip at any time.                   *)
(***************************************************************************)
EXTENDS Integers, FiniteSets

CONSTANTS
    Booking,       \* bookings, each a pair of its domain and its id there
    User,
    Code,          \* coupons, by their code
    Limits,        \* values of usageLimit
    PerUserLimit,  \* perUserLimit of every coupon
    NoLimit,       \* usageLimit IS NULL
    NoCode,
    NoUser

DomainOf(b) == b[1]
Domain == {DomainOf(b) : b \in Booking}

ASSUME CouponAssumption ==
    /\ IsFiniteSet(Booking)
    /\ Limits \subseteq Nat \cup {NoLimit}
    /\ NoLimit \notin Nat
    /\ PerUserLimit \in Nat
    /\ NoCode \notin Code
    /\ NoUser \notin User

VARIABLES
    usable,      \* codes that are ACTIVE, within their dates, for the domain
    usageLimit,
    usedCount,
    redemption,  \* coupon of the CouponRedemption row of a booking
    booking,     \* status of the booking
    request,     \* progress of the create request of a booking
    user,        \* who makes it
    code,        \* the code it names
    discounted,  \* bookings whose payment was created with the discount
    sweep,       \* expiration job: expiring bookings, or releasing their coupons
    expiredIds,  \* ids its current run has expired
    releasing    \* bookings whose redemption rows it has found

(* History: users who had two requests for a code past the per-user check, *)
(* and bookings whose redemption a failed run of the job never came to.    *)
VARIABLES overlapped, forgotten

coupons == <<usable, usageLimit, usedCount, redemption>>
requests == <<request, user, code, discounted>>
job == <<sweep, expiredIds, releasing>>
vars == <<coupons, booking, requests, job, overlapped, forgotten>>

RequestStep == {"idle", "validated", "booked", "redeeming", "paying", "ended", "failed"}

Init ==
    /\ usable \in SUBSET Code
    /\ usageLimit \in [Code -> Limits]
    /\ usedCount = [c \in Code |-> 0]
    /\ redemption = [b \in Booking |-> NoCode]
    /\ booking = [b \in Booking |-> "ABSENT"]
    /\ request = [b \in Booking |-> "idle"]
    /\ user = [b \in Booking |-> NoUser]
    /\ code = [b \in Booking |-> NoCode]
    /\ discounted = {}
    /\ sweep = "expiring"
    /\ expiredIds = {}
    /\ releasing = {}
    /\ overlapped = {}
    /\ forgotten = {}

-----------------------------------------------------------------------------
(* The administrator and the clock                                         *)

(* The new limit is not compared with usedCount.                           *)
Update(c, limit) ==
    /\ usageLimit' = [usageLimit EXCEPT ![c] = limit]
    /\ UNCHANGED <<usable, usedCount, redemption, booking, requests, job, overlapped, forgotten>>

ChangeUsable(c) ==
    /\ usable' = IF c \in usable THEN usable \ {c} ELSE usable \cup {c}
    /\ UNCHANGED <<usageLimit, usedCount, redemption, booking, requests, job, overlapped, forgotten>>

-----------------------------------------------------------------------------
(* Create request                                                          *)

(* Mutant: a coupon may be used once more than its limit.                  *)
HasUsesInclusive(c) == usageLimit[c] # NoLimit => usedCount[c] <= usageLimit[c]
HasUses(c) == usageLimit[c] # NoLimit => usedCount[c] < usageLimit[c]
AssertUsable(c) == c \in usable /\ HasUses(c)

RedeemedBy(u, c) == {b \in Booking : user[b] = u /\ redemption[b] = c}

(* Mutant: a traveller may use a coupon once more than the limit per user. *)
MayUseInclusive(u, c) == Cardinality(RedeemedBy(u, c)) <= PerUserLimit
MayUse(u, c) == Cardinality(RedeemedBy(u, c)) < PerUserLimit

(* Requests of u for c that are past the per-user check and have not yet   *)
(* come to the redemption.                                                 *)
Underway(u, c) ==
    {b \in Booking : /\ user[b] = u /\ code[b] = c
                     /\ request[b] \in {"validated", "booked", "redeeming"}}

ValidateCode(b, u, c) ==
    /\ request[b] = "idle"
    /\ AssertUsable(c)
    /\ MayUse(u, c)
    /\ request' = [request EXCEPT ![b] = "validated"]
    /\ user' = [user EXCEPT ![b] = u]
    /\ code' = [code EXCEPT ![b] = c]
    /\ overlapped' = IF Underway(u, c) = {} THEN overlapped ELSE overlapped \cup {<<u, c>>}
    /\ UNCHANGED <<coupons, booking, discounted, job, forgotten>>

CreateBooking(b) ==
    /\ request[b] = "validated"
    /\ request' = [request EXCEPT ![b] = "booked"]
    /\ booking' = [booking EXCEPT ![b] = "PENDING_PAYMENT"]
    /\ UNCHANGED <<coupons, user, code, discounted, job, overlapped, forgotten>>

(* The coupon is read again; a code that vanished, is used up, or asks for *)
(* a larger order gives no discount.  Who has used it is not looked at.    *)
ApplyCoupon(b, orderLargeEnough) ==
    /\ request[b] = "booked"
    /\ request' = [request EXCEPT ![b] =
                     IF AssertUsable(code[b]) /\ orderLargeEnough THEN "redeeming" ELSE "paying"]
    /\ UNCHANGED <<coupons, booking, user, code, discounted, job, overlapped, forgotten>>

(* UPDATE ... WHERE used_count < usage_limit, then the redemption row.     *)
Redeem(b) ==
    LET c == code[b]
    IN  /\ request[b] = "redeeming"
        /\ request' = [request EXCEPT ![b] = "paying"]
        /\ IF HasUses(c)
           THEN /\ usedCount' = [usedCount EXCEPT ![c] = @ + 1]
                /\ redemption' = [redemption EXCEPT ![b] = c]
           ELSE UNCHANGED <<usedCount, redemption>>
        /\ UNCHANGED <<usable, usageLimit, booking, user, code, discounted, job, overlapped, forgotten>>

CreatePayment(b) ==
    /\ request[b] = "paying"
    /\ request' = [request EXCEPT ![b] = "ended"]
    /\ discounted' = IF redemption[b] # NoCode THEN discounted \cup {b} ELSE discounted
    /\ UNCHANGED <<coupons, booking, user, code, job, overlapped, forgotten>>

(* The room is sold out, a query fails or the process stops: what was      *)
(* committed stays.                                                        *)
RequestFails(b) ==
    /\ request[b] \in {"validated", "booked", "redeeming", "paying"}
    /\ request' = [request EXCEPT ![b] = "failed"]
    /\ UNCHANGED <<coupons, booking, user, code, discounted, job, overlapped, forgotten>>

(* The webhook of a paid session, see BookingPayment.                      *)
Confirm(b) ==
    /\ booking[b] = "PENDING_PAYMENT"
    /\ request[b] = "ended"
    /\ booking' = [booking EXCEPT ![b] = "CONFIRMED"]
    /\ UNCHANGED <<coupons, requests, job, overlapped, forgotten>>

-----------------------------------------------------------------------------
(* Expiration job                                                          *)

ExpirePending(b) ==
    /\ sweep = "expiring"
    /\ booking[b] = "PENDING_PAYMENT"
    /\ request[b] \in {"ended", "failed"}
    /\ booking' = [booking EXCEPT ![b] = "EXPIRED"]
    /\ expiredIds' = expiredIds \cup {b}
    /\ UNCHANGED <<coupons, requests, sweep, releasing, overlapped, forgotten>>

AllDomainsExpired ==
    /\ sweep = "expiring"
    /\ expiredIds # {}
    /\ sweep' = "releasing"
    /\ UNCHANGED <<coupons, booking, requests, expiredIds, releasing, overlapped, forgotten>>

(* The run ends when every row it found is gone.                           *)
RunGoesOn == sweep' = IF expiredIds' \cup releasing' = {} THEN "expiring" ELSE sweep

(* Mutants: rows are found by booking id whatever the domain, or only for  *)
(* bookings whose payment was created.                                     *)
RowsWithId(ids) == {b \in Booking : redemption[b] # NoCode /\ \E c \in ids : b[2] = c[2]}
RowsOfPayments(ids) == {b \in ids : redemption[b] # NoCode /\ b \in discounted}

RowsOf(ids) == {b \in ids : redemption[b] # NoCode}

(* The redemption rows of one domain's expired bookings are read at once.  *)
FindRedemptions(d) ==
    LET ids == {b \in expiredIds : DomainOf(b) = d}
    IN  /\ sweep = "releasing"
        /\ ids # {}
        /\ expiredIds' = expiredIds \ ids
        /\ releasing' = releasing \cup RowsOf(ids)
        /\ RunGoesOn
        /\ UNCHANGED <<coupons, booking, requests, overlapped, forgotten>>

(* Mutant: the use is given back, the row stays.                           *)
RollbackKeepsRow(b) ==
    LET c == redemption[b]
    IN  /\ b \in releasing
        /\ releasing' = releasing \ {b}
        /\ usedCount' = [usedCount EXCEPT ![c] = IF @ > 0 THEN @ - 1 ELSE @]
        /\ UNCHANGED <<expiredIds, redemption>>
        /\ RunGoesOn
        /\ UNCHANGED <<usable, usageLimit, booking, requests, overlapped, forgotten>>

(* One transaction per row: the count goes down if it is above zero, and   *)
(* the row goes.                                                           *)
Rollback(b) ==
    LET c == redemption[b]
    IN  /\ b \in releasing
        /\ releasing' = releasing \ {b}
        /\ usedCount' = [usedCount EXCEPT ![c] = IF @ > 0 THEN @ - 1 ELSE @]
        /\ redemption' = [redemption EXCEPT ![b] = NoCode]
        /\ UNCHANGED expiredIds
        /\ RunGoesOn
        /\ UNCHANGED <<usable, usageLimit, booking, requests, overlapped, forgotten>>

(* A query fails or the process stops: the ids were only in memory.        *)
JobFails ==
    /\ expiredIds \cup releasing # {}
    /\ sweep' = "expiring"
    /\ expiredIds' = {}
    /\ releasing' = {}
    /\ forgotten' = forgotten \cup expiredIds \cup releasing
    /\ UNCHANGED <<coupons, booking, requests, overlapped>>

-----------------------------------------------------------------------------
Next ==
    \/ \E c \in Code : ChangeUsable(c) \/ \E limit \in Limits : Update(c, limit)
    \/ \E b \in Booking :
         \/ \E u \in User, c \in Code : ValidateCode(b, u, c)
         \/ CreateBooking(b)
         \/ \E orderLargeEnough \in BOOLEAN : ApplyCoupon(b, orderLargeEnough)
         \/ Redeem(b) \/ CreatePayment(b) \/ RequestFails(b)
         \/ Confirm(b) \/ ExpirePending(b) \/ Rollback(b)
    \/ \E d \in Domain : FindRedemptions(d)
    \/ AllDomainsExpired \/ JobFails

Spec == Init /\ [][Next]_vars

-----------------------------------------------------------------------------
(* Properties                                                              *)

TypeOK ==
    /\ usable \subseteq Code
    /\ usageLimit \in [Code -> Limits]
    /\ usedCount \in [Code -> Nat]
    /\ redemption \in [Booking -> Code \cup {NoCode}]
    /\ booking \in [Booking -> {"ABSENT", "PENDING_PAYMENT", "CONFIRMED", "EXPIRED"}]
    /\ request \in [Booking -> RequestStep]
    /\ user \in [Booking -> User \cup {NoUser}]
    /\ code \in [Booking -> Code \cup {NoCode}]
    /\ discounted \subseteq Booking
    /\ sweep \in {"expiring", "releasing"}
    /\ expiredIds \subseteq Booking
    /\ releasing \subseteq Booking
    /\ overlapped \subseteq User \X Code
    /\ forgotten \subseteq Booking

(* The counter of a coupon is the number of its redemption rows, whatever  *)
(* requests, expirations and crashes do: a use is neither lost nor given   *)
(* back twice.                                                             *)
UsedCountExact ==
    \A c \in Code : usedCount[c] = Cardinality({b \in Booking : redemption[b] = c})

(* However many requests read the same free use, no redemption takes the   *)
(* counter above the limit in force.                                       *)
LimitRespected ==
    [][\A c \in Code : usedCount'[c] > usedCount[c] /\ usageLimit[c] # NoLimit
          => usedCount'[c] <= usageLimit[c]]_vars

(* A discount that was granted keeps its redemption row until its own      *)
(* booking expires: the job never releases one of a booking that was paid  *)
(* or that has the same id in another domain.                              *)
DiscountKeepsRedemption ==
    \A b \in discounted : redemption[b] = NoCode => booking[b] = "EXPIRED"

(* The per-user limit holds for a user who has made one request at a time. *)
PerUserLimitWithoutOverlap ==
    \A u \in User, c \in Code : <<u, c>> \notin overlapped =>
        Cardinality(RedeemedBy(u, c)) <= PerUserLimit

(* coupon.repository.ts:59: an expired booking gives its use back, so none *)
(* is wasted.  The bookings in expiredIds and releasing are yet to come.   *)
ExpiredGivesBack ==
    \A b \in Booking : booking[b] = "EXPIRED" /\ redemption[b] # NoCode
        => b \in expiredIds \cup releasing

(* The same, except for what a failed run of the job forgot.               *)
ExpiredGivesBackUnlessForgotten ==
    \A b \in Booking \ forgotten : booking[b] = "EXPIRED" /\ redemption[b] # NoCode
        => b \in expiredIds \cup releasing
=============================================================================
