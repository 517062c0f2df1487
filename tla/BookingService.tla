--------------------------- MODULE BookingService ---------------------------
(***************************************************************************)
(* How requests and the expiration job reach the stock of one listing.     *)
(* A handler first reads (is the listing published, is the booking still   *)
(* CONFIRMED, which bookings are overdue) and only later runs the          *)
(* transaction that DatedStock describes: what it read may be out of date  *)
(* by then.  The four dated domains share this protocol; each has a module *)
(* of its own with its guards.                                             *)
(***************************************************************************)
EXTENDS DatedStock

CONSTANT
    LastToday  \* the calendar runs from date 0 to LastToday

ASSUME CalendarAssumption == LastToday \in Nat

VARIABLES
    bookable,    \* the listing is published: ACTIVE room of an APPROVED property, ...
    request,     \* stay asked for by a create request that passed its checks
    cancelling,  \* bookings that some cancel request found cancellable
    overdue,     \* bookings created before the cutoff of the expiration job
    candidates,  \* bookings the current run of the job still has to visit
    expiredIds,  \* bookings this run has expired, held in memory
    today

requestVars == <<bookable, request, cancelling, today>>
sweepVars == <<overdue, candidates, expiredIds>>
serviceVars == <<stockVars, requestVars, sweepVars>>

NoRequest == [days |-> {}, people |-> 0]
Requests == [days : SUBSET Day, people : 0..MaxParty]

ServiceInit ==
    /\ StockInit
    /\ bookable \in BOOLEAN
    /\ request = [b \in Booking |-> NoRequest]
    /\ cancelling = {}
    /\ overdue = {}
    /\ candidates = {}
    /\ expiredIds = {}
    /\ today = 0

-----------------------------------------------------------------------------
(* A moderator, or the provider, publishes or withdraws the listing.       *)
Moderate ==
    /\ bookable' = ~bookable
    /\ UNCHANGED <<stockVars, request, cancelling, today, sweepVars>>

Midnight ==
    /\ today < LastToday
    /\ today' = today + 1
    /\ UNCHANGED <<stockVars, bookable, request, cancelling, sweepVars>>

(* The checks before the transaction; the listing is not read again.       *)
AskFor(b, D, n) ==
    /\ status[b] = "ABSENT"
    /\ request[b] = NoRequest
    /\ bookable
    /\ request' = [request EXCEPT ![b] = [days |-> D, people |-> n]]
    /\ UNCHANGED <<stockVars, bookable, cancelling, today, sweepVars>>

(* The transaction: a booking on every date asked for, or none at all.     *)
Commit(b) ==
    LET r == request[b]
    IN  /\ r # NoRequest
        /\ \/ Book(b, r.days, r.people)
           \/ ~CanTake(r.days, r.people) /\ UNCHANGED stockVars
        /\ request' = [request EXCEPT ![b] = NoRequest]
        /\ UNCHANGED <<bookable, cancelling, today, sweepVars>>

Start(b) == CHOOSE d \in days[b] : \A x \in days[b] : d <= x

(* The owner may cancel a CONFIRMED booking that has not started.  Several *)
(* requests for one booking may be past this check, so none is withdrawn.  *)
AskCancel(b) ==
    /\ status[b] = "CONFIRMED"
    /\ Start(b) > today
    /\ cancelling' = cancelling \cup {b}
    /\ UNCHANGED <<stockVars, bookable, request, today, sweepVars>>

(* Mutant: a second cancellation gives the units back again.               *)
CommitCancelAgain(b) ==
    /\ b \in cancelling
    /\ status' = [status EXCEPT ![b] = "CANCELLED"]
    /\ GiveBack(b)
    /\ UNCHANGED <<listed, days, people, edit, stale, requestVars, sweepVars>>

(* UPDATE ... WHERE status = 'CONFIRMED'; no affected row, nothing to do.  *)
CommitCancel(b) ==
    /\ b \in cancelling
    /\ Cancel(b)
    /\ UNCHANGED <<requestVars, sweepVars>>

(* The webhook's transaction, see the payment modules.                     *)
Pay(b) == Confirm(b) /\ UNCHANGED <<requestVars, sweepVars>>

-----------------------------------------------------------------------------
(* The expiration job: one worker, a run every five minutes.               *)

(* createdAt falls behind the cutoff, thirty minutes by default: by then   *)
(* the request that created the booking has ended.                         *)
Age(b) ==
    /\ status[b] = "PENDING_PAYMENT"
    /\ overdue' = overdue \cup {b}
    /\ UNCHANGED <<stockVars, requestVars, candidates, expiredIds>>

(* Mutant: the cutoff is compared the wrong way round.                     *)
ScanRecent ==
    /\ candidates = {}
    /\ candidates' = {b \in Booking \ overdue : status[b] = "PENDING_PAYMENT"}
    /\ expiredIds' = {}
    /\ UNCHANGED <<stockVars, requestVars, overdue>>

Scan ==
    /\ candidates = {}
    /\ candidates' = {b \in overdue : status[b] = "PENDING_PAYMENT"}
    /\ expiredIds' = {}
    /\ UNCHANGED <<stockVars, requestVars, overdue>>

(* Mutant: the affected-row count is not looked at.                        *)
ExpireNextUnchecked(b) ==
    /\ b \in candidates
    /\ candidates' = candidates \ {b}
    /\ expiredIds' = expiredIds \cup {b}
    /\ \/ Expire(b)
       \/ status[b] # "PENDING_PAYMENT" /\ UNCHANGED stockVars
    /\ UNCHANGED <<requestVars, overdue>>

(* One transaction per candidate; one that was paid since the scan is left *)
(* alone and is not among the ids handed to the payment and coupon tables. *)
ExpireNext(b) ==
    /\ b \in candidates
    /\ candidates' = candidates \ {b}
    /\ \/ Expire(b) /\ expiredIds' = expiredIds \cup {b}
       \/ status[b] # "PENDING_PAYMENT" /\ UNCHANGED <<stockVars, expiredIds>>
    /\ UNCHANGED <<requestVars, overdue>>

(* The process stops, or a query fails, in the middle of a run.            *)
CutShort ==
    /\ candidates # {}
    /\ candidates' = {}
    /\ expiredIds' = {}
    /\ UNCHANGED <<stockVars, requestVars, overdue>>

Edit(e) ==
    /\ \/ \E first, last \in Day, t \in Totals : SetRequest(e, first, last, t)
       \/ SetStep(e)
    /\ UNCHANGED <<requestVars, sweepVars>>

(* Every action but the create request, whose checks differ by domain.     *)
ServiceStep ==
    \/ Moderate \/ Midnight \/ Scan \/ CutShort
    \/ \E b \in Booking : \/ Commit(b) \/ AskCancel(b) \/ CommitCancel(b)
                          \/ Pay(b) \/ Age(b) \/ ExpireNext(b)
    \/ \E e \in Editor : Edit(e)

(* Time passes, the queue runs the job again and again, and a run reaches  *)
(* every candidate unless it is cut short, which does not happen each time.*)
SweepFairness ==
    /\ WF_serviceVars(Scan)
    /\ \A b \in Booking : WF_serviceVars(Age(b)) /\ SF_serviceVars(ExpireNext(b))

-----------------------------------------------------------------------------
(* Properties                                                              *)

(* The ids a run passes on to fail payments and roll back coupons are      *)
(* bookings that really expired: none was paid between scan and UPDATE.    *)
ExpiredIdsExpired == \A b \in expiredIds : status[b] = "EXPIRED"

(* A booking that was paid is never taken back by a stale expiration run:  *)
(* only its own cancellation ends it.                                      *)
ConfirmedOutlivesSweep ==
    [][\A b \in Booking : status[b] = "CONFIRMED" => status'[b] \in {"CONFIRMED", "CANCELLED"}]_serviceVars

(* No booking holds units for ever without being paid.                     *)
PendingSettles ==
    \A b \in Booking : status[b] = "PENDING_PAYMENT" ~> status[b] # "PENDING_PAYMENT"
=============================================================================
