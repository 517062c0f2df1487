--------------------------- MODULE BookingPayment ---------------------------
(***************************************************************************)
(* The payment of bookings, for the five booking domains: the create and   *)
(* retry requests, Stripe's Checkout Sessions and their webhooks, the      *)
(* expiration job, cancellation and refund.  PaymentService knows a        *)
(* booking by its domain and its id within that domain's table; a booking  *)
(* has one Payment row, whatever the number of Checkout Sessions.          *)
(*                                                                         *)
(* A database transaction is one step, except the two that read a status   *)
(* without a lock and write it by id later (the webhooks of a completed    *)
(* session and of a succeeded refund): those are a read and a commit.      *)
(* A call to Stripe, and what Stripe does on its own, are steps of their   *)
(* own.  A webhook may be delivered any number of times, at any time after *)
(* its event and in any order: its handler is enabled by the state of the  *)
(* Stripe object.  The stock that a booking holds is in DatedStock.        *)
(***************************************************************************)
EXTENDS FiniteSets

CONSTANTS
    Domain,    \* BookingDomain: HOTEL, TOUR, ...
    BookingId, \* ids within a domain's table: domains share their values
    Session,   \* Stripe Checkout Sessions
    NoBooking,
    NoSession

Booking == Domain \X BookingId
DomainOf(b) == b[1]

ASSUME PaymentAssumption == NoBooking \notin Booking /\ NoSession \notin Session

VARIABLES
    booking,      \* status of the row in the domain's booking table
    payment,      \* status of the Payment row
    intent,       \* its paymentIntentId: the session whose payment it records
    invoice,      \* bookings with an Invoice row, unique per Payment
    commission,   \* bookings with a Commission row, unique per Payment
    refund        \* status of the Refund row, unique per Payment

VARIABLES         \* Stripe
    session,      \* state of each Checkout Session
    owner,        \* metadata.paymentId of the session
    stripeRefund  \* state of the refund asked of Stripe

VARIABLES         \* requests and jobs under way
    creating,     \* create request: the booking is in, then its payment is in
    retrying,     \* sessions opened by a retry that has yet to reset the payment
    confirming,   \* completed sessions whose webhook has read a PENDING payment
    settling,     \* webhooks that confirmed and have yet to record the commission
    cancelling,   \* cancel request: cancelled, payment found, refund recorded
    refunding,    \* refund webhooks that have read a PENDING refund
    sweep,        \* expiration job: still expiring bookings, or failing payments
    expiredIds    \* bookings it expired in this run, in memory

rows == <<booking, payment, intent, invoice, commission, refund>>
stripe == <<session, owner, stripeRefund>>
flows == <<creating, retrying, confirming, settling, cancelling, refunding, sweep, expiredIds>>
vars == <<rows, stripe, flows>>

BookingStatus == {"ABSENT", "PENDING_PAYMENT", "CONFIRMED", "EXPIRED",
                  "CANCELLED", "REFUND_PENDING", "REFUNDED"}
PaymentStatus == {"ABSENT", "PENDING", "SUCCESS", "FAILED"}

Init ==
    /\ booking = [b \in Booking |-> "ABSENT"]
    /\ payment = [b \in Booking |-> "ABSENT"]
    /\ intent = [b \in Booking |-> NoSession]
    /\ invoice = {}
    /\ commission = {}
    /\ refund = [b \in Booking |-> "ABSENT"]
    /\ session = [s \in Session |-> "unused"]
    /\ owner = [s \in Session |-> NoBooking]
    /\ stripeRefund = [b \in Booking |-> "none"]
    /\ creating = [b \in Booking |-> "idle"]
    /\ retrying = {}
    /\ confirming = {}
    /\ settling = {}
    /\ cancelling = [b \in Booking |-> "idle"]
    /\ refunding = {}
    /\ sweep = "expiring"
    /\ expiredIds = {}

-----------------------------------------------------------------------------
(* Create request                                                          *)

CreateBooking(b) ==
    /\ booking[b] = "ABSENT"
    /\ booking' = [booking EXCEPT ![b] = "PENDING_PAYMENT"]
    /\ creating' = [creating EXCEPT ![b] = "booked"]
    /\ UNCHANGED <<payment, intent, invoice, commission, refund, stripe,
                   retrying, confirming, settling, cancelling, refunding, sweep, expiredIds>>

CreatePayment(b) ==
    /\ creating[b] = "booked"
    /\ payment' = [payment EXCEPT ![b] = "PENDING"]
    /\ creating' = [creating EXCEPT ![b] = "paying"]
    /\ UNCHANGED <<booking, intent, invoice, commission, refund, stripe,
                   retrying, confirming, settling, cancelling, refunding, sweep, expiredIds>>

(* Stripe opens a Checkout Session that carries the id of the payment.     *)
OpenSession(b, s) ==
    /\ session[s] = "unused"
    /\ session' = [session EXCEPT ![s] = "open"]
    /\ owner' = [owner EXCEPT ![s] = b]
    /\ UNCHANGED stripeRefund

CreateSession(b, s) ==
    /\ creating[b] = "paying"
    /\ OpenSession(b, s)
    /\ creating' = [creating EXCEPT ![b] = "idle"]
    /\ UNCHANGED <<rows, retrying, confirming, settling, cancelling, refunding, sweep, expiredIds>>

(* Stripe refuses, or the process stops: the rows written so far stay.     *)
CreateFails(b) ==
    /\ creating[b] # "idle"
    /\ creating' = [creating EXCEPT ![b] = "idle"]
    /\ UNCHANGED <<rows, stripe, retrying, confirming, settling, cancelling, refunding, sweep, expiredIds>>

-----------------------------------------------------------------------------
(* Retry request                                                           *)

(* The payment must not have succeeded when it is read; the booking is not *)
(* looked at, and the sessions opened before stay open.                    *)
Retry(b, s) ==
    /\ payment[b] \in {"PENDING", "FAILED"}
    /\ OpenSession(b, s)
    /\ retrying' = retrying \cup {s}
    /\ UNCHANGED <<rows, creating, confirming, settling, cancelling, refunding, sweep, expiredIds>>

(* After Stripe has answered: an unconditional write.                      *)
ResetForRetry(s) ==
    /\ s \in retrying
    /\ retrying' = retrying \ {s}
    /\ payment' = [payment EXCEPT ![owner[s]] = "PENDING"]
    /\ UNCHANGED <<booking, intent, invoice, commission, refund, stripe,
                   creating, confirming, settling, cancelling, refunding, sweep, expiredIds>>

-----------------------------------------------------------------------------
(* Stripe: the traveller pays, or the session lapses.                      *)

SessionEnds(s, how) ==
    /\ session[s] = "open"
    /\ session' = [session EXCEPT ![s] = how]
    /\ UNCHANGED <<rows, owner, stripeRefund, flows>>

PaySession(s) == SessionEnds(s, "paid")
LapseSession(s) == SessionEnds(s, "expired")

-----------------------------------------------------------------------------
(* Webhooks of Checkout Sessions                                           *)

(* Mutant: a lapsed session is handled as a completed one.                 *)
CompletedReadAnyEnd(s) ==
    /\ session[s] \in {"paid", "expired"}
    /\ payment[owner[s]] = "PENDING"
    /\ confirming' = confirming \cup {s}
    /\ UNCHANGED <<rows, stripe, creating, retrying, settling, cancelling, refunding, sweep, expiredIds>>

CompletedRead(s) ==
    /\ session[s] = "paid"
    /\ payment[owner[s]] = "PENDING"
    /\ confirming' = confirming \cup {s}
    /\ UNCHANGED <<rows, stripe, creating, retrying, settling, cancelling, refunding, sweep, expiredIds>>

(* Mutant: the booking is forgotten.                                       *)
NeverConfirmed(st) == st

(* UPDATE ... SET status = 'CONFIRMED' WHERE status = 'PENDING_PAYMENT'.   *)
ConfirmedStatus(st) == IF st = "PENDING_PAYMENT" THEN "CONFIRMED" ELSE st

(* Mutant: Invoice has no unique key on its payment.                       *)
NeverInvoiced(b) == FALSE
Invoiced(b) == b \in invoice

(* Mutant: the intent of the session is not stored.                        *)
ForgetIntent(b, s) == UNCHANGED intent
RecordIntent(b, s) == intent' = [intent EXCEPT ![b] = s]

(* The payment is written by id, the booking only if still PENDING_PAYMENT;*)
(* a second Invoice for the payment violates its key and rolls all back.   *)
CompletedCommit(s) ==
    LET b == owner[s]
    IN  /\ s \in confirming
        /\ confirming' = confirming \ {s}
        /\ \/ /\ ~Invoiced(b)
              /\ payment' = [payment EXCEPT ![b] = "SUCCESS"]
              /\ RecordIntent(b, s)
              /\ booking' = [booking EXCEPT ![b] = ConfirmedStatus(@)]
              /\ invoice' = invoice \cup {b}
              /\ settling' = settling \cup {b}
           \/ /\ Invoiced(b)
              /\ UNCHANGED <<payment, intent, booking, invoice, settling>>
        /\ UNCHANGED <<commission, refund, stripe, creating, retrying, cancelling, refunding, sweep, expiredIds>>

(* Only after the notification was queued; never tried again, because a    *)
(* redelivery of the webhook finds the payment no longer PENDING.          *)
RecordCommission(b) ==
    /\ b \in settling
    /\ settling' = settling \ {b}
    /\ commission' = commission \cup {b}
    /\ UNCHANGED <<booking, payment, intent, invoice, refund, stripe,
                   creating, retrying, confirming, cancelling, refunding, sweep, expiredIds>>

SettlingFails(b) ==
    /\ b \in settling
    /\ settling' = settling \ {b}
    /\ UNCHANGED <<rows, stripe, creating, retrying, confirming, cancelling, refunding, sweep, expiredIds>>

(* Mutant: the UPDATE has no status guard.                                 *)
SessionExpiredAnyway(s) ==
    /\ session[s] = "expired"
    /\ payment' = [payment EXCEPT ![owner[s]] = "FAILED"]
    /\ UNCHANGED <<booking, intent, invoice, commission, refund, stripe, flows>>

(* UPDATE ... WHERE status = 'PENDING', whichever session lapsed.          *)
SessionExpired(s) ==
    /\ session[s] = "expired"
    /\ payment[owner[s]] = "PENDING"
    /\ payment' = [payment EXCEPT ![owner[s]] = "FAILED"]
    /\ UNCHANGED <<booking, intent, invoice, commission, refund, stripe, flows>>

-----------------------------------------------------------------------------
(* Expiration job                                                          *)

(* A booking is older than the cutoff only after its create request ended. *)
ExpireBooking(b) ==
    /\ sweep = "expiring"
    /\ booking[b] = "PENDING_PAYMENT"
    /\ creating[b] = "idle"
    /\ booking' = [booking EXCEPT ![b] = "EXPIRED"]
    /\ expiredIds' = expiredIds \cup {b}
    /\ UNCHANGED <<payment, intent, invoice, commission, refund, stripe,
                   creating, retrying, confirming, settling, cancelling, refunding, sweep>>

AllDomainsExpired ==
    /\ sweep = "expiring"
    /\ expiredIds # {}
    /\ sweep' = "failing"
    /\ UNCHANGED <<rows, stripe, creating, retrying, confirming, settling, cancelling, refunding, expiredIds>>

(* Mutant: ids are compared without their domain.                          *)
SameId(b, c) == b[2] = c[2]

(* A payment's booking is found by bookingDomain and bookingId.            *)
SameBooking(b, c) == b = c

(* One UPDATE per domain: PENDING payments of the ids expired there.       *)
FailPayments(d) ==
    LET ids == {b \in expiredIds : DomainOf(b) = d}
        due(b) == payment[b] = "PENDING" /\ \E c \in ids : SameBooking(b, c)
    IN  /\ sweep = "failing"
        /\ ids # {}
        /\ payment' = [b \in Booking |-> IF due(b) THEN "FAILED" ELSE payment[b]]
        /\ expiredIds' = expiredIds \ ids
        /\ sweep' = IF expiredIds' = {} THEN "expiring" ELSE sweep
        /\ UNCHANGED <<booking, intent, invoice, commission, refund, stripe,
                       creating, retrying, confirming, settling, cancelling, refunding>>

(* The run ends early and forgets its ids; the next one starts afresh.     *)
SweepFails ==
    /\ expiredIds # {}
    /\ expiredIds' = {}
    /\ sweep' = "expiring"
    /\ UNCHANGED <<rows, stripe, creating, retrying, confirming, settling, cancelling, refunding>>

-----------------------------------------------------------------------------
(* Cancel request                                                          *)

(* Mutant: a booking that was not paid is cancelled like one that was.     *)
CancelAnyLive(b) ==
    /\ booking[b] \in {"PENDING_PAYMENT", "CONFIRMED"}
    /\ booking' = [booking EXCEPT ![b] = "CANCELLED"]
    /\ cancelling' = [cancelling EXCEPT ![b] = "cancelled"]
    /\ UNCHANGED <<payment, intent, invoice, commission, refund, stripe,
                   creating, retrying, confirming, settling, refunding, sweep, expiredIds>>

CancelBooking(b) ==
    /\ booking[b] = "CONFIRMED"
    /\ booking' = [booking EXCEPT ![b] = "CANCELLED"]
    /\ cancelling' = [cancelling EXCEPT ![b] = "cancelled"]
    /\ UNCHANGED <<payment, intent, invoice, commission, refund, stripe,
                   creating, retrying, confirming, settling, refunding, sweep, expiredIds>>

(* Without a SUCCESS payment the booking is taken as never paid.           *)
FindSuccessfulPayment(b) ==
    /\ cancelling[b] = "cancelled"
    /\ cancelling' = [cancelling EXCEPT ![b] = IF payment[b] = "SUCCESS" THEN "found" ELSE "idle"]
    /\ UNCHANGED <<rows, stripe, creating, retrying, confirming, settling, refunding, sweep, expiredIds>>

(* due: computeRefundAmount leaves something to refund.                    *)
CreateRefundRecord(b, due) ==
    /\ cancelling[b] = "found"
    /\ refund[b] = "ABSENT"
    /\ refund' = [refund EXCEPT ![b] = IF due THEN "PENDING" ELSE "SUCCESS"]
    /\ booking' = [booking EXCEPT ![b] = IF due /\ @ = "CANCELLED" THEN "REFUND_PENDING" ELSE @]
    /\ cancelling' = [cancelling EXCEPT ![b] = IF due THEN "recorded" ELSE "idle"]
    /\ UNCHANGED <<payment, intent, invoice, commission, stripe,
                   creating, retrying, confirming, settling, refunding, sweep, expiredIds>>

(* Stripe is asked to refund the recorded payment.                         *)
CreateStripeRefund(b) ==
    /\ cancelling[b] = "recorded"
    /\ intent[b] # NoSession
    /\ cancelling' = [cancelling EXCEPT ![b] = "idle"]
    /\ stripeRefund' = [stripeRefund EXCEPT ![b] = "pending"]
    /\ UNCHANGED <<rows, session, owner, creating, retrying, confirming, settling, refunding, sweep, expiredIds>>

(* Stripe refuses, the payment has no intent, or the process stops: what   *)
(* was committed stays and nothing resumes the request.                    *)
CancelStops(b) ==
    /\ cancelling[b] # "idle"
    /\ cancelling' = [cancelling EXCEPT ![b] = "idle"]
    /\ UNCHANGED <<rows, stripe, creating, retrying, confirming, settling, refunding, sweep, expiredIds>>

RefundEnds(b) ==
    /\ stripeRefund[b] = "pending"
    /\ \E how \in {"succeeded", "failed"} : stripeRefund' = [stripeRefund EXCEPT ![b] = how]
    /\ UNCHANGED <<rows, session, owner, flows>>

-----------------------------------------------------------------------------
(* Webhooks of refunds                                                     *)

RefundSucceededRead(b) ==
    /\ stripeRefund[b] = "succeeded"
    /\ refund[b] = "PENDING"
    /\ refunding' = refunding \cup {b}
    /\ UNCHANGED <<rows, stripe, creating, retrying, confirming, settling, cancelling, sweep, expiredIds>>

(* Mutant: the refund is closed, its booking is not.                       *)
RefundClosedAlone(st) == st

RefundedStatus(st) == IF st = "REFUND_PENDING" THEN "REFUNDED" ELSE st

RefundSucceededCommit(b) ==
    /\ b \in refunding
    /\ refunding' = refunding \ {b}
    /\ refund' = [refund EXCEPT ![b] = "SUCCESS"]
    /\ booking' = [booking EXCEPT ![b] = RefundedStatus(@)]
    /\ UNCHANGED <<payment, intent, invoice, commission, stripe,
                   creating, retrying, confirming, settling, cancelling, sweep, expiredIds>>

RefundFailed(b) ==
    /\ stripeRefund[b] = "failed"
    /\ refund[b] = "PENDING"
    /\ refund' = [refund EXCEPT ![b] = "FAILED"]
    /\ UNCHANGED <<booking, payment, intent, invoice, commission, stripe, flows>>

-----------------------------------------------------------------------------
Next ==
    \/ \E b \in Booking :
         \/ CreateBooking(b) \/ CreatePayment(b) \/ CreateFails(b)
         \/ \E s \in Session : CreateSession(b, s) \/ Retry(b, s)
         \/ RecordCommission(b) \/ SettlingFails(b)
         \/ ExpireBooking(b)
         \/ CancelBooking(b) \/ FindSuccessfulPayment(b)
         \/ \E due \in BOOLEAN : CreateRefundRecord(b, due)
         \/ CreateStripeRefund(b) \/ CancelStops(b)
         \/ RefundEnds(b)
         \/ RefundSucceededRead(b) \/ RefundSucceededCommit(b) \/ RefundFailed(b)
    \/ \E s \in Session :
         \/ ResetForRetry(s)
         \/ PaySession(s) \/ LapseSession(s)
         \/ CompletedRead(s) \/ CompletedCommit(s) \/ SessionExpired(s)
    \/ AllDomainsExpired \/ SweepFails
    \/ \E d \in Domain : FailPayments(d)

(* Stripe redelivers a webhook until it is answered.                       *)
WebhookFairness ==
    /\ \A s \in Session : WF_vars(CompletedRead(s)) /\ WF_vars(CompletedCommit(s))
    /\ \A b \in Booking : WF_vars(RefundSucceededRead(b)) /\ WF_vars(RefundSucceededCommit(b))

Spec == Init /\ [][Next]_vars
FairSpec == Spec /\ WebhookFairness
-----------------------------------------------------------------------------
(* Properties                                                              *)

TypeOK ==
    /\ booking \in [Booking -> BookingStatus]
    /\ payment \in [Booking -> PaymentStatus]
    /\ intent \in [Booking -> Session \cup {NoSession}]
    /\ invoice \subseteq Booking
    /\ commission \subseteq Booking
    /\ refund \in [Booking -> {"ABSENT", "PENDING", "SUCCESS", "FAILED"}]
    /\ session \in [Session -> {"unused", "open", "paid", "expired"}]
    /\ owner \in [Session -> Booking \cup {NoBooking}]
    /\ stripeRefund \in [Booking -> {"none", "pending", "succeeded", "failed"}]
    /\ creating \in [Booking -> {"idle", "booked", "paying"}]
    /\ retrying \subseteq Session
    /\ confirming \subseteq Session
    /\ settling \subseteq Booking
    /\ cancelling \in [Booking -> {"idle", "cancelled", "found", "recorded"}]
    /\ refunding \subseteq Booking
    /\ sweep \in {"expiring", "failing"}
    /\ expiredIds \subseteq Booking

Charged(b) == \E s \in Session : owner[s] = b /\ session[s] = "paid"

WasConfirmed == {"CONFIRMED", "CANCELLED", "REFUND_PENDING", "REFUNDED"}

(* A booking gets past PENDING_PAYMENT only if the traveller paid a        *)
(* session of its own, and then it has its invoice: no webhook, whether    *)
(* repeated, late or of a booking with the same id in another domain,      *)
(* confirms a booking that was not paid for.                               *)
ConfirmedWasPaid ==
    \A b \in Booking : booking[b] \in WasConfirmed => Charged(b) /\ b \in invoice

(* A payment is SUCCESS only with its invoice and with the intent of a     *)
(* session that was opened for it and paid: a refund goes to the traveller *)
(* who paid.                                                               *)
SuccessIsBacked ==
    \A b \in Booking : payment[b] = "SUCCESS" =>
        /\ b \in invoice
        /\ intent[b] \in {s \in Session : owner[s] = b /\ session[s] = "paid"}

(* The intent recorded for a payment is never replaced, not even when two  *)
(* of its sessions are paid and a retry set the row back to PENDING.       *)
IntentKept ==
    [][\A b \in Booking : intent[b] # NoSession => intent'[b] = intent[b]]_vars

(* Nothing but a retry of that payment takes a payment out of SUCCESS:     *)
(* neither a late webhook of a lapsed session nor the expiration job.      *)
SuccessUndoneByRetryOnly ==
    [][\A b \in Booking : payment[b] = "SUCCESS" /\ payment'[b] # "SUCCESS"
          => \E s \in retrying : owner[s] = b /\ s \notin retrying']_vars

(* A payment fails only because one of its own sessions lapsed or its own  *)
(* booking expired, never because of a booking that has the same id in     *)
(* another domain.                                                         *)
PaymentFailsForCause ==
    [][\A b \in Booking : payment[b] # "FAILED" /\ payment'[b] = "FAILED"
          => \/ booking[b] = "EXPIRED"
             \/ \E s \in Session : owner[s] = b /\ session[s] = "expired"]_vars

(* The booking tables implement the BookingStatus machine, with the        *)
(* traveller's money as Stripe has it.                                     *)
Money(b) ==
    IF stripeRefund[b] = "succeeded" THEN "returned"
    ELSE IF Charged(b) THEN "taken" ELSE "none"

Lifecycle ==
    INSTANCE BookingLifecycle WITH status <- booking, money <- [b \in Booking |-> Money(b)]

ImplementsLifecycle == Lifecycle!LifecycleSpec

(* Once Stripe has sent the money back the booking becomes REFUNDED.       *)
RefundReachesBooking ==
    \A b \in Booking : stripeRefund[b] = "succeeded" ~> booking[b] = "REFUNDED"

(* A booking paid through the only session it ever had does not stay       *)
(* PENDING_PAYMENT: it is confirmed, unless it expires first.              *)
PaidOnce(b) == Charged(b) /\ Cardinality({s \in Session : owner[s] = b}) = 1
PaidOnceSettles ==
    \A b \in Booking :
        (PaidOnce(b) /\ booking[b] = "PENDING_PAYMENT")
            ~> (booking[b] # "PENDING_PAYMENT" \/ ~PaidOnce(b))

(* payment.repository.ts:126: the payments of expired bookings are failed  *)
(* so that none ends in SUCCESS on an EXPIRED booking.                     *)
NoSuccessOnExpired ==
    \A b \in Booking : ~(booking[b] = "EXPIRED" /\ payment[b] = "SUCCESS")
=============================================================================
