------------------------ MODULE BookingPaymentProofs ------------------------
(***************************************************************************)
(* Proofs about BookingPayment, for every set of domains, bookings and     *)
(* Checkout Sessions.                                                      *)
(***************************************************************************)
EXTENDS BookingPayment, TLAPS

(* A session that was opened carries the id of a payment that exists, and  *)
(* the expiration job holds the ids of expired bookings only.              *)
SessionsOwned ==
    /\ \A s \in Session : session[s] # "unused" =>
          /\ owner[s] \in Booking
          /\ booking[owner[s]] # "ABSENT"
          /\ payment[owner[s]] # "ABSENT"
    /\ \A s \in retrying : session[s] # "unused"
    /\ \A s \in confirming : session[s] = "paid"
    /\ \A b \in Booking : creating[b] # "idle" => booking[b] # "ABSENT"
    /\ \A b \in Booking : creating[b] = "booked" => payment[b] = "ABSENT"
    /\ \A b \in Booking : creating[b] = "paying" => payment[b] # "ABSENT"
    /\ \A b \in Booking : booking[b] = "ABSENT" => payment[b] = "ABSENT"
    /\ \A b \in expiredIds : booking[b] = "EXPIRED"

PaidBy(s, b) == owner[s] = b /\ session[s] = "paid"

(* The invoice stands for a session that was paid, and nothing is SUCCESS  *)
(* or confirmed without it.                                                *)
InvoicesBacked ==
    /\ \A b \in invoice : intent[b] \in Session /\ PaidBy(intent[b], b)
    /\ \A b \in Booking \ invoice : intent[b] = NoSession
    /\ \A b \in Booking : payment[b] = "SUCCESS" => b \in invoice
    /\ \A b \in Booking : booking[b] \in WasConfirmed => b \in invoice

(* How far the refund has come shows in the booking.                       *)
RefundsInOrder ==
    /\ \A b \in Booking : cancelling[b] \in {"cancelled", "found"} => booking[b] = "CANCELLED"
    /\ \A b \in Booking : cancelling[b] = "recorded" =>
          booking[b] = "REFUND_PENDING" /\ stripeRefund[b] = "none"
    /\ \A b \in Booking : stripeRefund[b] \in {"pending", "failed"} => booking[b] = "REFUND_PENDING"
    /\ \A b \in Booking : stripeRefund[b] = "succeeded" => booking[b] \in {"REFUND_PENDING", "REFUNDED"}
    /\ \A b \in Booking : booking[b] = "REFUNDED" => stripeRefund[b] = "succeeded"
    /\ \A b \in refunding : stripeRefund[b] = "succeeded"

IInv == TypeOK /\ SessionsOwned /\ InvoicesBacked /\ RefundsInOrder

-----------------------------------------------------------------------------
(* The initial state                                                       *)

LEMMA InitIInv == Init => IInv
<1> SUFFICES ASSUME Init PROVE IInv
  OBVIOUS
<1>1. TypeOK
  BY DEF Init, TypeOK, BookingStatus, PaymentStatus
<1>2. SessionsOwned
  BY DEF Init, SessionsOwned
<1>3. InvoicesBacked
  BY DEF Init, InvoicesBacked, WasConfirmed
<1>4. RefundsInOrder
  BY DEF Init, RefundsInOrder
<1>5. QED
  BY <1>1, <1>2, <1>3, <1>4 DEF IInv

-----------------------------------------------------------------------------
(* Steps                                                                   *)

(* Every action keeps the variables in their types.                        *)
LEMMA TypeStep ==
    ASSUME TypeOK, SessionsOwned, [Next]_vars
    PROVE  TypeOK'
<1> USE DEF TypeOK, BookingStatus, PaymentStatus, SessionsOwned, rows, stripe, flows
<1>1. ASSUME NEW b \in Booking, CreateBooking(b) PROVE TypeOK'
  BY <1>1 DEF CreateBooking
<1>2. ASSUME NEW b \in Booking, CreatePayment(b) PROVE TypeOK'
  BY <1>2 DEF CreatePayment
<1>3. ASSUME NEW b \in Booking, CreateFails(b) PROVE TypeOK'
  BY <1>3 DEF CreateFails
<1>4. ASSUME NEW b \in Booking, RecordCommission(b) PROVE TypeOK'
  BY <1>4 DEF RecordCommission
<1>5. ASSUME NEW b \in Booking, SettlingFails(b) PROVE TypeOK'
  BY <1>5 DEF SettlingFails
<1>6. ASSUME NEW b \in Booking, ExpireBooking(b) PROVE TypeOK'
  BY <1>6 DEF ExpireBooking
<1>7. ASSUME NEW b \in Booking, CancelBooking(b) PROVE TypeOK'
  BY <1>7 DEF CancelBooking
<1>8. ASSUME NEW b \in Booking, FindSuccessfulPayment(b) PROVE TypeOK'
  BY <1>8 DEF FindSuccessfulPayment
<1>9. ASSUME NEW b \in Booking, CreateStripeRefund(b) PROVE TypeOK'
  BY <1>9 DEF CreateStripeRefund
<1>10. ASSUME NEW b \in Booking, CancelStops(b) PROVE TypeOK'
  BY <1>10 DEF CancelStops
<1>11. ASSUME NEW b \in Booking, RefundEnds(b) PROVE TypeOK'
  BY <1>11 DEF RefundEnds
<1>12. ASSUME NEW b \in Booking, RefundSucceededRead(b) PROVE TypeOK'
  BY <1>12 DEF RefundSucceededRead
<1>13. ASSUME NEW b \in Booking, RefundSucceededCommit(b) PROVE TypeOK'
  BY <1>13 DEF RefundSucceededCommit, RefundedStatus
<1>14. ASSUME NEW b \in Booking, RefundFailed(b) PROVE TypeOK'
  BY <1>14 DEF RefundFailed
<1>15. ASSUME NEW b \in Booking, NEW s \in Session, CreateSession(b, s) PROVE TypeOK'
  BY <1>15 DEF CreateSession, OpenSession
<1>16. ASSUME NEW b \in Booking, NEW s \in Session, Retry(b, s) PROVE TypeOK'
  BY <1>16 DEF Retry, OpenSession
<1>17. ASSUME NEW b \in Booking, NEW due \in BOOLEAN, CreateRefundRecord(b, due) PROVE TypeOK'
  BY <1>17 DEF CreateRefundRecord
<1>18. ASSUME NEW s \in Session, ResetForRetry(s) PROVE TypeOK'
  BY <1>18 DEF ResetForRetry
<1>19. ASSUME NEW s \in Session, PaySession(s) PROVE TypeOK'
  BY <1>19 DEF PaySession, SessionEnds
<1>20. ASSUME NEW s \in Session, LapseSession(s) PROVE TypeOK'
  BY <1>20 DEF LapseSession, SessionEnds
<1>21. ASSUME NEW s \in Session, CompletedRead(s) PROVE TypeOK'
  BY <1>21 DEF CompletedRead
<1>22. ASSUME NEW s \in Session, CompletedCommit(s) PROVE TypeOK'
  BY <1>22 DEF CompletedCommit, ConfirmedStatus, Invoiced, RecordIntent
<1>23. ASSUME NEW s \in Session, SessionExpired(s) PROVE TypeOK'
  BY <1>23 DEF SessionExpired
<1>24. ASSUME AllDomainsExpired PROVE TypeOK'
  BY <1>24 DEF AllDomainsExpired
<1>25. ASSUME SweepFails PROVE TypeOK'
  BY <1>25 DEF SweepFails
<1>26. ASSUME NEW d \in Domain, FailPayments(d) PROVE TypeOK'
  BY <1>26 DEF FailPayments, SameBooking, DomainOf
<1>27. CASE UNCHANGED vars
  BY <1>27 DEF vars
<1>28. QED
  BY <1>1, <1>2, <1>3, <1>4, <1>5, <1>6, <1>7, <1>8, <1>9, <1>10, <1>11, <1>12, <1>13, <1>14,
     <1>15, <1>16, <1>17, <1>18, <1>19, <1>20, <1>21, <1>22, <1>23, <1>24, <1>25, <1>26,
     <1>27 DEF Next

(* Every action keeps sessions with a payment that exists.                 *)
LEMMA SessionsStep ==
    ASSUME TypeOK, SessionsOwned, [Next]_vars
    PROVE  SessionsOwned'
<1> USE DEF TypeOK, SessionsOwned, rows, stripe, flows
<1>1. ASSUME NEW b \in Booking, CreateBooking(b) PROVE SessionsOwned'
  BY <1>1 DEF CreateBooking
<1>2. ASSUME NEW b \in Booking, CreatePayment(b) PROVE SessionsOwned'
  BY <1>2 DEF CreatePayment
<1>3. ASSUME NEW b \in Booking, CreateFails(b) PROVE SessionsOwned'
  BY <1>3 DEF CreateFails
<1>4. ASSUME NEW b \in Booking, RecordCommission(b) PROVE SessionsOwned'
  BY <1>4 DEF RecordCommission
<1>5. ASSUME NEW b \in Booking, SettlingFails(b) PROVE SessionsOwned'
  BY <1>5 DEF SettlingFails
<1>6. ASSUME NEW b \in Booking, ExpireBooking(b) PROVE SessionsOwned'
  BY <1>6 DEF ExpireBooking
<1>7. ASSUME NEW b \in Booking, CancelBooking(b) PROVE SessionsOwned'
  BY <1>7 DEF CancelBooking
<1>8. ASSUME NEW b \in Booking, FindSuccessfulPayment(b) PROVE SessionsOwned'
  BY <1>8 DEF FindSuccessfulPayment
<1>9. ASSUME NEW b \in Booking, CreateStripeRefund(b) PROVE SessionsOwned'
  BY <1>9 DEF CreateStripeRefund
<1>10. ASSUME NEW b \in Booking, CancelStops(b) PROVE SessionsOwned'
  BY <1>10 DEF CancelStops
<1>11. ASSUME NEW b \in Booking, RefundEnds(b) PROVE SessionsOwned'
  BY <1>11 DEF RefundEnds
<1>12. ASSUME NEW b \in Booking, RefundSucceededRead(b) PROVE SessionsOwned'
  BY <1>12 DEF RefundSucceededRead
<1>13. ASSUME NEW b \in Booking, RefundSucceededCommit(b) PROVE SessionsOwned'
  BY <1>13 DEF RefundSucceededCommit, RefundedStatus
<1>14. ASSUME NEW b \in Booking, RefundFailed(b) PROVE SessionsOwned'
  BY <1>14 DEF RefundFailed
<1>15. ASSUME NEW b \in Booking, NEW s \in Session, CreateSession(b, s) PROVE SessionsOwned'
  BY <1>15 DEF CreateSession, OpenSession
<1>16. ASSUME NEW b \in Booking, NEW s \in Session, Retry(b, s) PROVE SessionsOwned'
  BY <1>16 DEF Retry, OpenSession
<1>17. ASSUME NEW b \in Booking, NEW due \in BOOLEAN, CreateRefundRecord(b, due) PROVE SessionsOwned'
  BY <1>17 DEF CreateRefundRecord
<1>18. ASSUME NEW s \in Session, ResetForRetry(s) PROVE SessionsOwned'
  BY <1>18 DEF ResetForRetry
<1>19. ASSUME NEW s \in Session, PaySession(s) PROVE SessionsOwned'
  BY <1>19 DEF PaySession, SessionEnds
<1>20. ASSUME NEW s \in Session, LapseSession(s) PROVE SessionsOwned'
  BY <1>20 DEF LapseSession, SessionEnds
<1>21. ASSUME NEW s \in Session, CompletedRead(s) PROVE SessionsOwned'
  BY <1>21 DEF CompletedRead
<1>22. ASSUME NEW s \in Session, CompletedCommit(s) PROVE SessionsOwned'
  BY <1>22 DEF CompletedCommit, ConfirmedStatus, Invoiced, RecordIntent
<1>23. ASSUME NEW s \in Session, SessionExpired(s) PROVE SessionsOwned'
  BY <1>23 DEF SessionExpired
<1>24. ASSUME AllDomainsExpired PROVE SessionsOwned'
  BY <1>24 DEF AllDomainsExpired
<1>25. ASSUME SweepFails PROVE SessionsOwned'
  BY <1>25 DEF SweepFails
<1>26. ASSUME NEW d \in Domain, FailPayments(d) PROVE SessionsOwned'
  BY <1>26 DEF FailPayments, SameBooking, DomainOf
<1>27. CASE UNCHANGED vars
  BY <1>27 DEF vars
<1>28. QED
  BY <1>1, <1>2, <1>3, <1>4, <1>5, <1>6, <1>7, <1>8, <1>9, <1>10, <1>11, <1>12, <1>13, <1>14,
     <1>15, <1>16, <1>17, <1>18, <1>19, <1>20, <1>21, <1>22, <1>23, <1>24, <1>25, <1>26,
     <1>27 DEF Next

(* Every action keeps invoices backed by a paid session.                   *)
LEMMA InvoicesStep ==
    ASSUME TypeOK, SessionsOwned, InvoicesBacked, RefundsInOrder, [Next]_vars
    PROVE  InvoicesBacked'
<1> USE DEF TypeOK, SessionsOwned, InvoicesBacked, PaidBy, WasConfirmed, rows, stripe, flows
<1>1. ASSUME NEW b \in Booking, CreateBooking(b) PROVE InvoicesBacked'
  BY <1>1 DEF CreateBooking
<1>2. ASSUME NEW b \in Booking, CreatePayment(b) PROVE InvoicesBacked'
  BY <1>2 DEF CreatePayment
<1>3. ASSUME NEW b \in Booking, CreateFails(b) PROVE InvoicesBacked'
  BY <1>3 DEF CreateFails
<1>4. ASSUME NEW b \in Booking, RecordCommission(b) PROVE InvoicesBacked'
  BY <1>4 DEF RecordCommission
<1>5. ASSUME NEW b \in Booking, SettlingFails(b) PROVE InvoicesBacked'
  BY <1>5 DEF SettlingFails
<1>6. ASSUME NEW b \in Booking, ExpireBooking(b) PROVE InvoicesBacked'
  BY <1>6 DEF ExpireBooking
<1>7. ASSUME NEW b \in Booking, CancelBooking(b) PROVE InvoicesBacked'
  BY <1>7 DEF CancelBooking
<1>8. ASSUME NEW b \in Booking, FindSuccessfulPayment(b) PROVE InvoicesBacked'
  BY <1>8 DEF FindSuccessfulPayment
<1>9. ASSUME NEW b \in Booking, CreateStripeRefund(b) PROVE InvoicesBacked'
  BY <1>9 DEF CreateStripeRefund
<1>10. ASSUME NEW b \in Booking, CancelStops(b) PROVE InvoicesBacked'
  BY <1>10 DEF CancelStops
<1>11. ASSUME NEW b \in Booking, RefundEnds(b) PROVE InvoicesBacked'
  BY <1>11 DEF RefundEnds
<1>12. ASSUME NEW b \in Booking, RefundSucceededRead(b) PROVE InvoicesBacked'
  BY <1>12 DEF RefundSucceededRead
<1>13. ASSUME NEW b \in Booking, RefundSucceededCommit(b) PROVE InvoicesBacked'
  BY <1>13 DEF RefundSucceededCommit, RefundedStatus
<1>14. ASSUME NEW b \in Booking, RefundFailed(b) PROVE InvoicesBacked'
  BY <1>14 DEF RefundFailed
<1>15. ASSUME NEW b \in Booking, NEW s \in Session, CreateSession(b, s) PROVE InvoicesBacked'
  BY <1>15 DEF CreateSession, OpenSession
<1>16. ASSUME NEW b \in Booking, NEW s \in Session, Retry(b, s) PROVE InvoicesBacked'
  BY <1>16 DEF Retry, OpenSession
<1>17. ASSUME NEW b \in Booking, NEW due \in BOOLEAN, CreateRefundRecord(b, due) PROVE InvoicesBacked'
  BY <1>17 DEF CreateRefundRecord
<1>18. ASSUME NEW s \in Session, ResetForRetry(s) PROVE InvoicesBacked'
  BY <1>18 DEF ResetForRetry
<1>19. ASSUME NEW s \in Session, PaySession(s) PROVE InvoicesBacked'
  BY <1>19 DEF PaySession, SessionEnds
<1>20. ASSUME NEW s \in Session, LapseSession(s) PROVE InvoicesBacked'
  BY <1>20 DEF LapseSession, SessionEnds
<1>21. ASSUME NEW s \in Session, CompletedRead(s) PROVE InvoicesBacked'
  BY <1>21 DEF CompletedRead
<1>22. ASSUME NEW s \in Session, CompletedCommit(s) PROVE InvoicesBacked'
  BY <1>22 DEF CompletedCommit, ConfirmedStatus, Invoiced, RecordIntent
<1>23. ASSUME NEW s \in Session, SessionExpired(s) PROVE InvoicesBacked'
  BY <1>23 DEF SessionExpired
<1>24. ASSUME AllDomainsExpired PROVE InvoicesBacked'
  BY <1>24 DEF AllDomainsExpired
<1>25. ASSUME SweepFails PROVE InvoicesBacked'
  BY <1>25 DEF SweepFails
<1>26. ASSUME NEW d \in Domain, FailPayments(d) PROVE InvoicesBacked'
  BY <1>26 DEF FailPayments, SameBooking, DomainOf
<1>27. CASE UNCHANGED vars
  BY <1>27 DEF vars
<1>28. QED
  BY <1>1, <1>2, <1>3, <1>4, <1>5, <1>6, <1>7, <1>8, <1>9, <1>10, <1>11, <1>12, <1>13, <1>14,
     <1>15, <1>16, <1>17, <1>18, <1>19, <1>20, <1>21, <1>22, <1>23, <1>24, <1>25, <1>26,
     <1>27 DEF Next

(* Every action keeps refunds in order.                                    *)
LEMMA RefundsStep ==
    ASSUME TypeOK, SessionsOwned, InvoicesBacked, RefundsInOrder, [Next]_vars
    PROVE  RefundsInOrder'
<1> USE DEF TypeOK, RefundsInOrder, rows, stripe, flows
<1>1. ASSUME NEW b \in Booking, CreateBooking(b) PROVE RefundsInOrder'
  BY <1>1 DEF CreateBooking
<1>2. ASSUME NEW b \in Booking, CreatePayment(b) PROVE RefundsInOrder'
  BY <1>2 DEF CreatePayment
<1>3. ASSUME NEW b \in Booking, CreateFails(b) PROVE RefundsInOrder'
  BY <1>3 DEF CreateFails
<1>4. ASSUME NEW b \in Booking, RecordCommission(b) PROVE RefundsInOrder'
  BY <1>4 DEF RecordCommission
<1>5. ASSUME NEW b \in Booking, SettlingFails(b) PROVE RefundsInOrder'
  BY <1>5 DEF SettlingFails
<1>6. ASSUME NEW b \in Booking, ExpireBooking(b) PROVE RefundsInOrder'
  BY <1>6 DEF ExpireBooking
<1>7. ASSUME NEW b \in Booking, CancelBooking(b) PROVE RefundsInOrder'
  BY <1>7 DEF CancelBooking
<1>8. ASSUME NEW b \in Booking, FindSuccessfulPayment(b) PROVE RefundsInOrder'
  BY <1>8 DEF FindSuccessfulPayment
<1>9. ASSUME NEW b \in Booking, CreateStripeRefund(b) PROVE RefundsInOrder'
  BY <1>9 DEF CreateStripeRefund
<1>10. ASSUME NEW b \in Booking, CancelStops(b) PROVE RefundsInOrder'
  BY <1>10 DEF CancelStops
<1>11. ASSUME NEW b \in Booking, RefundEnds(b) PROVE RefundsInOrder'
  BY <1>11 DEF RefundEnds
<1>12. ASSUME NEW b \in Booking, RefundSucceededRead(b) PROVE RefundsInOrder'
  BY <1>12 DEF RefundSucceededRead
<1>13. ASSUME NEW b \in Booking, RefundSucceededCommit(b) PROVE RefundsInOrder'
  BY <1>13 DEF RefundSucceededCommit, RefundedStatus
<1>14. ASSUME NEW b \in Booking, RefundFailed(b) PROVE RefundsInOrder'
  BY <1>14 DEF RefundFailed
<1>15. ASSUME NEW b \in Booking, NEW s \in Session, CreateSession(b, s) PROVE RefundsInOrder'
  BY <1>15 DEF CreateSession, OpenSession
<1>16. ASSUME NEW b \in Booking, NEW s \in Session, Retry(b, s) PROVE RefundsInOrder'
  BY <1>16 DEF Retry, OpenSession
<1>17. ASSUME NEW b \in Booking, NEW due \in BOOLEAN, CreateRefundRecord(b, due) PROVE RefundsInOrder'
  BY <1>17 DEF CreateRefundRecord
<1>18. ASSUME NEW s \in Session, ResetForRetry(s) PROVE RefundsInOrder'
  BY <1>18 DEF ResetForRetry
<1>19. ASSUME NEW s \in Session, PaySession(s) PROVE RefundsInOrder'
  BY <1>19 DEF PaySession, SessionEnds
<1>20. ASSUME NEW s \in Session, LapseSession(s) PROVE RefundsInOrder'
  BY <1>20 DEF LapseSession, SessionEnds
<1>21. ASSUME NEW s \in Session, CompletedRead(s) PROVE RefundsInOrder'
  BY <1>21 DEF CompletedRead
<1>22. ASSUME NEW s \in Session, CompletedCommit(s) PROVE RefundsInOrder'
  BY <1>22 DEF CompletedCommit, ConfirmedStatus, Invoiced, RecordIntent
<1>23. ASSUME NEW s \in Session, SessionExpired(s) PROVE RefundsInOrder'
  BY <1>23 DEF SessionExpired
<1>24. ASSUME AllDomainsExpired PROVE RefundsInOrder'
  BY <1>24 DEF AllDomainsExpired
<1>25. ASSUME SweepFails PROVE RefundsInOrder'
  BY <1>25 DEF SweepFails
<1>26. ASSUME NEW d \in Domain, FailPayments(d) PROVE RefundsInOrder'
  BY <1>26 DEF FailPayments, SameBooking, DomainOf
<1>27. CASE UNCHANGED vars
  BY <1>27 DEF vars
<1>28. QED
  BY <1>1, <1>2, <1>3, <1>4, <1>5, <1>6, <1>7, <1>8, <1>9, <1>10, <1>11, <1>12, <1>13, <1>14,
     <1>15, <1>16, <1>17, <1>18, <1>19, <1>20, <1>21, <1>22, <1>23, <1>24, <1>25, <1>26,
     <1>27 DEF Next

LEMMA NextIInv == IInv /\ [Next]_vars => IInv'
  BY TypeStep, SessionsStep, InvoicesStep, RefundsStep DEF IInv

(* The inductive invariant holds throughout.                               *)
THEOREM PaymentInvariant == Spec => []IInv
  BY InitIInv, NextIInv, PTL DEF Spec

-----------------------------------------------------------------------------
(* Safety                                                                  *)

(* Every variable keeps its type.                                          *)
THEOREM PaymentTypeCorrect == Spec => []TypeOK
<1>1. IInv => TypeOK
  BY DEF IInv
<1>2. QED
  BY <1>1, PaymentInvariant, PTL

(* No booking is confirmed, cancelled or refunded that was not paid for.   *)
THEOREM OnlyPaidConfirmed == Spec => []ConfirmedWasPaid
<1>1. IInv => ConfirmedWasPaid
  BY DEF IInv, InvoicesBacked, PaidBy, ConfirmedWasPaid, Charged
<1>2. QED
  BY <1>1, PaymentInvariant, PTL

(* Every SUCCESS payment has an invoice and the intent it was paid with.   *)
THEOREM OnlyPaidSucceeds == Spec => []SuccessIsBacked
<1>1. IInv => SuccessIsBacked
  BY DEF IInv, InvoicesBacked, PaidBy, SuccessIsBacked, TypeOK
<1>2. QED
  BY <1>1, PaymentInvariant, PTL

-----------------------------------------------------------------------------
(* What a step may not do                                                  *)

(* The payment table is written by five actions only.                       *)
LEMMA PaymentWriters ==
    ASSUME [Next]_vars
    PROVE  \/ payment' = payment
           \/ \E b \in Booking : CreatePayment(b)
           \/ \E s \in Session : ResetForRetry(s) \/ CompletedCommit(s) \/ SessionExpired(s)
           \/ \E d \in Domain : FailPayments(d)
  BY DEF Next, CreateBooking, CreateFails, CreateSession, Retry, OpenSession, RecordCommission,
     SettlingFails, ExpireBooking,
             CancelBooking, FindSuccessfulPayment, CreateRefundRecord, CreateStripeRefund,
             CancelStops, RefundEnds,
             RefundSucceededRead, RefundSucceededCommit, RefundedStatus, RefundFailed,
             PaySession, LapseSession, SessionEnds, CompletedRead, AllDomainsExpired, SweepFails,
             rows, vars

(* A payment in SUCCESS is only taken out of it by a retry of that payment.*)
THEOREM OnlyRetryUndoes == Spec => SuccessUndoneByRetryOnly
<1> DEFINE A == \A b \in Booking : payment[b] = "SUCCESS" /\ payment'[b] # "SUCCESS"
                   => \E s \in retrying : owner[s] = b /\ s \notin retrying'
<1>1. IInv /\ [Next]_vars => A
  <2> SUFFICES ASSUME IInv, [Next]_vars,
                      NEW b \in Booking, payment[b] = "SUCCESS", payment'[b] # "SUCCESS"
               PROVE  \E s \in retrying : owner[s] = b /\ s \notin retrying'
    OBVIOUS
  <2> USE DEF IInv, TypeOK, SessionsOwned, PaymentStatus
  <2>1. ASSUME NEW c \in Booking, CreatePayment(c) PROVE FALSE
    BY <2>1 DEF CreatePayment
  <2>2. ASSUME NEW s \in Session, ResetForRetry(s) PROVE \E t \in retrying : owner[t] = b /\ t \notin retrying'
    BY <2>2 DEF ResetForRetry
  <2>3. ASSUME NEW s \in Session, CompletedCommit(s) PROVE FALSE
    BY <2>3 DEF CompletedCommit, ConfirmedStatus, Invoiced, RecordIntent
  <2>4. ASSUME NEW s \in Session, SessionExpired(s) PROVE FALSE
    BY <2>4 DEF SessionExpired
  <2>5. ASSUME NEW d \in Domain, FailPayments(d) PROVE FALSE
    BY <2>5 DEF FailPayments, SameBooking
  <2>6. QED
    BY <2>1, <2>2, <2>3, <2>4, <2>5, PaymentWriters
<1>2. QED
  BY <1>1, PaymentInvariant, PTL DEF Spec, SuccessUndoneByRetryOnly

(* The intent of a payment is recorded once.                               *)
THEOREM IntentRecordedOnce == Spec => IntentKept
<1> DEFINE A == \A b \in Booking : intent[b] # NoSession => intent'[b] = intent[b]
<1>1. IInv /\ [Next]_vars => A
  <2> SUFFICES ASSUME IInv, [Next]_vars PROVE A
    OBVIOUS
  <2>1. intent' = intent \/ \E s \in Session : CompletedCommit(s)
    BY DEF Next, CreateBooking, CreatePayment, CreateFails, CreateSession, Retry, OpenSession,
           RecordCommission, SettlingFails, ExpireBooking, CancelBooking, FindSuccessfulPayment,
           CreateRefundRecord, CreateStripeRefund, CancelStops, RefundEnds, RefundSucceededRead,
           RefundSucceededCommit, RefundedStatus, RefundFailed, ResetForRetry, PaySession,
           LapseSession, SessionEnds,
           CompletedRead, SessionExpired, AllDomainsExpired, SweepFails, FailPayments,
           SameBooking, rows, vars
  <2>2. ASSUME NEW s \in Session, CompletedCommit(s) PROVE A
    BY <2>2 DEF CompletedCommit, ConfirmedStatus, Invoiced, RecordIntent, IInv, TypeOK,
       InvoicesBacked
  <2>3. QED
    BY <2>1, <2>2
<1>2. QED
  BY <1>1, PaymentInvariant, PTL DEF Spec, IntentKept

(* A payment fails for a lapsed session or the expiry of its own booking.  *)
THEOREM FailsForCause == Spec => PaymentFailsForCause
<1> DEFINE A == \A b \in Booking : payment[b] # "FAILED" /\ payment'[b] = "FAILED"
                   => \/ booking[b] = "EXPIRED"
                      \/ \E s \in Session : owner[s] = b /\ session[s] = "expired"
<1>1. IInv /\ [Next]_vars => A
  <2> SUFFICES ASSUME IInv, [Next]_vars,
                      NEW b \in Booking, payment[b] # "FAILED", payment'[b] = "FAILED"
               PROVE  \/ booking[b] = "EXPIRED"
                      \/ \E s \in Session : owner[s] = b /\ session[s] = "expired"
    OBVIOUS
  <2> USE DEF IInv, TypeOK, SessionsOwned, PaymentStatus
  <2>1. ASSUME NEW c \in Booking, CreatePayment(c) PROVE FALSE
    BY <2>1 DEF CreatePayment
  <2>2. ASSUME NEW s \in Session, ResetForRetry(s) PROVE FALSE
    BY <2>2 DEF ResetForRetry
  <2>3. ASSUME NEW s \in Session, CompletedCommit(s) PROVE FALSE
    BY <2>3 DEF CompletedCommit, ConfirmedStatus, Invoiced, RecordIntent
  <2>4. ASSUME NEW s \in Session, SessionExpired(s) PROVE owner[s] = b /\ session[s] = "expired"
    BY <2>4 DEF SessionExpired
  <2>5. ASSUME NEW d \in Domain, FailPayments(d) PROVE booking[b] = "EXPIRED"
    BY <2>5 DEF FailPayments, SameBooking
  <2>6. QED
    BY <2>1, <2>2, <2>3, <2>4, <2>5, PaymentWriters
<1>2. QED
  BY <1>1, PaymentInvariant, PTL DEF Spec, PaymentFailsForCause

-----------------------------------------------------------------------------
(* Refinement                                                              *)

moneyOf == [b \in Booking |-> Money(b)]

(* Who was charged changes only when a session is paid: a session being    *)
(* opened was nobody's.                                                    *)
LEMMA ChargedSteps ==
    ASSUME TypeOK, SessionsOwned, [Next]_vars,
           ~ \E s \in Session : PaySession(s), NEW b \in Booking
    PROVE  Charged(b)' <=> Charged(b)
<1>1. /\ \A s \in Session : session'[s] = "paid" <=> session[s] = "paid"
      /\ \A s \in Session : session[s] = "paid" => owner'[s] = owner[s]
  BY DEF TypeOK, Next, CreateBooking, CreatePayment, CreateFails, CreateSession, Retry, OpenSession,
         RecordCommission, SettlingFails, ExpireBooking, CancelBooking, FindSuccessfulPayment,
         CreateRefundRecord, CreateStripeRefund, CancelStops, RefundEnds, RefundSucceededRead,
         RefundSucceededCommit, RefundedStatus, RefundFailed, ResetForRetry, LapseSession,
         SessionEnds,
         CompletedRead, CompletedCommit, ConfirmedStatus, Invoiced, RecordIntent, SessionExpired,
         AllDomainsExpired, SweepFails, FailPayments, SameBooking,
         stripe, vars
<1>2. QED
  BY <1>1 DEF Charged

(* As long as nobody is charged and Stripe's refunds stand, so does money. *)
LEMMA MoneySame ==
    ASSUME TypeOK, SessionsOwned, [Next]_vars,
           ~ \E s \in Session : PaySession(s), stripeRefund' = stripeRefund
    PROVE  moneyOf' = moneyOf
<1>1. \A b \in Booking : Money(b)' = Money(b)
  BY ChargedSteps DEF Money
<1>2. QED
  BY <1>1 DEF moneyOf

(* A paid session charges its booking once.                                *)
LEMMA PaySessionCharges ==
    ASSUME IInv, NEW s \in Session, PaySession(s)
    PROVE  Lifecycle!Charge(owner[s]) \/ (booking' = booking /\ moneyOf' = moneyOf)
<1> DEFINE c == owner[s]
<1>1. /\ c \in Booking /\ booking[c] # "ABSENT"
      /\ booking' = booking /\ stripeRefund' = stripeRefund /\ owner' = owner
      /\ session \in [Session -> {"unused", "open", "paid", "expired"}]
      /\ session' = [session EXCEPT ![s] = "paid"]
  BY DEF IInv, TypeOK, SessionsOwned, PaySession, SessionEnds, rows
<1>2. \A b \in Booking \ {c} : Charged(b)' <=> Charged(b)
  BY <1>1 DEF Charged
<1>3. Charged(c)'
  BY <1>1 DEF Charged
<1>4. \A b \in Booking \ {c} : Money(b)' = Money(b)
  BY <1>1, <1>2 DEF Money
<1>5. CASE Money(c) = "none"
  <2>1. Money(c)' = "taken"
    BY <1>1, <1>3, <1>5 DEF Money
  <2>2. moneyOf' = [moneyOf EXCEPT ![c] = "taken"] /\ moneyOf[c] = "none"
    BY <1>1, <1>4, <1>5, <2>1 DEF moneyOf
  <2>3. QED
    BY <1>1, <2>2 DEF Lifecycle!Charge, moneyOf
<1>6. CASE Money(c) # "none"
  <2>1. Money(c)' = Money(c)
    BY <1>1, <1>3, <1>6 DEF Money
  <2>2. QED
    BY <1>1, <1>4, <2>1 DEF moneyOf
<1>7. QED
  BY <1>5, <1>6

(* Stripe's refund returns the money of a booking that waits for it.       *)
LEMMA RefundReturns ==
    ASSUME IInv, NEW b \in Booking, RefundEnds(b)
    PROVE  Lifecycle!Return(b) \/ (booking' = booking /\ moneyOf' = moneyOf)
<1>1. /\ booking' = booking /\ stripeRefund[b] = "pending"
      /\ owner' = owner /\ session' = session
      /\ \/ stripeRefund' = [stripeRefund EXCEPT ![b] = "succeeded"]
         \/ stripeRefund' = [stripeRefund EXCEPT ![b] = "failed"]
  BY DEF RefundEnds, rows
<1>2. \A c \in Booking : Charged(c)' <=> Charged(c)
  BY <1>1 DEF Charged
<1>3. booking[b] = "REFUND_PENDING" /\ Charged(b)
  BY <1>1 DEF IInv, TypeOK, RefundsInOrder, InvoicesBacked, PaidBy, WasConfirmed, Charged
<1>4. Money(b) = "taken" /\ moneyOf[b] = "taken"
  BY <1>1, <1>3 DEF Money, moneyOf
<1>5. \A c \in Booking \ {b} : Money(c)' = Money(c)
  BY <1>1, <1>2 DEF Money, IInv, TypeOK
<1>6. CASE stripeRefund' = [stripeRefund EXCEPT ![b] = "succeeded"]
  <2>1. Money(b)' = "returned"
    BY <1>6 DEF Money, IInv, TypeOK
  <2>2. moneyOf' = [moneyOf EXCEPT ![b] = "returned"]
    BY <1>5, <2>1 DEF moneyOf
  <2>3. QED
    BY <1>1, <1>3, <1>4, <2>2 DEF Lifecycle!Return, moneyOf
<1>7. CASE stripeRefund' = [stripeRefund EXCEPT ![b] = "failed"]
  <2>1. Money(b)' = "taken"
    BY <1>2, <1>3, <1>7 DEF Money, IInv, TypeOK
  <2>2. QED
    BY <1>1, <1>4, <1>5, <2>1 DEF moneyOf
<1>8. QED
  BY <1>1, <1>6, <1>7

(* Asking Stripe for a refund moves no money yet.                          *)
LEMMA AskingKeepsMoney ==
    ASSUME IInv, NEW b \in Booking, CreateStripeRefund(b)
    PROVE  booking' = booking /\ moneyOf' = moneyOf
<1>1. /\ booking' = booking /\ owner' = owner /\ session' = session
      /\ stripeRefund' = [stripeRefund EXCEPT ![b] = "pending"] /\ stripeRefund[b] = "none"
  BY DEF CreateStripeRefund, rows, IInv, TypeOK, RefundsInOrder
<1>2. \A c \in Booking : (Charged(c)' <=> Charged(c))
  BY <1>1 DEF Charged
<1>3. \A c \in Booking : (stripeRefund'[c] = "succeeded") <=> (stripeRefund[c] = "succeeded")
  BY <1>1 DEF IInv, TypeOK
<1>4. \A c \in Booking : Money(c)' = Money(c)
  BY <1>2, <1>3 DEF Money
<1>5. QED
  BY <1>1, <1>4 DEF moneyOf

(* Every step of the implementation is a step of the BookingStatus machine *)
(* or leaves status and money as they are.                                 *)
LEMMA LifecycleStep ==
    ASSUME IInv, [Next]_vars
    PROVE  Lifecycle!LifecycleNext \/ (booking' = booking /\ moneyOf' = moneyOf)
<1> DEFINE Maps == Lifecycle!LifecycleNext \/ (booking' = booking /\ moneyOf' = moneyOf)
<1>1. CASE \E s \in Session : PaySession(s)
  <2>1. PICK s \in Session : PaySession(s)
    BY <1>1
  <2>2. owner[s] \in Booking
    BY <2>1 DEF IInv, SessionsOwned, PaySession, SessionEnds
  <2>3. QED
    BY <2>1, <2>2, PaySessionCharges DEF Lifecycle!LifecycleNext
<1>2. CASE \E b \in Booking : RefundEnds(b)
  BY <1>2, RefundReturns DEF Lifecycle!LifecycleNext
<1>3. CASE \E b \in Booking : CreateStripeRefund(b)
  BY <1>3, AskingKeepsMoney
<1>4. CASE /\ ~ \E s \in Session : PaySession(s)
           /\ ~ \E b \in Booking : RefundEnds(b)
           /\ ~ \E b \in Booking : CreateStripeRefund(b)
  <2>1. stripeRefund' = stripeRefund
    BY <1>4 DEF Next, CreateBooking, CreatePayment, CreateFails, CreateSession, Retry, OpenSession,
           RecordCommission, SettlingFails, ExpireBooking, CancelBooking, FindSuccessfulPayment,
           CreateRefundRecord, CancelStops, RefundSucceededRead,
           RefundSucceededCommit, RefundedStatus, RefundFailed, ResetForRetry, LapseSession,
           SessionEnds,
           CompletedRead, CompletedCommit, ConfirmedStatus, Invoiced, RecordIntent,
           SessionExpired, AllDomainsExpired, SweepFails, FailPayments, SameBooking,
           stripe, vars
  <2>2. moneyOf' = moneyOf
    BY <1>4, <2>1, MoneySame DEF IInv
  <2>3. \/ booking' = booking
        \/ \E b \in Booking : \/ CreateBooking(b) \/ ExpireBooking(b) \/ CancelBooking(b)
                              \/ RefundSucceededCommit(b)
                              \/ \E due \in BOOLEAN : CreateRefundRecord(b, due)
        \/ \E s \in Session : CompletedCommit(s)
    BY <1>4 DEF Next, CreatePayment, CreateFails, CreateSession, Retry, OpenSession,
           RecordCommission, SettlingFails, FindSuccessfulPayment, CancelStops, RefundSucceededRead,
           RefundFailed, ResetForRetry, LapseSession, SessionEnds, CompletedRead, SessionExpired,
           AllDomainsExpired, SweepFails, FailPayments, SameBooking, rows, vars
  <2> USE DEF Lifecycle!Move
  <2>4. ASSUME NEW b \in Booking, CreateBooking(b) PROVE Lifecycle!Reserve(b)
    BY <2>2, <2>4 DEF CreateBooking, Lifecycle!Reserve, moneyOf
  <2>5. ASSUME NEW b \in Booking, ExpireBooking(b) PROVE Lifecycle!Expire(b)
    BY <2>2, <2>5 DEF ExpireBooking, Lifecycle!Expire, moneyOf
  <2>6. ASSUME NEW b \in Booking, CancelBooking(b) PROVE Lifecycle!Cancel(b)
    BY <2>2, <2>6 DEF CancelBooking, Lifecycle!Cancel, moneyOf
  <2>7. ASSUME NEW b \in Booking, RefundSucceededCommit(b)
        PROVE  Lifecycle!Close(b) \/ booking' = booking
    <3>1. stripeRefund[b] = "succeeded" /\ moneyOf[b] = "returned"
      BY <2>7 DEF RefundSucceededCommit, RefundedStatus, IInv, RefundsInOrder, Money, moneyOf
    <3>2. QED
      BY <2>2, <2>7, <3>1 DEF RefundSucceededCommit, RefundedStatus, Lifecycle!Close, moneyOf,
         IInv, TypeOK
  <2>8. ASSUME NEW b \in Booking, NEW due \in BOOLEAN, CreateRefundRecord(b, due)
        PROVE  Lifecycle!AskRefund(b) \/ booking' = booking
    BY <2>2, <2>8 DEF CreateRefundRecord, Lifecycle!AskRefund, moneyOf, IInv, TypeOK
  <2>9. ASSUME NEW s \in Session, CompletedCommit(s)
        PROVE  Lifecycle!Confirm(owner[s]) \/ booking' = booking
    <3>1. owner[s] \in Booking /\ Charged(owner[s])
      BY <2>9 DEF CompletedCommit, ConfirmedStatus, Invoiced, RecordIntent, IInv, SessionsOwned,
         Charged
    <3>2. CASE booking[owner[s]] = "PENDING_PAYMENT"
      <4>1. stripeRefund[owner[s]] # "succeeded"
        BY <3>1, <3>2 DEF IInv, RefundsInOrder
      <4>2. moneyOf[owner[s]] = "taken"
        BY <3>1, <4>1 DEF moneyOf, Money
      <4>3. QED
        BY <2>2, <2>9, <3>1, <3>2, <4>2 DEF CompletedCommit, ConfirmedStatus, Invoiced,
           RecordIntent, Lifecycle!Confirm, moneyOf, IInv, TypeOK
    <3>3. CASE booking[owner[s]] # "PENDING_PAYMENT"
      BY <2>9, <3>1, <3>3 DEF CompletedCommit, ConfirmedStatus, Invoiced, RecordIntent, IInv, TypeOK
    <3>4. QED
      BY <3>2, <3>3
  <2>10. ASSUME NEW s \in Session, CompletedCommit(s) PROVE owner[s] \in Booking
    BY <2>10 DEF CompletedCommit, ConfirmedStatus, Invoiced, RecordIntent, IInv, SessionsOwned
  <2>11. QED
    BY <2>2, <2>3, <2>4, <2>5, <2>6, <2>7, <2>8, <2>9, <2>10 DEF Lifecycle!LifecycleNext
<1>5. QED
  BY <1>1, <1>2, <1>3, <1>4

(* The payment of bookings implements the BookingStatus machine.           *)
THEOREM PaymentImplementsLifecycle == Spec => ImplementsLifecycle
<1>1. Init => Lifecycle!LifecycleInit
  BY DEF Init, Lifecycle!LifecycleInit, Money, Charged
<1>2. IInv /\ [Next]_vars => [Lifecycle!LifecycleNext]_(Lifecycle!lifecycleVars)
  BY LifecycleStep DEF Lifecycle!lifecycleVars, moneyOf
<1>3. QED
  BY <1>1, <1>2, PaymentInvariant, PTL DEF Spec, ImplementsLifecycle, Lifecycle!LifecycleSpec
=============================================================================
