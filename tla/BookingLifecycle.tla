-------------------------- MODULE BookingLifecycle --------------------------
(***************************************************************************)
(* What the five booking tables promise: the state machine of              *)
(* BookingStatus, with the traveller's money beside it.  A booking is      *)
(* confirmed only once its money was taken, and REFUNDED only once the     *)
(* money went back, which happens to bookings under refund alone.          *)
(***************************************************************************)
CONSTANT Booking

VARIABLES
    status,  \* BookingStatus, "ABSENT" before the insert
    money    \* where the traveller's money is: never taken, taken, returned

lifecycleVars == <<status, money>>

LifecycleInit ==
    /\ status = [b \in Booking |-> "ABSENT"]
    /\ money = [b \in Booking |-> "none"]

Move(b, from, to) == status[b] = from /\ status' = [status EXCEPT ![b] = to]

Reserve(b) == Move(b, "ABSENT", "PENDING_PAYMENT") /\ UNCHANGED money

(* Stripe takes the money, whatever became of the booking meanwhile.       *)
Charge(b) ==
    /\ status[b] # "ABSENT"
    /\ money[b] = "none"
    /\ money' = [money EXCEPT ![b] = "taken"]
    /\ UNCHANGED status

Confirm(b) ==
    /\ money[b] = "taken"
    /\ Move(b, "PENDING_PAYMENT", "CONFIRMED")
    /\ UNCHANGED money

Expire(b) == Move(b, "PENDING_PAYMENT", "EXPIRED") /\ UNCHANGED money

Cancel(b) == Move(b, "CONFIRMED", "CANCELLED") /\ UNCHANGED money

AskRefund(b) == Move(b, "CANCELLED", "REFUND_PENDING") /\ UNCHANGED money

Return(b) ==
    /\ status[b] = "REFUND_PENDING"
    /\ money[b] = "taken"
    /\ money' = [money EXCEPT ![b] = "returned"]
    /\ UNCHANGED status

Close(b) ==
    /\ money[b] = "returned"
    /\ Move(b, "REFUND_PENDING", "REFUNDED")
    /\ UNCHANGED money

LifecycleNext ==
    \E b \in Booking : \/ Reserve(b) \/ Charge(b) \/ Confirm(b) \/ Expire(b)
                       \/ Cancel(b) \/ AskRefund(b) \/ Return(b) \/ Close(b)

LifecycleSpec == LifecycleInit /\ [][LifecycleNext]_lifecycleVars
=============================================================================
