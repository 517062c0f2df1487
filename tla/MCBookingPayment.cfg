SPECIFICATION Spec
CONSTANTS
    Domain = {HOTEL, TOUR}
    BookingId = {1}
    Session = {s1, s2}
    NoBooking = NoBooking
    NoSession = NoSession
SYMMETRY Symmetry
INVARIANTS
    ConfirmedWasPaid
    SuccessIsBacked
PROPERTIES
    IntentKept
    SuccessUndoneByRetryOnly
    PaymentFailsForCause
    ImplementsLifecycle
CHECK_DEADLOCK FALSE
