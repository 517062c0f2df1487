SPECIFICATION FairSpec
CONSTANTS
    Domain = {HOTEL}
    BookingId = {1}
    Session = {s1, s2}
    NoBooking = NoBooking
    NoSession = NoSession
PROPERTIES
    RefundReachesBooking
    PaidOnceSettles
CHECK_DEADLOCK FALSE
