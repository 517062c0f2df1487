SPECIFICATION Spec
CONSTANTS
    Domain = {HOTEL}
    BookingId = {1}
    Session = {s1, s2}
    NoBooking = NoBooking
    NoSession = NoSession
SYMMETRY Symmetry
INVARIANTS
    NoSuccessOnExpired
CHECK_DEADLOCK FALSE
