SPECIFICATION Spec
CONSTANTS
    Booking = {b1, b2}
    Editor = {e1, e2}
    LastDate = 1
    Capacities <- MCCapacities
    MaxSeats = 2
SYMMETRY Symmetry
INVARIANTS
    SeatsExclusive
    TakenIsHeld
    CabinWholeOrEmpty
    SeatNumbersUnique
