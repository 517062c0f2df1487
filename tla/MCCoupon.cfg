SPECIFICATION Spec
CONSTANTS
    Booking <- MCBooking
    User = {u1, u2}
    Code = {c1}
    Limits = {1, 2, NoLimit}
    PerUserLimit = 1
    NoLimit = NoLimit
    NoCode = NoCode
    NoUser = NoUser
SYMMETRY Symmetry
INVARIANTS
    UsedCountExact
    DiscountKeepsRedemption
    PerUserLimitWithoutOverlap
    ExpiredGivesBackUnlessForgotten
PROPERTIES
    LimitRespected
