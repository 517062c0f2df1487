SPECIFICATION Spec
CONSTANTS
    Booking <- MCBooking
    User = {u1}
    Code = {c1}
    Limits = {1}
    PerUserLimit = 1
    NoLimit = NoLimit
    NoCode = NoCode
    NoUser = NoUser
INVARIANTS
    ExpiredGivesBack
