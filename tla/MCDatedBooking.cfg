SPECIFICATION DatedSpec
CONSTANTS
    Booking = {b1, b2}
    Editor = {e1}
    Horizon = 2
    MaxParty = 2
    Totals <- MCTotals
    LastToday = 1
    MAX_NIGHTS = 2
    MaxGroup = 1
INVARIANTS
    ExpiredIdsExpired
    StaysWhole
PROPERTIES
    PendingSettles
    StockSpec
    ConfirmedOutlivesSweep
