SPECIFICATION StockSpec
CONSTANTS
    Booking = {b1, b2}
    Editor = {e1, e2}
    Horizon = 2
    MaxParty = 2
    Totals = {1, 3}
SYMMETRY Symmetry
INVARIANTS
    BookedIsSold
    Balanced
    NoOversellUnlessStale
