SPECIFICATION StockSpec
CONSTANTS
    Booking = {b1, b2}
    Editor = {e1}
    Horizon = 1
    MaxParty = 2
    Totals = {1, 3}
INVARIANTS
    NoOversell
