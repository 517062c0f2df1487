-------------------------- MODULE MCBookingPayment --------------------------
EXTENDS BookingPayment, TLC
Symmetry == Permutations(Session)
=============================================================================
