---- MODULE MCDatedStock ----
EXTENDS DatedStock, TLC
Symmetry == Permutations(Booking) \cup Permutations(Editor)
====
