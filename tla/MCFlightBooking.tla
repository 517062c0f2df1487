-------------------------- MODULE MCFlightBooking --------------------------
(* One departure, an aircraft whose cabin is changed, two travellers and   *)
(* two requests of the airline.                                            *)
EXTENDS FlightBooking, TLC

MCCapacities == {[business |-> 1, economy |-> 1], [business |-> 0, economy |-> 1]}
Symmetry == Permutations(Booking) \cup Permutations(Editor)
=============================================================================
