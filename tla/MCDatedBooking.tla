--------------------------- MODULE MCDatedBooking ---------------------------
(* A listing of any of the four domains with two dates, two travellers and *)
(* one provider request.                                                   *)
EXTENDS DatedBooking, TLC

MCTotals == {1}
=============================================================================
