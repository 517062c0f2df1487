------------------------------ MODULE MCCoupon ------------------------------
(* Three bookings, two of them with the same id in different domains, two  *)
(* travellers and one coupon.                                              *)
EXTENDS Coupon, TLC

MCBooking == {<<"HOTEL", 1>>, <<"HOTEL", 2>>, <<"TOUR", 1>>}
Symmetry == Permutations(User)
=============================================================================
