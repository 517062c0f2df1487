---------------------------- MODULE SeatNumbers ----------------------------
(***************************************************************************)
(* generateSeatNumbers: the seats of a cabin.  A seat number is a pair of  *)
(* a row and the index of its letter, a seat a pair of number and class.   *)
(***************************************************************************)
EXTENDS Integers

BUSINESS_LETTERS == 4   \* ABCD
ECONOMY_LETTERS == 6    \* ABCDEF

(* Seats are handed out letter by letter and row by row, until there are   *)
(* as many as the capacity.                                                *)
GenerateRows(capacity, letters, startRow) ==
    {<<startRow + i \div letters, i % letters>> : i \in 0..(capacity - 1)}

(* The row after the last one begun.                                       *)
NextRow(capacity, letters, startRow) ==
    startRow + (capacity + letters - 1) \div letters

BusinessSeats(c) == GenerateRows(c.business, BUSINESS_LETTERS, 1)

(* Mutant: the economy rows begin at the first row too.                    *)
EconomySeatsFromFirstRow(c) == GenerateRows(c.economy, ECONOMY_LETTERS, 1)
EconomySeats(c) ==
    GenerateRows(c.economy, ECONOMY_LETTERS, NextRow(c.business, BUSINESS_LETTERS, 1) + 1)

(* A seat row keeps the class it was generated for.                        *)
GenerateSeatNumbers(c) ==
    (BusinessSeats(c) \X {"BUSINESS"}) \cup (EconomySeats(c) \X {"ECONOMY"})
=============================================================================
