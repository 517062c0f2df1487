-------------------------------- MODULE Money --------------------------------
(* How exact amounts, in ten thousandths of a cent, are rounded.            *)
EXTENDS Integers

\* A stored amount, in cents, as an exact one; and p percent of it.
Exact(amount) == amount * 10000
PercentOf(amount, p) == amount * p * 100

\* DECIMAL(10,2): half a cent is rounded up.
Cents(x) == (x + 5000) \div 10000

\* Math.round, for Stripe, which takes dong and no fraction of one.
Units(x) == (x + 500000) \div 1000000
=============================================================================
