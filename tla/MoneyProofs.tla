---------------------------- MODULE MoneyProofs -----------------------------
(***************************************************************************)
(* What is charged, shared and shown adds up: the price of a booking with  *)
(* its discounts and its refund, the commission of platform and provider   *)
(* with the overviews and charts made of it, and the figures of the        *)
(* dashboard.                                                              *)
(***************************************************************************)
EXTENDS Pricing, Ledger, Figures, FiniteSetTheorems, TLAPS

-----------------------------------------------------------------------------
\* What is rounded apart differs from the whole by one at most, and never falls short.
LEMMA SplitCents ==
    ASSUME NEW s \in Nat, NEW x \in 0..Exact(s)
    PROVE  /\ Cents(x) \in 0..s /\ Cents(Exact(s) - x) \in Nat
           /\ Cents(x) + Cents(Exact(s) - x) - s \in {0, 1}
  BY DEF Cents, Exact

-----------------------------------------------------------------------------
(* Prices.                                                                 *)

\* Rounding to cents first moves what Stripe collects by one unit at most, and only up.
LEMMA CollectsExact ==
    ASSUME NEW due \in Nat
    PROVE  /\ Units(due) * 100 - Cents(due) \in -50..50
           /\ Units(due) \in Nat
           /\ Units(Exact(Cents(due))) \in Units(due)..(Units(due) + (IF due % 10000 = 0 THEN 0 ELSE 1))
  BY DEF Cents, Units, Exact

\* What Stripe collects of a stored amount is that amount, to half a unit.
LEMMA CollectsStored ==
    ASSUME NEW amount \in Nat
    PROVE  Units(Exact(amount)) * 100 - amount \in -50..50 /\ Units(Exact(amount)) \in Nat
  BY DEF Units, Exact

\* A part of an amount is no more than the amount, rounded or not.
LEMMA PartOfAmount ==
    ASSUME NEW a \in Nat, NEW p \in 0..100
    PROVE  PercentOf(a, p) \in 0..Exact(a) /\ Exact(a) \in Nat
<1>1. a * p \in Nat /\ a * p <= a * 100
  OBVIOUS
<1> QED
  BY <1>1 DEF PercentOf, Exact

\* A part of an amount is no more than the amount in units,
LEMMA PartInUnits ==
    ASSUME NEW y \in Nat, NEW x \in 0..y
    PROVE  Units(x) <= Units(y) /\ Units(x) \in Nat /\ Units(y) \in Nat
  BY DEF Units

\* and in cents.
LEMMA PartInCents ==
    ASSUME NEW a \in Nat, NEW x \in 0..Exact(a)
    PROVE  Cents(x) <= a
  BY DEF Cents, Exact

\* Whoever cancels later gets no larger a part back.
LEMMA PercentFalls ==
    ASSUME NEW t \in Nat, NEW u \in Nat, t <= u
    PROVE  RefundPercent(u) <= RefundPercent(t) /\ RefundPercent(t) \in 0..100
<1>1. DaysUntilStart(u) <= DaysUntilStart(t) /\ DaysUntilStart(u) \in Int /\ DaysUntilStart(t) \in Int
  BY PricingAssumption DEF DaysUntilStart
<1>2. FullDays \in Int /\ PartialDays \in Int /\ PartialDays <= FullDays /\ PartialPercent \in 0..100
  BY PricingAssumption
<1> QED
  BY <1>1, <1>2 DEF RefundPercent

PromotionRow == [owner : Seller \cup {AnyProvider}, deal : Deal, priority : Priority,
                 running : BOOLEAN, domains : SUBSET Domains]

\* The kinds of what pricing keeps.
PricingShape ==
    /\ clock \in 0..LastTime
    /\ promotion \in [Promotion -> PromotionRow \cup {NoPromotion}]
    /\ purchase = [b \in Purchase |-> purchase[b]]

\* The amounts of a payment come from one exact amount due.
PriceKept(x) ==
    /\ x.subtotal \in Nat /\ x.due \in 0..Exact(x.subtotal)
    /\ x.amount = Cents(x.due) /\ x.discountAmount = Cents(Exact(x.subtotal) - x.due)

\* What a session asks for: the amount due, or the stored one.
Collected(x) == {Units(x.due), Units(Exact(x.amount))}

\* The amounts of a purchase, from its creation to its refund.
PurchaseKept(x) ==
    /\ x.stage \in {"NONE", "PENDING", "PAID", "CANCELLED"}
    /\ x.stage = "NONE" => x = NotPriced
    /\ x.stage # "NONE" => PriceKept(x)
    /\ x.stage = "PENDING" =>
         /\ x = [stage |-> "PENDING", subtotal |-> x.subtotal, due |-> x.due, amount |-> x.amount,
                 discountAmount |-> x.discountAmount, sessions |-> x.sessions]
         /\ x.sessions \subseteq Collected(x)
    /\ x.stage \in {"PAID", "CANCELLED"} => x.charged \in Collected(x)
    /\ x.stage = "CANCELLED" =>
         /\ x.percent \in 0..100
         /\ x.refund = Cents(PercentOf(x.amount, x.percent))
         /\ x.refunded = Units(PercentOf(x.amount, x.percent))
         /\ \A t \in clock..LastTime : RefundPercent(t) <= x.percent

PricingInv ==
    /\ PricingShape
    /\ \A b \in Purchase : PurchaseKept(purchase[b])

\* No deal takes off more than the subtotal.
LEMMA DiscountBounded ==
    ASSUME NEW subtotal \in Nat, NEW d \in Deal
    PROVE  ComputeDiscount(subtotal, d) \in 0..Exact(subtotal)
<1>1. d.percent \in BOOLEAN /\ d.value \in Nat /\ d.cap \in Nat \cup {NoCap}
  BY PricingAssumption
<1>2. Asked(subtotal, d) \in Nat
  BY <1>1 DEF Asked, Exact
<1>3. Capped(Asked(subtotal, d), d) \in Nat
  BY <1>1, <1>2 DEF Capped, LowerOf, Exact
<1> QED
  BY <1>3 DEF ComputeDiscount, LowerOf, HigherOf, Exact

\* None of the discounts of a booking does.
LEMMA DiscountsBounded ==
    ASSUME PricingInv, NEW s, NEW subtotal \in Nat
    PROVE  PromotionDiscounts(s, subtotal) \cup CouponDiscounts(subtotal) \subseteq 0..Exact(subtotal)
<1>1. \A p \in BestPromotions(s, subtotal) : promotion[p].deal \in Deal
  <2> SUFFICES ASSUME NEW p \in BestPromotions(s, subtotal) PROVE promotion[p].deal \in Deal
    OBVIOUS
  <2>1. p \in Promotion /\ promotion[p] # NoPromotion
    BY DEF BestPromotions, Applicable, Offered
  <2>2. promotion[p] \in PromotionRow
    BY <2>1 DEF PricingInv, PricingShape
  <2> QED
    BY <2>2 DEF PromotionRow
<1>0. 0 \in 0..Exact(subtotal)
  BY DEF Exact
<1>2. PromotionDiscounts(s, subtotal) \subseteq 0..Exact(subtotal)
  BY <1>0, <1>1, DiscountBounded DEF PromotionDiscounts
<1>3. CouponDiscounts(subtotal) \subseteq 0..Exact(subtotal)
  BY <1>0, DiscountBounded DEF CouponDiscounts
<1> QED
  BY <1>2, <1>3

\* A step for one booking leaves the others as they are.
LEMMA PurchaseStep ==
    ASSUME PricingInv, NEW b \in Purchase, NEW x, PurchaseKept(x),
           purchase' = [purchase EXCEPT ![b] = x], UNCHANGED <<promotion, clock>>
    PROVE  PricingInv'
<1>1. purchase' = [c \in Purchase |-> IF c = b THEN x ELSE purchase[c]]
  BY DEF PricingInv, PricingShape
<1>2. purchase' = [c \in Purchase |-> purchase'[c]]
  BY <1>1
<1>3. ASSUME NEW c \in Purchase PROVE PurchaseKept(purchase[c])'
  <2>1. CASE c = b
    BY <1>1, <2>1 DEF PurchaseKept, PriceKept, Collected, RefundPercent, DaysUntilStart
  <2>2. CASE c # b
    BY <1>1, <2>2 DEF PricingInv, PurchaseKept, PriceKept, Collected
  <2> QED
    BY <2>1, <2>2
<1> QED
  BY <1>2, <1>3 DEF PricingInv, PricingShape

LEMMA CreateForBookingInv ==
    ASSUME PricingInv, NEW b \in Purchase, NEW s \in Seller, NEW subtotal \in Subtotal,
           CreateForBooking(b, s, subtotal)
    PROVE  PricingInv'
<1>1. PICK discount \in PromotionDiscounts(s, subtotal) \cup CouponDiscounts(subtotal) :
        \E sessions \in {{Units(Exact(subtotal) - discount)}, {}} :
          purchase' = [purchase EXCEPT ![b] = Bill(subtotal, Exact(subtotal) - discount, sessions)]
  BY DEF CreateForBooking
<1>2. PICK sessions \in {{Units(Exact(subtotal) - discount)}, {}} :
        purchase' = [purchase EXCEPT ![b] = Bill(subtotal, Exact(subtotal) - discount, sessions)]
  BY <1>1
<1> DEFINE due == Exact(subtotal) - discount
           x == Bill(subtotal, due, sessions)
<1>3. subtotal \in Nat /\ discount \in 0..Exact(subtotal)
  <2>1. subtotal \in Nat
    BY PricingAssumption
  <2> QED
    BY <2>1, DiscountsBounded
<1>4. /\ due \in 0..Exact(subtotal) /\ Exact(subtotal) - due = discount
      /\ sessions \subseteq {Units(due)}
  <2>1. Exact(subtotal) \in Nat
    BY <1>3 DEF Exact
  <2> QED
    BY <1>2, <1>3, <2>1
<1>5. PurchaseKept(x)
  <2> HIDE DEF due
  <2> QED
    BY <1>3, <1>4 DEF Bill, PriceKept, PurchaseKept, Collected
<1>6. purchase' = [purchase EXCEPT ![b] = x]
  BY <1>2
<1>7. UNCHANGED <<promotion, clock>>
  BY DEF CreateForBooking
<1> HIDE DEF x
<1> QED
  BY <1>5, <1>6, <1>7, PurchaseStep

LEMMA RetryInv ==
    ASSUME PricingInv, NEW b \in Purchase, Retry(b) PROVE PricingInv'
<1> DEFINE p == purchase[b]
           s == p.sessions \cup {Units(Exact(p.amount))}
           x == [stage |-> "PENDING", subtotal |-> p.subtotal, due |-> p.due, amount |-> p.amount,
                 discountAmount |-> p.discountAmount, sessions |-> s]
<1>1. p.stage = "PENDING" /\ PurchaseKept(p) /\ UNCHANGED <<promotion, clock>>
      /\ purchase' = [purchase EXCEPT ![b].sessions = s]
  BY DEF Retry, PricingInv
<1>2. p = [stage |-> "PENDING", subtotal |-> p.subtotal, due |-> p.due, amount |-> p.amount,
           discountAmount |-> p.discountAmount, sessions |-> p.sessions]
  BY <1>1 DEF PurchaseKept
<1>3. [p EXCEPT !.sessions = s] = x
  <2> HIDE DEF s
  <2> DEFINE e == p.due
  <2> QED
    BY <1>2
<1>4. purchase' = [purchase EXCEPT ![b] = x]
  <2>1. purchase' = [purchase EXCEPT ![b] = [p EXCEPT !.sessions = s]]
    <3> HIDE DEF s
    <3> QED
      BY <1>1
  <2> HIDE DEF p, s, x
  <2> QED
    BY <1>3, <2>1
<1>5. PurchaseKept(x)
  BY <1>1 DEF PurchaseKept, PriceKept, Collected
<1>6. UNCHANGED <<promotion, clock>>
  BY <1>1
<1> HIDE DEF x
<1> QED
  BY <1>4, <1>5, <1>6, PurchaseStep

LEMMA PaySessionInv ==
    ASSUME PricingInv, NEW b \in Purchase, PaySession(b) PROVE PricingInv'
<1> DEFINE p == purchase[b]
<1>1. p.stage = "PENDING" /\ PurchaseKept(p) /\ UNCHANGED <<promotion, clock>>
  BY DEF PaySession, PricingInv
<1>2. PICK unit \in p.sessions :
        purchase' = [purchase EXCEPT ![b] =
           [stage |-> "PAID", subtotal |-> p.subtotal, due |-> p.due, amount |-> p.amount,
            discountAmount |-> p.discountAmount, charged |-> unit]]
  BY DEF PaySession
<1> DEFINE x == [stage |-> "PAID", subtotal |-> p.subtotal, due |-> p.due, amount |-> p.amount,
                 discountAmount |-> p.discountAmount, charged |-> unit]
<1>3. PurchaseKept(x)
  BY <1>1 DEF PurchaseKept, PriceKept, Collected
<1> QED
  BY <1>1, <1>2, <1>3, PurchaseStep

LEMMA CreateRefundInv ==
    ASSUME PricingInv, NEW b \in Purchase, CreateRefund(b) PROVE PricingInv'
<1> DEFINE p == purchase[b]
           percent == RefundPercent(clock)
           back == PercentOf(p.amount, percent)
           x == [stage |-> "CANCELLED", subtotal |-> p.subtotal, due |-> p.due, amount |-> p.amount,
                 discountAmount |-> p.discountAmount, charged |-> p.charged,
                 percent |-> percent, refund |-> Cents(back), refunded |-> Units(back)]
<1>1. p.stage = "PAID" /\ PurchaseKept(p) /\ UNCHANGED <<promotion, clock>>
      /\ purchase' = [purchase EXCEPT ![b] = x]
  BY DEF CreateRefund, PricingInv
<1>2. clock \in Nat /\ LastTime \in Nat
  BY PricingAssumption DEF PricingInv, PricingShape
<1>3. percent \in 0..100 /\ \A t \in clock..LastTime : RefundPercent(t) <= percent
  BY <1>2, PercentFalls
<1>4. PurchaseKept(x)
  <2> HIDE DEF percent
  <2> QED
    BY <1>1, <1>3 DEF PurchaseKept, PriceKept, Collected
<1> QED
  BY <1>1, <1>4, PurchaseStep

\* A step of a promotion.
LEMMA PromotionStep ==
    ASSUME PricingInv, promotion' \in [Promotion -> PromotionRow \cup {NoPromotion}],
           UNCHANGED <<purchase, clock>>
    PROVE  PricingInv'
  BY DEF PricingInv, PricingShape, PurchaseKept, PriceKept, Collected

LEMMA PromotionsInv ==
    ASSUME PricingInv, NEW p \in Promotion, NEW d \in PromotionDto, NEW s \in Seller,
           \/ CreatePromotion(p, d) \/ UpdatePromotion(p, d)
           \/ CreateMyPromotion(p, s, d) \/ UpdateMyPromotion(p, s, d)
    PROVE  PricingInv'
<1>1. /\ d.deal \in Deal /\ d.priority \in Priority /\ d.running \in BOOLEAN
      /\ d.domains \in SUBSET Domains /\ {TypeOf[s]} \in SUBSET Domains
  BY DEF PromotionDto, Domains
<1>2. \A o \in Seller \cup {AnyProvider}, ds \in SUBSET Domains : Row(o, d, ds) \in PromotionRow
  BY <1>1 DEF Row, PromotionRow
<1>3. p \in Offered => promotion[p].owner \in Seller \cup {AnyProvider} /\ promotion[p].domains \in SUBSET Domains
  BY DEF Offered, PricingInv, PricingShape, PromotionRow
<1>4. promotion \in [Promotion -> PromotionRow \cup {NoPromotion}]
  BY DEF PricingInv, PricingShape
<1>5. promotion' \in [Promotion -> PromotionRow \cup {NoPromotion}] /\ UNCHANGED <<purchase, clock>>
  <2>1. CASE CreatePromotion(p, d)
    BY <1>1, <1>2, <1>4, <2>1 DEF CreatePromotion
  <2>2. CASE UpdatePromotion(p, d)
    BY <1>1, <1>2, <1>3, <1>4, <2>2 DEF UpdatePromotion
  <2>3. CASE CreateMyPromotion(p, s, d)
    BY <1>1, <1>2, <1>4, <2>3 DEF CreateMyPromotion
  <2>4. CASE UpdateMyPromotion(p, s, d)
    BY <1>1, <1>2, <1>3, <1>4, <2>4 DEF UpdateMyPromotion
  <2> QED
    BY <2>1, <2>2, <2>3, <2>4
<1> QED
  BY <1>5, PromotionStep

LEMMA PricingInitInv == PricingInit => PricingInv
  BY PricingAssumption DEF PricingInit, PricingInv, PricingShape, PurchaseKept, NotPriced

LEMMA PricingStep == PricingInv /\ [PricingNext]_pricingVars => PricingInv'
<1> SUFFICES ASSUME PricingInv, [PricingNext]_pricingVars PROVE PricingInv'
  OBVIOUS
<1>1. ASSUME NEW p \in Promotion, NEW d \in PromotionDto, CreatePromotion(p, d) \/ UpdatePromotion(p, d)
      PROVE  PricingInv'
  <2>1. /\ d.deal \in Deal /\ d.priority \in Priority /\ d.running \in BOOLEAN
        /\ d.domains \in SUBSET Domains
    BY DEF PromotionDto
  <2>2. \A o \in Seller \cup {AnyProvider} : Row(o, d, d.domains) \in PromotionRow
    BY <2>1 DEF Row, PromotionRow
  <2>3. p \in Offered => promotion[p].owner \in Seller \cup {AnyProvider}
    BY DEF Offered, PricingInv, PricingShape, PromotionRow
  <2>4. promotion' \in [Promotion -> PromotionRow \cup {NoPromotion}] /\ UNCHANGED <<purchase, clock>>
    BY <1>1, <2>2, <2>3 DEF CreatePromotion, UpdatePromotion, PricingInv, PricingShape
  <2> QED
    BY <2>4, PromotionStep
<1>2. ASSUME NEW p \in Promotion, RemovePromotion(p) PROVE PricingInv'
  <2>1. promotion' \in [Promotion -> PromotionRow \cup {NoPromotion}] /\ UNCHANGED <<purchase, clock>>
    BY <1>2 DEF RemovePromotion, PricingInv, PricingShape
  <2> QED
    BY <2>1, PromotionStep
<1>3. CASE HalfDay
  <2>1. clock' \in 0..LastTime /\ clock'..LastTime \subseteq clock..LastTime
        /\ UNCHANGED <<promotion, purchase>>
    BY <1>3, PricingAssumption DEF HalfDay, PricingInv, PricingShape
  <2>2. \A b \in Purchase : PurchaseKept(purchase[b])'
    BY <2>1 DEF PricingInv, PurchaseKept, PriceKept, Collected
  <2> QED
    BY <2>1, <2>2 DEF PricingInv, PricingShape
<1>4. CASE UNCHANGED pricingVars
  BY <1>4, PromotionStep DEF pricingVars, PricingInv, PricingShape
<1> QED
  BY <1>1, <1>2, <1>3, <1>4, PromotionsInv, CreateForBookingInv, RetryInv, PaySessionInv, CreateRefundInv
     DEF PricingNext

\* Promotions and purchases are of their kinds, for any deals and subtotals.
THEOREM PricingTypeCorrect == PricingSpec => []PricingTypeOK
<1>1. PricingInv => PricingTypeOK
  <2> SUFFICES ASSUME PricingInv PROVE PricingTypeOK
    OBVIOUS
  <2>1. \A p \in Offered : promotion[p] \in PromotionRow
    BY DEF PricingInv, PricingShape, Offered
  <2>2. \A p \in Offered : promotion[p].owner \in Seller \cup {AnyProvider} /\ promotion[p].domains \subseteq Domains
    BY <2>1 DEF PromotionRow
  <2>3. \A b \in Priced : purchase[b].stage \in {"PENDING", "PAID", "CANCELLED"}
    BY DEF Priced, PricingInv, PurchaseKept
  <2> QED
    BY <2>2, <2>3 DEF PricingInv, PricingShape, PricingTypeOK
<1> QED
  BY <1>1, PricingInitInv, PricingStep, PTL DEF PricingSpec

\* For any deals, subtotals and refund schedule: amount and discount add up to the subtotal
\* or one over, what is charged is what is stored to half a unit and within one of what is
\* due, and a refund is the part of the amount its day allows (createForBooking, retry,
\* createRefund and applyPromotions).
THEOREM PricesAlwaysAddUp == PricingSpec => []PricesAddUp
<1>1. PricingInv => PricesAddUp
  <2> SUFFICES ASSUME PricingInv PROVE PricesAddUp
    OBVIOUS
  <2>1. \A b \in Priced : b \in Purchase /\ PriceKept(purchase[b]) /\ PurchaseKept(purchase[b])
    BY DEF Priced, PricingInv, PurchaseKept
  <2>2. PriceIsWhole
    <3> SUFFICES ASSUME NEW b \in Priced
                 PROVE  /\ purchase[b].amount \in 0..purchase[b].subtotal
                        /\ purchase[b].amount + purchase[b].discountAmount - purchase[b].subtotal \in {0, 1}
      BY DEF PriceIsWhole
    <3>1. PriceKept(purchase[b])
      BY <2>1
    <3> QED
      BY <3>1, SplitCents DEF PriceKept
  <2>3. \A b \in Charged : /\ purchase[b].due \in Nat /\ purchase[b].amount = Cents(purchase[b].due)
                            /\ purchase[b].charged \in Collected(purchase[b])
    <3> SUFFICES ASSUME NEW b \in Charged
                 PROVE  /\ purchase[b].due \in Nat /\ purchase[b].amount = Cents(purchase[b].due)
                        /\ purchase[b].charged \in Collected(purchase[b])
      OBVIOUS
    <3>1. b \in Priced /\ purchase[b].stage \in {"PAID", "CANCELLED"}
      BY DEF Charged
    <3>2. PriceKept(purchase[b]) /\ purchase[b].charged \in Collected(purchase[b])
      BY <2>1, <3>1 DEF PurchaseKept
    <3> QED
      BY <3>2 DEF PriceKept
  <2>4. ChargeFollowsAmount
    <3> SUFFICES ASSUME NEW b \in Charged
                 PROVE  purchase[b].charged * 100 - purchase[b].amount \in -50..50
      BY DEF ChargeFollowsAmount
    <3> DEFINE due == purchase[b].due
    <3>1. /\ due \in Nat /\ purchase[b].amount = Cents(due)
          /\ purchase[b].charged = Units(due) \/ purchase[b].charged = Units(Exact(Cents(due)))
      BY <2>3 DEF Collected
    <3> HIDE DEF due
    <3>2. Units(due) * 100 - Cents(due) \in -50..50
      BY <3>1, CollectsExact
    <3>3. Cents(due) \in Nat
      BY <3>1 DEF Cents
    <3>4. Units(Exact(Cents(due))) * 100 - Cents(due) \in -50..50
      BY <3>3, CollectsStored
    <3> QED
      BY <3>1, <3>2, <3>4
  <2>5. RefundCovered
    <3> SUFFICES ASSUME NEW b \in Cancelled
                 PROVE  /\ purchase[b].refunded <= purchase[b].charged
                               + (IF purchase[b].due % 10000 = 0 THEN 0 ELSE 1)
                        /\ purchase[b].percent = 100 => purchase[b].refunded >= purchase[b].charged
                        /\ purchase[b].refund <= purchase[b].amount
                        /\ \A t \in clock..LastTime : RefundPercent(t) <= purchase[b].percent
      BY DEF RefundCovered
    <3> DEFINE a == purchase[b].amount
               p == purchase[b].percent
               u == purchase[b].charged
               due == purchase[b].due
    <3>1. /\ p \in 0..100 /\ purchase[b].refund = Cents(PercentOf(a, p))
          /\ purchase[b].refunded = Units(PercentOf(a, p))
          /\ \A t \in clock..LastTime : RefundPercent(t) <= p
      BY <2>1 DEF Cancelled, PurchaseKept
    <3>2. due \in Nat /\ a = Cents(due) /\ (u = Units(due) \/ u = Units(Exact(a)))
      BY <2>3 DEF Cancelled, Charged, Collected
    <3> HIDE DEF a, p, u, due
    <3>3. a \in Nat
      BY <3>2 DEF Cents
    <3>4. /\ Units(due) \in Nat
          /\ Units(Exact(a)) \in Units(due)..(Units(due) + (IF due % 10000 = 0 THEN 0 ELSE 1))
      BY <3>2, CollectsExact
    <3>5. PercentOf(a, p) \in 0..Exact(a) /\ Exact(a) \in Nat
      BY <3>1, <3>3, PartOfAmount
    <3>6. /\ Units(PercentOf(a, p)) <= Units(Exact(a))
          /\ Units(PercentOf(a, p)) \in Nat /\ Units(Exact(a)) \in Nat
      BY <3>5, PartInUnits
    <3>7. Cents(PercentOf(a, p)) <= a
      BY <3>3, <3>5, PartInCents
    <3>8. p = 100 => PercentOf(a, p) = Exact(a)
      BY <3>3 DEF PercentOf, Exact
    <3>9. /\ u \in Nat /\ Units(Exact(a)) >= u
          /\ Units(Exact(a)) <= u + (IF due % 10000 = 0 THEN 0 ELSE 1)
      BY <3>2, <3>4, <3>6
    <3>10. /\ Units(PercentOf(a, p)) <= u + (IF due % 10000 = 0 THEN 0 ELSE 1)
           /\ p = 100 => Units(PercentOf(a, p)) >= u
      BY <3>6, <3>8, <3>9
    <3> QED
      BY <3>1, <3>7, <3>10 DEF a, p, u, due
  <2> QED
    BY <2>2, <2>4, <2>5 DEF PricesAddUp
<1> QED
  BY <1>1, PricingInitInv, PricingStep, PTL DEF PricingSpec

-----------------------------------------------------------------------------
(* Commissions.                                                            *)

\* The kinds of the rows and of what is being asked.
CommissionRow ==
    [gross : Amount, platform : Nat, provider : Nat, on : 0..LastDay, paid : BOOLEAN]
SummaryQuery ==
    [kind : {"SUMMARY"}, torn : BOOLEAN, count : Int, total : Int, paid : Int, pending : Int]
ChartQuery ==
    [kind : {"CHART"}, side : {"PROVIDER", "PLATFORM"}, since : Int, torn : BOOLEAN,
     midnight : BOOLEAN, stage : {"ASKED", "FOUND", "SHOWN"}, found : SUBSET Commission,
     shown : Int, total : Int]

LedgerShape ==
    /\ day \in 0..LastDay
    /\ ledger \in [Commission -> CommissionRow \cup {NoRow}]
    /\ \A c \in Recorded : ledger[c].on <= day
    /\ query \in {NoQuery} \cup SummaryQuery \cup ChartQuery

\* The answers of an overview no commission changed under are what the rows say now.
SummaryHolds ==
    query.kind = "SUMMARY" /\ ~query.torn =>
      \A f \in {"count", "total", "paid", "pending"} : query[f] \in {Unread, Reading[f]}

\* The rows read for a chart are of the days it was asked for, and its bars add up the
\* cents of some of them, of all of them on the same day.
ChartHolds ==
    query.kind = "CHART" =>
      /\ query.found \subseteq Recorded
      /\ \A c \in query.found : ledger[c].on >= query.since
      /\ ~query.midnight => query.since = day - (Days - 1)
      /\ ~query.torn => query.total \in {Unread, Cardinality(PlatformCents(Recorded))}
      /\ query.stage = "SHOWN" /\ query.side = "PROVIDER" /\ ~query.midnight =>
           query.shown = Cardinality(ProviderCents(query.found))
      /\ query.stage = "SHOWN" /\ query.side = "PLATFORM" =>
           /\ query.shown <= Cardinality(PlatformCents(query.found))
           /\ ~query.midnight => query.shown = Cardinality(PlatformCents(query.found))
      /\ query.side = "PROVIDER" => query.total = Unread

LedgerInv == LedgerShape /\ SplitWithinCent /\ SummaryHolds /\ ChartHolds

-----------------------------------------------------------------------------
LEMMA PartOfGross ==
    ASSUME NEW gross \in Nat, NEW rate \in Nat, rate <= 10000
    PROVE  Share(gross, rate) \in 0..Exact(gross)
<1>1. gross * rate \in Nat /\ gross * rate <= gross * 10000
  OBVIOUS
<1> QED
  BY <1>1 DEF Exact, Share

\* The cents of finitely many rows are finitely many.
LEMMA CoinsFinite ==
    ASSUME NEW S, IsFiniteSet(S), NEW n \in [S -> Nat]
    PROVE  IsFiniteSet(UNION {{c} \X (1..n[c]) : c \in S})
<1> DEFINE Of(c) == {c} \X (1..n[c])
           All == {Of(c) : c \in S}
           f == [c \in S |-> Of(c)]
<1>1. IsFiniteSet(All)
  <2>1. f \in Surjection(S, All)
    BY DEF Surjection
  <2> QED
    BY <2>1, FS_Surjection
<1>2. ASSUME NEW c \in S
      PROVE  IsFiniteSet(Of(c))
  <2>1. IsFiniteSet(1..n[c]) 
    BY FS_Interval
  <2> DEFINE g == [i \in 1..n[c] |-> <<c, i>>]
  <2>2. g \in Surjection(1..n[c], Of(c))
    BY DEF Surjection
  <2> QED
    BY <2>1, <2>2, FS_Surjection
<1>3. \A T \in All : IsFiniteSet(T)
  BY <1>2
<1> HIDE DEF All
<1>4. IsFiniteSet(UNION All)
  BY <1>1, <1>3, FS_UNION
<1> QED
  BY <1>4 DEF All

\* The cents of the recorded commissions can be counted.
LEMMA ProviderCentsFinite ==
    ASSUME LedgerShape, NEW S \in SUBSET Recorded
    PROVE  IsFiniteSet(ProviderCents(S)) /\ Cardinality(ProviderCents(S)) \in Nat
<1> DEFINE n == [c \in S |-> ledger[c].provider]
<1>1. IsFiniteSet(S)
  BY FS_Subset, LedgerAssumption DEF Recorded
<1>2. n \in [S -> Nat]
  BY DEF LedgerShape, Recorded, CommissionRow
<1>3. IsFiniteSet(UNION {{c} \X (1..n[c]) : c \in S})
  BY <1>1, <1>2, CoinsFinite
<1>4. ProviderCents(S) = UNION {{c} \X (1..n[c]) : c \in S}
  BY DEF ProviderCents, ProviderPart
<1> QED
  BY <1>3, <1>4, FS_CardinalityType

LEMMA PlatformCentsFinite ==
    ASSUME LedgerShape, NEW S \in SUBSET Recorded
    PROVE  IsFiniteSet(PlatformCents(S)) /\ Cardinality(PlatformCents(S)) \in Nat
<1> DEFINE n == [c \in S |-> ledger[c].platform]
<1>1. IsFiniteSet(S)
  BY FS_Subset, LedgerAssumption DEF Recorded
<1>2. n \in [S -> Nat]
  BY DEF LedgerShape, Recorded, CommissionRow
<1>3. IsFiniteSet(UNION {{c} \X (1..n[c]) : c \in S})
  BY <1>1, <1>2, CoinsFinite
<1>4. PlatformCents(S) = UNION {{c} \X (1..n[c]) : c \in S}
  BY DEF PlatformCents, PlatformPart
<1> QED
  BY <1>3, <1>4, FS_CardinalityType

\* Fewer rows never add up to more.
LEMMA PlatformCentsGrow ==
    ASSUME LedgerShape, NEW S \in SUBSET Recorded, NEW T \in SUBSET S
    PROVE  Cardinality(PlatformCents(T)) <= Cardinality(PlatformCents(S))
<1>1. PlatformCents(T) \subseteq PlatformCents(S)
  BY DEF PlatformCents
<1> QED
  BY <1>1, PlatformCentsFinite, FS_Subset

\* What is paid out and what is pending is all there is, and nothing is both.
LEMMA PaidAndPending ==
    ASSUME LedgerShape
    PROVE  Reading.total = Reading.paid + Reading.pending
<1> DEFINE P == ProviderCents(Paid)
           Q == ProviderCents(Pending)
<1>1. Paid \in SUBSET Recorded /\ Pending \in SUBSET Recorded
  BY DEF Paid, Pending
<1>2. ProviderCents(Recorded) = P \cup Q
  BY DEF ProviderCents, Paid, Pending
<1>3. P \cap Q = {}
  BY DEF ProviderCents, Paid, Pending
<1>4. IsFiniteSet(P) /\ IsFiniteSet(Q) /\ Cardinality(P) \in Nat /\ Cardinality(Q) \in Nat
  BY <1>1, ProviderCentsFinite
<1>5. Cardinality(P \cup Q) = Cardinality(P) + Cardinality(Q) - Cardinality({})
  BY <1>3, <1>4, FS_Union
<1>6. Cardinality({}) = 0
  BY FS_EmptySet
<1>7. Cardinality(P \cup Q) = Cardinality(P) + Cardinality(Q)
  <2> HIDE DEF P, Q
  <2> QED
    BY <1>4, <1>5, <1>6
<1> QED
  BY <1>2, <1>7 DEF Reading

LEMMA NothingIsNothing ==
    ASSUME LedgerShape, Reading.count = 0
    PROVE  Reading.total = 0
<1>1. IsFiniteSet(Recorded)
  BY FS_Subset, LedgerAssumption DEF Recorded
<1>2. Recorded = {}
  BY <1>1, FS_EmptySet DEF Reading
<1>3. ProviderCents({}) = {}
  BY DEF ProviderCents
<1> QED
  BY <1>2, <1>3, FS_EmptySet DEF Reading

LEMMA ReadingIsNat ==
    ASSUME LedgerShape
    PROVE  \A f \in {"count", "total", "paid", "pending"} : Reading[f] \in Nat
<1>1. Paid \in SUBSET Recorded /\ Pending \in SUBSET Recorded
  BY DEF Paid, Pending
<1>2. IsFiniteSet(Recorded)
  BY FS_Subset, LedgerAssumption DEF Recorded
<1>3. Cardinality(Recorded) \in Nat
  BY <1>2, FS_CardinalityType
<1>4. /\ Cardinality(ProviderCents(Recorded)) \in Nat
      /\ Cardinality(ProviderCents(Paid)) \in Nat
      /\ Cardinality(ProviderCents(Pending)) \in Nat
  BY <1>1, ProviderCentsFinite
<1> QED
  BY <1>3, <1>4 DEF Reading

LEMMA LedgerInvHoldsAdds == LedgerInv => LedgerAddsUp
<1> SUFFICES ASSUME LedgerInv PROVE LedgerAddsUp
  OBVIOUS
<1> USE DEF LedgerInv
<1>1. SplitWithinCent
  OBVIOUS
<1>2. SummaryAddsUp
  <2> SUFFICES ASSUME query.kind = "SUMMARY", ~query.torn,
                      Unread \notin {query.count, query.total, query.paid, query.pending}
               PROVE  query.total = query.paid + query.pending
                        /\ (query.count = 0 => query.total = 0)
    BY DEF SummaryAddsUp
  <2>1. query.count = Reading.count /\ query.total = Reading.total
        /\ query.paid = Reading.paid /\ query.pending = Reading.pending
    BY DEF SummaryHolds
  <2> QED
    BY <2>1, PaidAndPending, NothingIsNothing
<1>3. ChartAddsUp
  BY DEF ChartAddsUp, ChartHolds, LedgerShape, ChartQuery, SummaryQuery, NoQuery
<1>4. ChartWithinRevenue
  <2> SUFFICES ASSUME query.kind = "CHART", ~query.torn, query.stage = "SHOWN", query.total # Unread
               PROVE  query.shown <= query.total
    BY DEF ChartWithinRevenue
  <2>1. query \in ChartQuery
    BY DEF LedgerShape, SummaryQuery, NoQuery
  <2>2. query.side = "PLATFORM"
    BY <2>1 DEF ChartHolds, ChartQuery
  <2>3. query.total = Cardinality(PlatformCents(Recorded))
        /\ query.shown <= Cardinality(PlatformCents(query.found))
        /\ query.found \in SUBSET Recorded
    BY <2>2 DEF ChartHolds
  <2>4. Cardinality(PlatformCents(query.found)) <= Cardinality(PlatformCents(Recorded))
    BY <2>3, PlatformCentsGrow
  <2>5. Cardinality(PlatformCents(query.found)) \in Nat /\ Cardinality(PlatformCents(Recorded)) \in Nat
    BY <2>3, PlatformCentsFinite
  <2>6. query.shown \in Int
    BY <2>1 DEF ChartQuery
  <2> HIDE DEF LedgerInv
  <2> QED
    BY <2>3, <2>4, <2>5, <2>6
<1> QED
  BY <1>1, <1>2, <1>3, <1>4 DEF LedgerAddsUp

-----------------------------------------------------------------------------
LEMMA LedgerInitInv == LedgerInit => LedgerInv
<1> SUFFICES ASSUME LedgerInit PROVE LedgerInv
  OBVIOUS
<1>1. Recorded = {}
  BY DEF LedgerInit, Recorded
<1>2. query = NoQuery /\ query.kind = "NONE"
  BY DEF LedgerInit, NoQuery
<1>3. LedgerShape
  BY <1>1, <1>2, LedgerAssumption DEF LedgerInit, LedgerShape
<1> QED
  BY <1>1, <1>2, <1>3 DEF LedgerInv, SplitWithinCent, SummaryHolds, ChartHolds

\* A row that is written is of its kind, and splits the payment.
LEMMA NewRow ==
    ASSUME NEW gross \in Amount, NEW rate \in Rate, NEW today \in 0..LastDay
    PROVE  LET row == [gross |-> gross, platform |-> Cents(Share(gross, rate)),
                       provider |-> Cents(Exact(gross) - Share(gross, rate)), on |-> today,
                       paid |-> FALSE]
           IN  row \in CommissionRow /\ row.platform + row.provider - row.gross \in {0, 1}
<1>1. gross \in Nat
  BY LedgerAssumption
<1>0. rate \in 0..10000
  BY LedgerAssumption
<1>2. rate \in Nat /\ rate <= 10000
  BY <1>0
<1>3. Share(gross, rate) \in 0..Exact(gross)
  BY <1>1, <1>2, PartOfGross
<1>4. /\ Cents(Share(gross, rate)) \in Nat /\ Cents(Exact(gross) - Share(gross, rate)) \in Nat
      /\ Cents(Share(gross, rate)) + Cents(Exact(gross) - Share(gross, rate)) - gross \in {0, 1}
  BY <1>1, <1>3, SplitCents
<1> QED
  BY <1>4 DEF CommissionRow

\* Whether an overview or a chart is being put together, a change is noted.
LEMMA MeanwhileIsNoted ==
    ASSUME LedgerShape
    PROVE  /\ Meanwhile \in {NoQuery} \cup SummaryQuery \cup ChartQuery
           /\ Meanwhile.kind = query.kind
           /\ query.kind # "NONE" => Meanwhile.torn
           /\ query.kind = "CHART" =>
                /\ Meanwhile.side = query.side /\ Meanwhile.since = query.since
                /\ Meanwhile.midnight = query.midnight /\ Meanwhile.stage = query.stage
                /\ Meanwhile.found = query.found /\ Meanwhile.shown = query.shown
                /\ Meanwhile.total = query.total
<1>1. CASE query = NoQuery
  BY <1>1 DEF Meanwhile, NoQuery
<1>2. CASE query \in SummaryQuery
  BY <1>2 DEF Meanwhile, SummaryQuery
<1>3. CASE query \in ChartQuery
  BY <1>3 DEF Meanwhile, ChartQuery
<1> QED
  BY <1>1, <1>2, <1>3 DEF LedgerShape

\* What is left of the promise when rows change but keep their parts and their days.
LEMMA TornKeepsInv ==
    ASSUME LedgerInv, LedgerShape', query' = Meanwhile, day' = day,
           \A c \in Recorded : /\ c \in Recorded'
                               /\ ledger'[c].provider = ledger[c].provider
                               /\ ledger'[c].platform = ledger[c].platform
                               /\ ledger'[c].on = ledger[c].on
    PROVE  SummaryHolds' /\ ChartHolds'
<1>1. query' = Meanwhile /\ LedgerShape
  BY DEF LedgerInv
<1>2. /\ query'.kind = query.kind
      /\ query.kind # "NONE" => query'.torn
  BY <1>1, MeanwhileIsNoted
<1>3. SummaryHolds'
  BY <1>2 DEF SummaryHolds
<1>4. ASSUME query'.kind = "CHART"
      PROVE  /\ query'.side = query.side /\ query'.since = query.since
             /\ query'.midnight = query.midnight /\ query'.stage = query.stage
             /\ query'.found = query.found /\ query'.shown = query.shown
             /\ query'.total = query.total
             /\ query'.torn /\ query.found \subseteq Recorded
  BY <1>1, <1>2, <1>4, MeanwhileIsNoted DEF LedgerInv, ChartHolds
<1>5. ASSUME query'.kind = "CHART"
      PROVE  /\ ProviderCents(query.found)' = ProviderCents(query.found)
             /\ PlatformCents(query.found)' = PlatformCents(query.found)
  BY <1>4, <1>5 DEF ProviderCents, PlatformCents, ProviderPart, PlatformPart
<1>6. ChartHolds'
  BY <1>2, <1>4, <1>5 DEF LedgerInv, ChartHolds
<1> QED
  BY <1>3, <1>6

LEMMA RecordForPaymentKeeps ==
    ASSUME LedgerInv, NEW c \in Commission, NEW gross \in Amount, NEW rate \in Rate,
           RecordForPayment(c, gross, rate)
    PROVE  LedgerInv'
<1> DEFINE row == [gross |-> gross, platform |-> Cents(Share(gross, rate)),
                   provider |-> Cents(Exact(gross) - Share(gross, rate)), on |-> day, paid |-> FALSE]
<1>1. LedgerShape /\ SplitWithinCent /\ day \in 0..LastDay
  BY DEF LedgerInv, LedgerShape
<1>2. row \in CommissionRow /\ row.platform + row.provider - row.gross \in {0, 1}
  BY <1>1, NewRow
<1>3. row.on = day
  OBVIOUS
<1>4. c \notin Recorded /\ ledger' = [ledger EXCEPT ![c] = row] /\ query' = Meanwhile /\ day' = day
  BY DEF RecordForPayment, Recorded
<1> HIDE DEF row
<1>5. /\ ledger' \in [Commission -> CommissionRow \cup {NoRow}]
      /\ ledger'[c] = row /\ \A d \in Commission \ {c} : ledger'[d] = ledger[d]
  BY <1>1, <1>2, <1>4 DEF LedgerShape
<1>6. \A d \in Recorded : d # c
  BY <1>4
<1>7. Recorded' \subseteq Recorded \cup {c} /\ Recorded \subseteq Recorded'
  BY <1>5, <1>6 DEF Recorded
<1>8. LedgerShape'
  <2>1. \A d \in Recorded' : ledger'[d].on <= day'
    BY <1>1, <1>3, <1>4, <1>5, <1>7 DEF LedgerShape, Recorded
  <2> QED
    BY <1>1, <1>4, <1>5, <2>1, MeanwhileIsNoted DEF LedgerShape
<1>9. SplitWithinCent'
  BY <1>1, <1>2, <1>5, <1>7 DEF SplitWithinCent, PlatformPart, ProviderPart, Recorded
<1>10. SummaryHolds' /\ ChartHolds'
  BY <1>4, <1>5, <1>6, <1>7, <1>8, TornKeepsInv DEF Recorded
<1> QED
  BY <1>8, <1>9, <1>10 DEF LedgerInv

LEMMA MarkPaidOutKeeps ==
    ASSUME LedgerInv, NEW c \in Commission, MarkPaidOut(c)
    PROVE  LedgerInv'
<1>1. LedgerShape /\ SplitWithinCent
  BY DEF LedgerInv
<1>2. c \in Recorded /\ ledger' = [ledger EXCEPT ![c].paid = TRUE] /\ query' = Meanwhile /\ day' = day
  BY DEF MarkPaidOut
<1>3. ledger[c] \in CommissionRow
  BY <1>1, <1>2 DEF Recorded, LedgerShape
<1>4. /\ ledger' \in [Commission -> CommissionRow \cup {NoRow}]
      /\ \A d \in Commission \ {c} : ledger'[d] = ledger[d]
      /\ ledger'[c] \in CommissionRow
      /\ ledger'[c].platform = ledger[c].platform /\ ledger'[c].provider = ledger[c].provider
      /\ ledger'[c].gross = ledger[c].gross /\ ledger'[c].on = ledger[c].on
  BY <1>1, <1>2, <1>3 DEF LedgerShape, CommissionRow
<1>5. NoRow \notin CommissionRow
  BY DEF NoRow, CommissionRow
<1>6. Recorded' = Recorded
  BY <1>2, <1>4, <1>5 DEF Recorded
<1>7. LedgerShape'
  <2>1. \A d \in Recorded' : ledger'[d].on <= day'
    BY <1>1, <1>2, <1>4, <1>6 DEF LedgerShape, Recorded
  <2> QED
    BY <1>1, <1>2, <1>4, <2>1, MeanwhileIsNoted DEF LedgerShape
<1>8. SplitWithinCent'
  BY <1>1, <1>4, <1>6 DEF SplitWithinCent, PlatformPart, ProviderPart, Recorded
<1>9. SummaryHolds' /\ ChartHolds'
  BY <1>2, <1>4, <1>6, <1>7, TornKeepsInv DEF Recorded
<1> QED
  BY <1>7, <1>8, <1>9 DEF LedgerInv

\* The rows being what they were, so are their sums.
LEMMA SameRowsSameSums ==
    ASSUME ledger' = ledger
    PROVE  /\ Recorded' = Recorded /\ Reading' = Reading
           /\ \A S : ProviderCents(S)' = ProviderCents(S) /\ PlatformCents(S)' = PlatformCents(S)
           /\ SplitWithinCent => SplitWithinCent'
  BY DEF Recorded, Reading, Paid, Pending, ProviderCents, PlatformCents, ProviderPart,
         PlatformPart, SplitWithinCent

LEMMA NextDayKeeps ==
    ASSUME LedgerInv, NextDay
    PROVE  LedgerInv'
<1>1. LedgerShape /\ SplitWithinCent /\ SummaryHolds /\ ChartHolds
  BY DEF LedgerInv
<1>2. ledger' = ledger /\ day' = day + 1 /\ day' \in 0..LastDay
  BY <1>1, LedgerAssumption DEF NextDay, LedgerShape
<1>3. Recorded' = Recorded /\ SplitWithinCent' /\ Reading' = Reading
  BY <1>1, <1>2, SameRowsSameSums
<1>4. LedgerShape' /\ SummaryHolds' /\ ChartHolds'
  <2>1. query' \in {NoQuery} \cup SummaryQuery \cup ChartQuery
    <3>1. CASE query = NoQuery
      BY <3>1 DEF NextDay, NoQuery
    <3>2. CASE query \in SummaryQuery
      BY <3>2 DEF NextDay, SummaryQuery
    <3>3. CASE query \in ChartQuery
      BY <3>3 DEF NextDay, ChartQuery
    <3> QED
      BY <1>1, <3>1, <3>2, <3>3 DEF LedgerShape
  <2>2. \A c \in Recorded' : ledger'[c].on <= day'
    <3> SUFFICES ASSUME NEW c \in Recorded PROVE ledger[c].on <= day + 1
      BY <1>2, <1>3
    <3>1. ledger[c] \in CommissionRow
      BY <1>1 DEF Recorded, LedgerShape
    <3>2. ledger[c].on \in Int /\ day \in Int
      BY <1>1, <3>1 DEF LedgerShape, CommissionRow
    <3>3. ledger[c].on <= day
      BY <1>1 DEF LedgerShape
    <3> QED
      BY <3>2, <3>3
  <2>3. LedgerShape'
    BY <1>1, <1>2, <2>1, <2>2 DEF LedgerShape
  <2>4. CASE query.kind = "CHART"
    <3>1. query \in ChartQuery
      BY <1>1, <2>4 DEF LedgerShape, SummaryQuery, NoQuery
    <3>2. query' = [query EXCEPT !.midnight = TRUE]
      BY <2>4 DEF NextDay
    <3>3. /\ query'.kind = "CHART" /\ query'.midnight
          /\ query'.side = query.side /\ query'.since = query.since /\ query'.torn = query.torn
          /\ query'.stage = query.stage /\ query'.found = query.found
          /\ query'.shown = query.shown /\ query'.total = query.total
      BY <3>1, <3>2, <2>4 DEF ChartQuery
    <3>4. PlatformCents(Recorded)' = PlatformCents(Recorded)
          /\ PlatformCents(query.found)' = PlatformCents(query.found)
      BY <1>2, <1>3, <3>3 DEF PlatformCents, PlatformPart
    <3> QED
      BY <1>1, <1>2, <1>3, <2>3, <2>4, <3>3, <3>4 DEF SummaryHolds, ChartHolds
  <2>5. CASE query.kind # "CHART"
    <3>1. query' = query
      BY <2>5 DEF NextDay
    <3> QED
      BY <1>1, <1>3, <2>3, <2>5, <3>1 DEF SummaryHolds, ChartHolds
  <2> QED
    BY <2>4, <2>5
<1> QED
  BY <1>3, <1>4 DEF LedgerInv

LEMMA AsksKeep ==
    ASSUME LedgerInv, AskSummary \/ \E side \in {"PROVIDER", "PLATFORM"} : AskChart(side)
    PROVE  LedgerInv'
<1>1. LedgerShape /\ SplitWithinCent
  BY DEF LedgerInv
<1>2. ledger' = ledger /\ day' = day
  BY DEF AskSummary, AskChart
<1>3. Recorded' = Recorded /\ SplitWithinCent' /\ Reading' = Reading
  BY <1>1, <1>2, SameRowsSameSums
<1>4. CASE AskSummary
  <2>1. query' \in SummaryQuery /\ query'.kind = "SUMMARY"
        /\ \A f \in {"count", "total", "paid", "pending"} : query'[f] = Unread
    BY <1>4 DEF AskSummary, SummaryQuery, Unread
  <2> QED
    BY <1>1, <1>2, <1>3, <2>1 DEF LedgerInv, LedgerShape, SummaryHolds, ChartHolds
<1>5. ASSUME NEW side \in {"PROVIDER", "PLATFORM"}, AskChart(side)
      PROVE  LedgerInv'
  <2>1. day - (Days - 1) \in Int
    BY <1>1, LedgerAssumption DEF LedgerShape
  <2>2. /\ query' \in ChartQuery /\ query'.kind = "CHART" /\ query'.found = {}
        /\ query'.since = day - (Days - 1) /\ query'.stage = "ASKED" /\ query'.total = Unread
    BY <1>5, <2>1 DEF AskChart, ChartQuery, Unread
  <2> QED
    BY <1>1, <1>2, <1>3, <2>2 DEF LedgerInv, LedgerShape, SummaryHolds, ChartHolds
<1> QED
  BY <1>4, <1>5

LEMMA ReadSummaryKeeps ==
    ASSUME LedgerInv, NEW f \in {"count", "total", "paid", "pending"}, ReadSummary(f)
    PROVE  LedgerInv'
<1>1. LedgerShape /\ SplitWithinCent /\ SummaryHolds
  BY DEF LedgerInv
<1>2. ledger' = ledger /\ day' = day /\ query.kind = "SUMMARY"
      /\ query' = [query EXCEPT ![f] = Reading[f]]
  BY DEF ReadSummary
<1>3. Recorded' = Recorded /\ SplitWithinCent' /\ Reading' = Reading
  BY <1>1, <1>2, SameRowsSameSums
<1>4. query \in SummaryQuery
  BY <1>1, <1>2 DEF LedgerShape, ChartQuery, NoQuery
<1>5. Reading[f] \in Nat
  BY <1>1, ReadingIsNat
<1>6. /\ query' \in SummaryQuery /\ query'.kind = "SUMMARY" /\ query'.torn = query.torn
      /\ query'[f] = Reading[f]
      /\ \A g \in {"count", "total", "paid", "pending"} \ {f} : query'[g] = query[g]
  <2> HIDE DEF Reading
  <2> QED
    BY <1>2, <1>4, <1>5 DEF SummaryQuery
<1> QED
  BY <1>1, <1>2, <1>3, <1>6 DEF LedgerInv, LedgerShape, SummaryHolds, ChartHolds

LEMMA FindSinceKeeps ==
    ASSUME LedgerInv, FindSince
    PROVE  LedgerInv'
<1> DEFINE found == {c \in Recorded : ledger[c].on >= query.since}
<1>1. LedgerShape /\ SplitWithinCent /\ ChartHolds
  BY DEF LedgerInv
<1>2. ledger' = ledger /\ day' = day /\ query.kind = "CHART"
      /\ query' = [query EXCEPT !.stage = "FOUND", !.found = found]
  BY DEF FindSince
<1>3. Recorded' = Recorded /\ SplitWithinCent'
  BY <1>1, <1>2, SameRowsSameSums
<1>4. query \in ChartQuery
  BY <1>1, <1>2 DEF LedgerShape, SummaryQuery, NoQuery
<1>5. found \in SUBSET Recorded /\ found \in SUBSET Commission
      /\ \A c \in found : ledger[c].on >= query.since
  BY DEF Recorded
<1> HIDE DEF found
<1>6. /\ query' \in ChartQuery /\ query'.kind = "CHART" /\ query'.found = found
      /\ query'.stage = "FOUND" /\ query'.side = query.side /\ query'.since = query.since
      /\ query'.torn = query.torn /\ query'.midnight = query.midnight
      /\ query'.total = query.total
  BY <1>2, <1>4, <1>5 DEF ChartQuery
<1>7. PlatformCents(Recorded)' = PlatformCents(Recorded)
  BY <1>2, <1>3 DEF PlatformCents, PlatformPart
<1> QED
  BY <1>1, <1>2, <1>3, <1>5, <1>6, <1>7 DEF LedgerInv, LedgerShape, SummaryHolds, ChartHolds

LEMMA RevenueKeeps ==
    ASSUME LedgerInv, GetPlatformCommissionSummary
    PROVE  LedgerInv'
<1> DEFINE revenue == Cardinality(PlatformCents(Recorded))
<1>1. LedgerShape /\ SplitWithinCent /\ ChartHolds
  BY DEF LedgerInv
<1>2. ledger' = ledger /\ day' = day /\ query.kind = "CHART" /\ query.side = "PLATFORM"
      /\ query' = [query EXCEPT !.total = revenue]
  BY DEF GetPlatformCommissionSummary
<1>3. Recorded' = Recorded /\ SplitWithinCent'
  BY <1>1, <1>2, SameRowsSameSums
<1>4. query \in ChartQuery
  BY <1>1, <1>2 DEF LedgerShape, SummaryQuery, NoQuery
<1>5. revenue \in Nat
  BY <1>1, PlatformCentsFinite
<1> HIDE DEF revenue
<1>6. /\ query' \in ChartQuery /\ query'.kind = "CHART" /\ query'.found = query.found
      /\ query'.stage = query.stage /\ query'.side = "PLATFORM" /\ query'.since = query.since
      /\ query'.midnight = query.midnight /\ query'.shown = query.shown
      /\ query'.total = revenue
  BY <1>2, <1>4, <1>5 DEF ChartQuery
<1>7. PlatformCents(Recorded)' = PlatformCents(Recorded)
      /\ PlatformCents(query.found)' = PlatformCents(query.found)
  BY <1>2, <1>3, <1>6 DEF PlatformCents, PlatformPart
<1> QED
  BY <1>1, <1>2, <1>3, <1>6, <1>7 DEF LedgerInv, LedgerShape, SummaryHolds, ChartHolds, revenue

\* A chart shows all it found if the day is still that of the question, and never more.
LEMMA GroupKeeps ==
    ASSUME LedgerInv, Group
    PROVE  LedgerInv'
<1> DEFINE provider == GroupCommissionsByDay(query.found)
           platform == GroupPlatformCommissionsByDay(query.found)
           shown == IF query.side = "PROVIDER" THEN provider ELSE platform
<1>1. LedgerShape /\ SplitWithinCent /\ ChartHolds
  BY DEF LedgerInv
<1>2. ledger' = ledger /\ day' = day /\ query.kind = "CHART"
      /\ query' = [query EXCEPT !.stage = "SHOWN", !.shown = shown]
  BY DEF Group
<1>3. Recorded' = Recorded /\ SplitWithinCent'
  BY <1>1, <1>2, SameRowsSameSums
<1>4. query \in ChartQuery
  BY <1>1, <1>2 DEF LedgerShape, SummaryQuery, NoQuery
<1>5. query.found \in SUBSET Recorded /\ OfDaysShown(query.found) \in SUBSET query.found
  BY <1>1, <1>2 DEF ChartHolds, OfDaysShown
<1>6. provider \in Nat /\ platform \in Nat
      /\ platform <= Cardinality(PlatformCents(query.found))
  <2>1. OfDaysShown(query.found) \in SUBSET Recorded
    BY <1>5
  <2> QED
    BY <1>1, <1>5, <2>1, ProviderCentsFinite, PlatformCentsFinite, PlatformCentsGrow
    DEF GroupCommissionsByDay, GroupPlatformCommissionsByDay
<1>7. ASSUME ~query.midnight
      PROVE  OfDaysShown(query.found) = query.found
  <2> SUFFICES ASSUME NEW c \in query.found PROVE ledger[c].on \in DaysShown
    BY DEF OfDaysShown
  <2>1. ledger[c] \in CommissionRow /\ c \in Recorded
    BY <1>1, <1>5 DEF Recorded, LedgerShape
  <2>2. ledger[c].on \in Int /\ ledger[c].on <= day /\ ledger[c].on >= query.since
    BY <1>1, <1>2, <2>1, LedgerAssumption DEF LedgerShape, CommissionRow, ChartHolds
  <2>3. query.since = day - (Days - 1)
    BY <1>1, <1>2, <1>7 DEF ChartHolds
  <2> QED
    BY <2>2, <2>3 DEF DaysShown
<1>8. ~query.midnight => /\ provider = Cardinality(ProviderCents(query.found))
                         /\ platform = Cardinality(PlatformCents(query.found))
  BY <1>7 DEF GroupCommissionsByDay, GroupPlatformCommissionsByDay
<1> HIDE DEF provider, platform
<1>9. /\ query' \in ChartQuery /\ query'.kind = "CHART" /\ query'.found = query.found
      /\ query'.stage = "SHOWN" /\ query'.side = query.side /\ query'.since = query.since
      /\ query'.torn = query.torn /\ query'.midnight = query.midnight
      /\ query'.total = query.total /\ query'.shown = shown
  <2>1. shown \in Int
    BY <1>6
  <2> HIDE DEF shown
  <2> QED
    BY <1>2, <1>4, <2>1 DEF ChartQuery
<1>10. /\ PlatformCents(Recorded)' = PlatformCents(Recorded)
       /\ PlatformCents(query.found)' = PlatformCents(query.found)
       /\ ProviderCents(query.found)' = ProviderCents(query.found)
  BY <1>2, <1>3, <1>9 DEF PlatformCents, PlatformPart, ProviderCents, ProviderPart
<1>11. LedgerShape' /\ SummaryHolds'
  BY <1>1, <1>2, <1>3, <1>9 DEF LedgerShape, SummaryHolds
<1>12. ChartHolds'
  BY <1>1, <1>2, <1>3, <1>4, <1>6, <1>8, <1>9, <1>10 DEF ChartHolds, ChartQuery
<1> QED
  BY <1>3, <1>11, <1>12 DEF LedgerInv

LEMMA LedgerStep == LedgerInv /\ [LedgerNext]_ledgerVars => LedgerInv'
<1> SUFFICES ASSUME LedgerInv, [LedgerNext]_ledgerVars PROVE LedgerInv'
  OBVIOUS
<1>1. CASE UNCHANGED ledgerVars
  BY <1>1 DEF ledgerVars, LedgerInv, LedgerShape, SplitWithinCent, SummaryHolds, ChartHolds,
              Recorded, Reading, Paid, Pending, ProviderCents, PlatformCents, ProviderPart,
              PlatformPart
<1>2. CASE LedgerNext
  BY <1>2, RecordForPaymentKeeps, MarkPaidOutKeeps, NextDayKeeps, AsksKeep, ReadSummaryKeeps,
     FindSinceKeeps, RevenueKeeps, GroupKeeps DEF LedgerNext
<1> QED
  BY <1>1, <1>2

\* Rows and queries are of their kinds, for any amounts and rates.
THEOREM LedgerTypeCorrect == LedgerSpec => []LedgerTypeOK
<1>1. LedgerInv => LedgerTypeOK
  <2> SUFFICES ASSUME LedgerInv, NEW c \in Recorded
               PROVE  ledger[c].gross \in Amount /\ ledger[c].on \in 0..day
    BY DEF LedgerInv, LedgerShape, LedgerTypeOK
  <2>1. ledger[c] \in CommissionRow /\ ledger[c].on <= day /\ day \in 0..LastDay
    BY DEF LedgerInv, LedgerShape, Recorded
  <2>2. ledger[c].gross \in Amount /\ ledger[c].on \in Nat
    BY <2>1 DEF CommissionRow
  <2> QED
    BY <2>1, <2>2
<1> QED
  BY LedgerInitInv, LedgerStep, <1>1, PTL DEF LedgerSpec

\* For any amounts, rates and days: platform and provider part add up to the gross amount or
\* one over, an overview no commission changed under is consistent, and the bars of a chart
\* are within what was earned and, asked and shown on one day, all of it (recordForPayment,
\* getSummary, findSince and groupByDay).
THEOREM LedgerAlwaysAddsUp == LedgerSpec => []LedgerAddsUp
  BY LedgerInitInv, LedgerStep, LedgerInvHoldsAdds, PTL DEF LedgerSpec

-----------------------------------------------------------------------------
(* The dashboard.                                                          *)

\* The answers of a report nothing changed under are what the rows say now.
FiguresHold == \A c \in DOMAIN figures : figures[c] = Answer[c]
FiguresInv == FiguresTypeOK /\ FiguresHold

\* Two sets with nothing in common, counted.
LEMMA DisjointCount ==
    ASSUME NEW S, NEW T, IsFiniteSet(S), IsFiniteSet(T), S \cap T = {}
    PROVE  /\ IsFiniteSet(S \cup T)
           /\ Cardinality(S \cup T) = Cardinality(S) + Cardinality(T)
           /\ Cardinality(S) \in Nat /\ Cardinality(T) \in Nat
<1>1. Cardinality(S) \in Nat /\ Cardinality(T) \in Nat
  BY FS_CardinalityType
<1>2. IsFiniteSet(S \cup T)
      /\ Cardinality(S \cup T) = Cardinality(S) + Cardinality(T) - Cardinality(S \cap T)
  BY FS_Union
<1>3. Cardinality(S \cap T) = 0
  BY FS_EmptySet
<1> QED
  BY <1>1, <1>2, <1>3

LEMMA UsersAddUp ==
    ASSUME standing \in [Visitor -> UserStatus \cup {"ABSENT"}]
    PROVE  CountUsers.total = CountUsers.active + CountUsers.inactive + CountUsers.banned
<1> DEFINE A == {v \in Visitor : standing[v] = "ACTIVE"}
           I == {v \in Visitor : standing[v] = "INACTIVE"}
           B == {v \in Visitor : standing[v] = "BANNED"}
<1>1. IsFiniteSet(A) /\ IsFiniteSet(I) /\ IsFiniteSet(B)
  BY FS_Subset, FiguresAssumption
<1>2. A \cap I = {} /\ (A \cup I) \cap B = {}
  OBVIOUS
<1>3. {v \in Visitor : standing[v] # "ABSENT"} = (A \cup I) \cup B
  BY DEF UserStatus
<1>4. CountUsers.total = Cardinality((A \cup I) \cup B) /\ CountUsers.active = Cardinality(A)
      /\ CountUsers.inactive = Cardinality(I) /\ CountUsers.banned = Cardinality(B)
  BY <1>3 DEF CountUsers, UsersOf
<1> HIDE DEF A, I, B
<1>5. IsFiniteSet(A \cup I) /\ Cardinality(A \cup I) = Cardinality(A) + Cardinality(I)
      /\ Cardinality(A) \in Nat /\ Cardinality(I) \in Nat
  BY <1>1, <1>2, DisjointCount
<1>6. Cardinality((A \cup I) \cup B) = Cardinality(A \cup I) + Cardinality(B)
      /\ Cardinality(B) \in Nat
  BY <1>1, <1>2, <1>5, DisjointCount
<1> QED
  BY <1>4, <1>5, <1>6

LEMMA ProvidersAddUp ==
    ASSUME licence \in [Vendor -> ProviderStatus \cup {"ABSENT"}]
    PROVE  LET by == CountProvidersByStatus
           IN  by.total = by.pending + by.approved + by.rejected + by.suspended
<1> DEFINE P == {p \in Vendor : licence[p] = "PENDING"}
           A == {p \in Vendor : licence[p] = "APPROVED"}
           R == {p \in Vendor : licence[p] = "REJECTED"}
           S == {p \in Vendor : licence[p] = "SUSPENDED"}
           by == CountProvidersByStatus
<1>1. IsFiniteSet(P) /\ IsFiniteSet(A) /\ IsFiniteSet(R) /\ IsFiniteSet(S)
  BY FS_Subset, FiguresAssumption
<1>2. P \cap A = {} /\ R \cap S = {} /\ (P \cup A) \cap (R \cup S) = {}
  OBVIOUS
<1>3. {p \in Vendor : licence[p] # "ABSENT"} = (P \cup A) \cup (R \cup S)
  BY DEF ProviderStatus
<1>4. by.total = Cardinality((P \cup A) \cup (R \cup S)) /\ by.pending = Cardinality(P)
      /\ by.approved = Cardinality(A) /\ by.rejected = Cardinality(R)
      /\ by.suspended = Cardinality(S)
  BY <1>3 DEF CountProvidersByStatus, ProvidersOf
<1> HIDE DEF P, A, R, S, by
<1>5. IsFiniteSet(P \cup A) /\ Cardinality(P \cup A) = Cardinality(P) + Cardinality(A)
      /\ Cardinality(P) \in Nat /\ Cardinality(A) \in Nat
  BY <1>1, <1>2, DisjointCount
<1>6. IsFiniteSet(R \cup S) /\ Cardinality(R \cup S) = Cardinality(R) + Cardinality(S)
      /\ Cardinality(R) \in Nat /\ Cardinality(S) \in Nat
  BY <1>1, <1>2, DisjointCount
<1>7. Cardinality((P \cup A) \cup (R \cup S)) = Cardinality(P \cup A) + Cardinality(R \cup S)
  BY <1>2, <1>5, <1>6, DisjointCount
<1>8. by.total = by.pending + by.approved + by.rejected + by.suspended
  BY <1>4, <1>5, <1>6, <1>7
<1> QED
  BY <1>8 DEF by

\* A booking is one row, so there are finitely many; who booked are no more than those.
LEMMA BookersBacked ==
    ASSUME FiguresTypeOK
    PROVE  /\ GetConversion30d.convertedUsers <= GetConversion30d.viewedUsers
           /\ GetConversion30d.convertedUsers <= CountBookingsByDomain.total
<1>1. sales \subseteq Sale /\ viewed \subseteq Visitor /\ \A r, s \in sales : r.id = s.id => r = s
  BY DEF FiguresTypeOK
<1>2. IsFiniteSet(sales)
  <2> DEFINE f == [r \in sales |-> r.id]
  <2>1. f \in Injection(sales, Order)
    <3>1. f \in [sales -> Order]
      BY <1>1 DEF Sale
    <3>2. \A r, s \in sales : f[r] = f[s] => r = s
      BY <1>1
    <3> QED
      BY <3>1, <3>2 DEF Injection, IsInjective
  <2> QED
    BY <2>1, FS_Injection, FiguresAssumption
<1>3. UNION {SalesOf(d) : d \in Domain} = sales
  BY <1>1 DEF SalesOf, Sale
<1> DEFINE recent == {s \in sales : Lately(s)}
           g == [r \in recent |-> r.by]
<1>4. IsFiniteSet(recent) /\ Cardinality(recent) <= Cardinality(sales)
  BY <1>2, FS_Subset
<1>5. g \in Surjection(recent, Booked)
  BY DEF Surjection, Booked
<1>6. IsFiniteSet(Booked) /\ Cardinality(Booked) <= Cardinality(recent)
  BY <1>4, <1>5, FS_Surjection
<1>7. IsFiniteSet(viewed)
  BY <1>1, FS_Subset, FiguresAssumption
<1>8. Cardinality(viewed \cap Booked) <= Cardinality(viewed)
  BY <1>7, FS_Subset
<1>9. Cardinality(viewed \cap Booked) <= Cardinality(Booked) /\ IsFiniteSet(viewed \cap Booked)
  BY <1>6, FS_Subset
<1>10. /\ Cardinality(viewed \cap Booked) \in Nat /\ Cardinality(Booked) \in Nat
       /\ Cardinality(recent) \in Nat /\ Cardinality(sales) \in Nat
  BY <1>2, <1>4, <1>6, <1>9, FS_CardinalityType
<1> HIDE DEF recent
<1> QED
  BY <1>3, <1>4, <1>6, <1>8, <1>9, <1>10 DEF GetConversion30d, CountBookingsByDomain

LEMMA FiguresInvAddsUp == FiguresInv => FiguresAddUp
<1> SUFFICES ASSUME FiguresInv PROVE FiguresAddUp
  OBVIOUS
<1>1. FiguresTypeOK /\ FiguresHold
  BY DEF FiguresInv
<1>2. CountUsers.total = CountUsers.active + CountUsers.inactive + CountUsers.banned
  BY <1>1, UsersAddUp DEF FiguresTypeOK
<1>3. LET by == CountProvidersByStatus
      IN  by.total = by.pending + by.approved + by.rejected + by.suspended
  BY <1>1, ProvidersAddUp DEF FiguresTypeOK
<1>4. /\ Answer["countUsers"] = CountUsers
      /\ Answer["countProvidersByStatus"] = CountProvidersByStatus
      /\ Answer["countBookingsByDomain"] = CountBookingsByDomain
      /\ Answer["getConversion30d"] = GetConversion30d
  BY DEF Answer
<1>5. EveryoneIsCounted
  <2> HIDE DEF CountUsers, CountProvidersByStatus, Answer
  <2> QED
    BY <1>1, <1>2, <1>3, <1>4 DEF EveryoneIsCounted, FiguresHold
<1>6. ConversionIsBacked
  BY <1>1, <1>4, BookersBacked DEF ConversionIsBacked, FiguresHold
<1> QED
  BY <1>5, <1>6 DEF FiguresAddUp

-----------------------------------------------------------------------------
LEMMA FiguresInitInv == FiguresInit => FiguresInv
  BY DEF FiguresInit, FiguresInv, FiguresTypeOK, FiguresHold, NoFigures

LEMMA FiguresStep == FiguresInv /\ [FiguresNext]_figuresVars => FiguresInv'
<1> SUFFICES ASSUME FiguresInv, [FiguresNext]_figuresVars PROVE FiguresInv'
  OBVIOUS
<1>1. FiguresTypeOK /\ FiguresHold
  BY DEF FiguresInv
<1>2. ASSUME figures' = NoFigures
      PROVE  FiguresHold' /\ DOMAIN figures' \subseteq Call
  BY <1>2 DEF FiguresHold, NoFigures
<1>3. CASE UNCHANGED figuresVars
  <2>1. Answer' = Answer
    BY <1>3 DEF figuresVars, tables, Answer, CountUsers, UsersOf, CountProvidersByStatus,
       ProvidersOf, CountBookingsByDomain, SalesOf, GetConversion30d, Booked, Lately
  <2>2. FiguresHold'
    BY <1>1, <1>3, <2>1 DEF figuresVars, FiguresHold
  <2> QED
    BY <1>1, <1>3, <2>2 DEF figuresVars, tables, FiguresInv, FiguresTypeOK
<1>4. CASE \E v \in Visitor :
             ViewsChange(v) \/ \E s \in UserStatus \cup {"ABSENT"} : UserChanges(v, s)
  BY <1>1, <1>2, <1>4 DEF ViewsChange, UserChanges, FiguresInv, FiguresTypeOK
<1>5. CASE \E p \in Vendor, s \in ProviderStatus : ProviderChanges(p, s)
  BY <1>1, <1>2, <1>5 DEF ProviderChanges, FiguresInv, FiguresTypeOK
<1>6. ASSUME NEW r \in Sale, SaleMade(r)
      PROVE  FiguresInv'
  BY <1>1, <1>2, <1>6 DEF SaleMade, FiguresInv, FiguresTypeOK
<1>7. ASSUME NEW r \in sales, SaleAges(r) \/ SaleEnds(r)
      PROVE  FiguresInv'
  <2>1. CASE SaleAges(r)
    <3> DEFINE old == [r EXCEPT !.made = "BEFORE"]
    <3>1. r \in Sale
      BY <1>1 DEF FiguresTypeOK
    <3>2. old \in Sale /\ old.id = r.id
      BY <3>1 DEF Sale
    <3>3. sales' = (sales \ {r}) \cup {old} /\ figures' = NoFigures
      BY <2>1 DEF SaleAges
    <3> HIDE DEF old
    <3>4. \A s \in sales \ {r} : s.id # old.id
      BY <1>1, <3>2 DEF FiguresTypeOK
    <3>5. sales' \subseteq Sale /\ \A s, t \in sales' : s.id = t.id => s = t
      BY <1>1, <3>2, <3>3, <3>4 DEF FiguresTypeOK
    <3> QED
      BY <1>1, <1>2, <2>1, <3>3, <3>5 DEF SaleAges, FiguresInv, FiguresTypeOK
  <2>2. CASE SaleEnds(r)
    BY <1>1, <1>2, <2>2 DEF SaleEnds, FiguresInv, FiguresTypeOK
  <2> QED
    BY <1>7, <2>1, <2>2
<1>8. CASE Analytics
  BY <1>1, <1>2, <1>8 DEF Analytics, tables, FiguresInv, FiguresTypeOK
<1>9. ASSUME NEW c \in Call, Answers(c)
      PROVE  FiguresInv'
  <2>1. UNCHANGED tables
    BY <1>9 DEF Answers
  <2>2. Answer' = Answer
    BY <2>1 DEF tables, Answer, CountUsers, UsersOf, CountProvidersByStatus, ProvidersOf,
       CountBookingsByDomain, SalesOf, GetConversion30d, Booked, Lately
  <2>3. /\ DOMAIN figures' = DOMAIN figures \cup {c}
        /\ \A a \in DOMAIN figures' : figures'[a] = IF a = c THEN Answer[c] ELSE figures[a]
    BY <1>9 DEF Answers
  <2>4. FiguresHold'
    BY <1>1, <2>2, <2>3 DEF FiguresHold
  <2> QED
    BY <1>1, <2>1, <2>3, <2>4 DEF tables, FiguresInv, FiguresTypeOK
<1> QED
  BY <1>3, <1>4, <1>5, <1>6, <1>7, <1>8, <1>9 DEF FiguresNext

\* The rows the dashboard counts and what it shows are of their kinds.
THEOREM FiguresTypeCorrect == FiguresSpec => []FiguresTypeOK
<1>1. FiguresInv => FiguresTypeOK
  BY DEF FiguresInv
<1> QED
  BY FiguresInitInv, FiguresStep, <1>1, PTL DEF FiguresSpec

\* For any users, providers and bookings: the statuses of users and of providers add up to
\* their totals, and the conversion of thirty days counts no booker who has no booking in
\* them (countUsers, countProvidersByStatus, getConversion30d).
THEOREM FiguresAlwaysAddUp == FiguresSpec => []FiguresAddUp
  BY FiguresInitInv, FiguresStep, FiguresInvAddsUp, PTL DEF FiguresSpec
=============================================================================
