------------------------------- MODULE Pricing -------------------------------
(***************************************************************************)
(* What a booking costs: the promotion or coupon that lowers its subtotal, *)
(* the amounts stored with its payment, what Stripe is asked to collect,   *)
(* and what it is asked to give back after a cancellation.  Stored amounts *)
(* are in cents, computed ones in ten thousandths of a cent, Stripe's in   *)
(* whole units, and the time in half days.                                 *)
(***************************************************************************)
EXTENDS Money, FiniteSets

CONSTANTS
    Promotion,     \* rows of promotions
    Seller,        \* providers
    TypeOf,        \* the domain a provider sells in
    AnyProvider,   \* owner of the promotions that hold for every provider
    Deal,          \* discountType, discountValue, maxDiscountAmount, minOrderAmount
    NoCap,         \* maxDiscountAmount IS NULL
    Priority,
    Purchase,      \* bookings with their payments
    Subtotal,
    StartDate,     \* first day of the bookings
    FullDays,      \* REFUND_FULL_DAYS
    PartialDays,   \* REFUND_PARTIAL_DAYS
    PartialPercent,  \* REFUND_PARTIAL_PERCENT
    LastTime       \* bound of the model on the clock

ASSUME PricingAssumption ==
    /\ TypeOf \in [Seller -> {"HOTEL", "TOUR", "EXPERIENCE", "TRANSPORT", "FLIGHT"}]
    /\ AnyProvider \notin Seller
    /\ \A d \in Deal : d.percent \in BOOLEAN /\ d.value \in Nat /\ d.cap \in Nat \cup {NoCap} /\ d.min \in Nat
    /\ NoCap \notin Nat
    /\ Priority \subseteq Int /\ Subtotal \subseteq Nat
    /\ FullDays \in Int /\ PartialDays \in Int /\ PartialDays <= FullDays
    /\ PartialPercent \in 0..100
    /\ StartDate \in Nat /\ LastTime \in Nat

VARIABLES
    promotion,   \* the rows
    purchase,    \* amounts of each booking
    clock        \* half days since the first midnight

pricingVars == <<promotion, purchase, clock>>

Domains == {TypeOf[s] : s \in Seller}

\* A request body.  ACTIVE and within its dates is one Boolean: an update that changes
\* nothing else stands for the clock, too.
PromotionDto == [deal : Deal, priority : Priority, running : BOOLEAN, domains : SUBSET Domains \ {{}}]
Row(owner, d, domains) ==
    [owner |-> owner, deal |-> d.deal, priority |-> d.priority, running |-> d.running, domains |-> domains]
NoPromotion == [owner |-> "NONE"]
Offered == {p \in Promotion : promotion[p] # NoPromotion}

NotPriced == [stage |-> "NONE"]

PricingInit ==
    /\ promotion = [p \in Promotion |-> NoPromotion]
    /\ purchase = [b \in Purchase |-> NotPriced]
    /\ clock = 0

-----------------------------------------------------------------------------
(* Promotions, of the platform and of a provider.                          *)

\* create: for the domains the administrator names, or all.
CreatePromotion(p, d) ==
    /\ promotion[p] = NoPromotion
    /\ promotion' = [promotion EXCEPT ![p] = Row(AnyProvider, d, d.domains)]
    /\ UNCHANGED <<purchase, clock>>

\* createMine: for the one domain of the provider.
CreateMyPromotion(p, s, d) ==
    /\ promotion[p] = NoPromotion
    /\ promotion' = [promotion EXCEPT ![p] = Row(s, d, {TypeOf[s]})]
    /\ UNCHANGED <<purchase, clock>>

\* update: the administrator may change every row, and its domains.
UpdatePromotion(p, d) ==
    /\ p \in Offered
    /\ promotion' = [promotion EXCEPT ![p] = Row(@.owner, d, d.domains)]
    /\ UNCHANGED <<purchase, clock>>

\* updateMine: the provider its own rows, and not their domains.
UpdateMyPromotion(p, s, d) ==
    /\ p \in Offered /\ promotion[p].owner = s
    /\ promotion' = [promotion EXCEPT ![p] = Row(s, d, @.domains)]
    /\ UNCHANGED <<purchase, clock>>

\* remove, removeMine.
RemovePromotion(p) ==
    /\ p \in Offered
    /\ promotion' = [promotion EXCEPT ![p] = NoPromotion]
    /\ UNCHANGED <<purchase, clock>>

-----------------------------------------------------------------------------
(* The discount of a booking.                                              *)

LowerOf(x, y) == IF x < y THEN x ELSE y
HigherOf(x, y) == IF x > y THEN x ELSE y
Asked(subtotal, d) == IF d.percent THEN subtotal * d.value ELSE Exact(d.value)
Capped(x, d) == IF d.cap = NoCap THEN x ELSE LowerOf(x, Exact(d.cap))

(* Mutant: a discount may be larger than what it is taken from.            *)
UnboundedDiscount(subtotal, d) == HigherOf(Capped(Asked(subtotal, d), d), 0)

ComputeDiscount(subtotal, d) == HigherOf(LowerOf(Capped(Asked(subtotal, d), d), Exact(subtotal)), 0)

Applicable(s, subtotal) ==
    {p \in Offered : /\ promotion[p].running /\ promotion[p].deal.min <= subtotal
                  /\ promotion[p].owner \in {AnyProvider, s} /\ TypeOf[s] \in promotion[p].domains}

\* findBestActivePromotion: one of the highest priority.
BestPromotions(s, subtotal) ==
    {p \in Applicable(s, subtotal) :
       \A q \in Applicable(s, subtotal) : promotion[q].priority <= promotion[p].priority}

\* applyBestPromotion.
PromotionDiscounts(s, subtotal) ==
    IF BestPromotions(s, subtotal) = {} THEN {0}
    ELSE {ComputeDiscount(subtotal, promotion[p].deal) : p \in BestPromotions(s, subtotal)}

\* applyCoupon: a coupon that is lost, or wants a larger order, gives nothing, and no
\* promotion takes its place.
CouponDiscounts(subtotal) ==
    {0} \cup {ComputeDiscount(subtotal, d) : d \in {e \in Deal : e.min <= subtotal}}

-----------------------------------------------------------------------------
(* Payment and refund.                                                     *)

\* The row of a payment: the amounts are rounded when stored.
Bill(subtotal, due, sessions) ==
    [stage |-> "PENDING", subtotal |-> subtotal, due |-> due, amount |-> Cents(due),
     discountAmount |-> Cents(Exact(subtotal) - due), sessions |-> sessions]

\* createForBooking: the exact amount is what the session is made of, if Stripe answers.
CreateForBooking(b, s, subtotal) ==
    /\ purchase[b] = NotPriced
    /\ \E discount \in PromotionDiscounts(s, subtotal) \cup CouponDiscounts(subtotal) :
         \E sessions \in {{Units(Exact(subtotal) - discount)}, {}} :
           purchase' = [purchase EXCEPT ![b] = Bill(subtotal, Exact(subtotal) - discount, sessions)]
    /\ UNCHANGED <<promotion, clock>>

\* retry: a session of the stored amount.  The earlier one can still be paid; lapsed
\* sessions, and a retry that overtakes a payment, are in BookingPayment.
Retry(b) ==
    /\ purchase[b].stage = "PENDING"
    /\ purchase' = [purchase EXCEPT ![b].sessions = @ \cup {Units(Exact(purchase[b].amount))}]
    /\ UNCHANGED <<promotion, clock>>

\* The traveller pays one of the sessions, see BookingPayment.
PaySession(b) ==
    /\ purchase[b].stage = "PENDING"
    /\ \E unit \in purchase[b].sessions :
         purchase' = [purchase EXCEPT ![b] =
           [stage |-> "PAID", subtotal |-> @.subtotal, due |-> @.due, amount |-> @.amount,
            discountAmount |-> @.discountAmount, charged |-> unit]]
    /\ UNCHANGED <<promotion, clock>>

\* Whole days from now to the midnight the booking starts at.
DaysUntilStart(t) == (2 * StartDate - t) \div 2

RefundPercent(t) ==
    CASE DaysUntilStart(t) >= FullDays -> 100
      [] DaysUntilStart(t) < FullDays /\ DaysUntilStart(t) >= PartialDays -> PartialPercent
      [] OTHER -> 0

\* createRefundForBooking, after a cancel that came before the first day.
CreateRefund(b) ==
    LET percent == RefundPercent(clock)
        back == PercentOf(purchase[b].amount, percent)
    IN  /\ purchase[b].stage = "PAID" /\ StartDate > clock \div 2
        /\ purchase' = [purchase EXCEPT ![b] =
              [stage |-> "CANCELLED", subtotal |-> @.subtotal, due |-> @.due, amount |-> @.amount,
               discountAmount |-> @.discountAmount, charged |-> @.charged,
               percent |-> percent, refund |-> Cents(back), refunded |-> Units(back)]]
        /\ UNCHANGED <<promotion, clock>>

HalfDay ==
    /\ clock < LastTime
    /\ clock' = clock + 1
    /\ UNCHANGED <<promotion, purchase>>

PricingNext ==
    \/ \E p \in Promotion :
         \/ \E d \in PromotionDto : \/ CreatePromotion(p, d) \/ UpdatePromotion(p, d)
                             \/ \E s \in Seller : CreateMyPromotion(p, s, d) \/ UpdateMyPromotion(p, s, d)
         \/ RemovePromotion(p)
    \/ \E b \in Purchase :
         \/ \E s \in Seller, subtotal \in Subtotal : CreateForBooking(b, s, subtotal)
         \/ Retry(b) \/ PaySession(b) \/ CreateRefund(b)
    \/ HalfDay

PricingSpec == PricingInit /\ [][PricingNext]_pricingVars

-----------------------------------------------------------------------------
(* Properties.                                                             *)

Priced == {b \in Purchase : purchase[b] # NotPriced}
Charged == {b \in Priced : purchase[b].stage \in {"PAID", "CANCELLED"}}
Cancelled == {b \in Priced : purchase[b].stage = "CANCELLED"}

\* Offered and payments are of their kinds.
PricingTypeOK ==
    /\ clock \in 0..LastTime
    /\ \A p \in Offered : promotion[p].owner \in Seller \cup {AnyProvider} /\ promotion[p].domains \subseteq Domains
    /\ \A b \in Priced : purchase[b].stage \in {"PENDING", "PAID", "CANCELLED"}

\* Amount and discount, rounded apart, make up the subtotal but for a cent; the traveller
\* is never owed anything.
PriceIsWhole ==
    \A b \in Priced :
      /\ purchase[b].amount \in 0..purchase[b].subtotal
      /\ purchase[b].amount + purchase[b].discountAmount - purchase[b].subtotal \in {0, 1}

\* Stripe collects what the payment says, but for half a unit.
ChargeFollowsAmount ==
    \A b \in Charged : purchase[b].charged * 100 - purchase[b].amount \in -50..50

\* No more is given back than was collected, unless an amount with a fraction of a cent
\* was rounded twice, down for Stripe and up by the database: then one unit more, which
\* Stripe refuses.  Whoever waits never gets more.
RefundCovered ==
    \A b \in Cancelled :
      /\ purchase[b].refunded <= purchase[b].charged + (IF purchase[b].due % 10000 = 0 THEN 0 ELSE 1)
      /\ purchase[b].percent = 100 => purchase[b].refunded >= purchase[b].charged
      /\ purchase[b].refund <= purchase[b].amount
      /\ \A t \in clock..LastTime : RefundPercent(t) <= purchase[b].percent

PricesAddUp == PriceIsWhole /\ ChargeFollowsAmount /\ RefundCovered
=============================================================================
