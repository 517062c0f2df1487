---------------------------- MODULE CouponProofs ----------------------------
(***************************************************************************)
(* Proofs about Coupon, for every set of bookings, travellers and codes,   *)
(* every usage limit and every per-user limit.                             *)
(***************************************************************************)
EXTENDS Coupon, FiniteSetTheorems, TLAPS

(* A request has its traveller and code, and redeems at its fourth step.   *)
RequestsInOrder ==
    /\ \A b \in Booking : request[b] # "idle" => user[b] \in User /\ code[b] \in Code
    /\ \A b \in Booking : request[b] \in {"idle", "validated", "booked", "redeeming"} =>
          redemption[b] = NoCode
    /\ \A b \in Booking : redemption[b] \in {NoCode, code[b]}
    /\ \A b \in Booking : booking[b] = "EXPIRED" => request[b] \in {"ended", "failed"}
    /\ \A b \in Booking : request[b] \in {"idle", "validated"} => booking[b] = "ABSENT"
    /\ \A b \in discounted : request[b] = "ended"

(* The job works on expired bookings, and releases rows that exist.        *)
JobInOrder ==
    /\ \A b \in expiredIds : booking[b] = "EXPIRED"
    /\ \A b \in releasing : booking[b] = "EXPIRED" /\ redemption[b] \in Code

(* Uses of c that u has, or may come to have by the requests under way.    *)
Claims(u, c) == RedeemedBy(u, c) \cup Underway(u, c)
ClaimsWithinLimit ==
    \A u \in User, c \in Code : <<u, c>> \notin overlapped => Cardinality(Claims(u, c)) <= PerUserLimit

IInv ==
    /\ TypeOK
    /\ RequestsInOrder
    /\ JobInOrder
    /\ UsedCountExact
    /\ DiscountKeepsRedemption
    /\ ExpiredGivesBackUnlessForgotten
    /\ ClaimsWithinLimit

Redemptions(c) == {b \in Booking : redemption[b] = c}

(* Sets of bookings are finite.                                            *)
LEMMA BookingSetsFinite ==
    ASSUME NEW S \in SUBSET Booking
    PROVE  IsFiniteSet(S) /\ Cardinality(S) \in Nat
  BY CouponAssumption, FS_Subset, FS_CardinalityType

-----------------------------------------------------------------------------
(* The initial state                                                       *)

LEMMA InitIInv == Init => IInv
<1> SUFFICES ASSUME Init PROVE IInv
  OBVIOUS
<1>1. TypeOK
  BY DEF Init, TypeOK, RequestStep
<1>2. RequestsInOrder /\ JobInOrder /\ DiscountKeepsRedemption /\ ExpiredGivesBackUnlessForgotten
  BY DEF Init, RequestsInOrder, JobInOrder, DiscountKeepsRedemption, ExpiredGivesBackUnlessForgotten
<1>3. UsedCountExact
  <2>1. \A c \in Code : {b \in Booking : redemption[b] = c} = {}
    BY CouponAssumption DEF Init
  <2>2. QED
    BY <2>1, FS_EmptySet DEF Init, UsedCountExact
<1>4. ClaimsWithinLimit
  <2>1. ASSUME NEW u \in User, NEW c \in Code PROVE Claims(u, c) = {}
    BY CouponAssumption DEF Init, Claims, RedeemedBy, Underway
  <2>2. Cardinality({}) <= PerUserLimit
    BY FS_EmptySet, CouponAssumption
  <2>3. QED
    BY <2>1, <2>2 DEF ClaimsWithinLimit
<1>5. QED
  BY <1>1, <1>2, <1>3, <1>4 DEF IInv

-----------------------------------------------------------------------------
(* The order of things                                                     *)

Ordered == TypeOK /\ RequestsInOrder /\ JobInOrder /\ DiscountKeepsRedemption /\ ExpiredGivesBackUnlessForgotten

LEMMA OrderedStep ==
    ASSUME Ordered, [Next]_vars
    PROVE  Ordered'
<1> USE DEF Ordered, TypeOK, RequestStep, RequestsInOrder, JobInOrder, DiscountKeepsRedemption,
            ExpiredGivesBackUnlessForgotten, coupons, requests, job
<1> USE CouponAssumption
<1>1. ASSUME NEW c \in Code, ChangeUsable(c) PROVE Ordered'
  BY <1>1 DEF ChangeUsable
<1>2. ASSUME NEW c \in Code, NEW limit \in Limits, Update(c, limit) PROVE Ordered'
  BY <1>2 DEF Update
<1>3. ASSUME NEW b \in Booking, NEW u \in User, NEW c \in Code, ValidateCode(b, u, c) PROVE Ordered'
  BY <1>3 DEF ValidateCode
<1>4. ASSUME NEW b \in Booking, CreateBooking(b) PROVE Ordered'
  BY <1>4 DEF CreateBooking
<1>5. ASSUME NEW b \in Booking, NEW orderLargeEnough \in BOOLEAN, ApplyCoupon(b, orderLargeEnough) PROVE Ordered'
  BY <1>5 DEF ApplyCoupon
<1>6. ASSUME NEW b \in Booking, Redeem(b) PROVE Ordered'
  BY <1>6 DEF Redeem
<1>7. ASSUME NEW b \in Booking, CreatePayment(b) PROVE Ordered'
  BY <1>7 DEF CreatePayment
<1>8. ASSUME NEW b \in Booking, RequestFails(b) PROVE Ordered'
  BY <1>8 DEF RequestFails
<1>9. ASSUME NEW b \in Booking, Confirm(b) PROVE Ordered'
  BY <1>9 DEF Confirm
<1>10. ASSUME NEW b \in Booking, ExpirePending(b) PROVE Ordered'
  BY <1>10 DEF ExpirePending
<1>11. ASSUME NEW b \in Booking, Rollback(b) PROVE Ordered'
  BY <1>11 DEF Rollback, RunGoesOn
<1>12. ASSUME NEW d \in Domain, FindRedemptions(d) PROVE Ordered'
  BY <1>12 DEF FindRedemptions, RowsOf, RunGoesOn
<1>13. ASSUME AllDomainsExpired PROVE Ordered'
  BY <1>13 DEF AllDomainsExpired
<1>14. ASSUME JobFails PROVE Ordered'
  BY <1>14 DEF JobFails
<1>15. CASE UNCHANGED vars
  BY <1>15 DEF vars
<1>16. QED
  BY <1>1, <1>2, <1>3, <1>4, <1>5, <1>6, <1>7, <1>8, <1>9, <1>10, <1>11, <1>12, <1>13, <1>14,
     <1>15 DEF Next

-----------------------------------------------------------------------------
(* The counter                                                             *)

(* The counter and the rows are written by two actions only.               *)
LEMMA CounterWriters ==
    ASSUME [Next]_vars
    PROVE  \/ UNCHANGED <<usedCount, redemption>>
           \/ \E b \in Booking : Redeem(b) \/ Rollback(b)
  BY DEF Next, ChangeUsable, Update, ValidateCode, CreateBooking, ApplyCoupon, CreatePayment,
     RequestFails, Confirm,
         ExpirePending, FindRedemptions, AllDomainsExpired, JobFails, coupons, vars

LEMMA CounterStep ==
    ASSUME Ordered, UsedCountExact, [Next]_vars
    PROVE  UsedCountExact'
<1>0. /\ usedCount \in [Code -> Nat] /\ redemption \in [Booking -> Code \cup {NoCode}]
      /\ code \in [Booking -> Code \cup {NoCode}]
      /\ NoCode \notin Code
      /\ \A c \in Code : usedCount[c] = Cardinality(Redemptions(c))
  BY CouponAssumption DEF Ordered, TypeOK, UsedCountExact, Redemptions
<1>1. SUFFICES ASSUME NEW c \in Code
               PROVE  usedCount'[c] = Cardinality(Redemptions(c)')
  BY DEF UsedCountExact, Redemptions
<1>2. IsFiniteSet(Redemptions(c)) /\ Cardinality(Redemptions(c)) \in Nat
  BY BookingSetsFinite DEF Redemptions
<1>3. ASSUME NEW b \in Booking, Redeem(b) PROVE usedCount'[c] = Cardinality(Redemptions(c)')
  <2>1. redemption[b] = NoCode /\ code[b] \in Code
    BY <1>3 DEF Redeem, Ordered, RequestsInOrder
  <2>2. CASE UNCHANGED <<usedCount, redemption>>
    BY <1>0, <2>2 DEF Redemptions
  <2>3. CASE /\ usedCount' = [usedCount EXCEPT ![code[b]] = @ + 1]
             /\ redemption' = [redemption EXCEPT ![b] = code[b]]
    <3>1. CASE c = code[b]
      <4>1. Redemptions(c)' = Redemptions(c) \cup {b} /\ b \notin Redemptions(c)
        BY <1>0, <2>1, <2>3, <3>1 DEF Redemptions
      <4>2. Cardinality(Redemptions(c) \cup {b}) = Cardinality(Redemptions(c)) + 1
        BY <1>2, <4>1, FS_AddElement
      <4>3. usedCount'[c] = usedCount[c] + 1
        BY <1>0, <2>3, <3>1
      <4>4. QED
        BY <1>0, <4>1, <4>2, <4>3
    <3>2. CASE c # code[b]
      <4>1. Redemptions(c)' = Redemptions(c)
        BY <1>0, <2>1, <2>3, <3>2 DEF Redemptions
      <4>2. usedCount'[c] = usedCount[c]
        BY <1>0, <2>1, <2>3, <3>2
      <4>3. QED
        BY <1>0, <4>1, <4>2
    <3>3. QED
      BY <3>1, <3>2
  <2>4. QED
    BY <1>3, <2>2, <2>3 DEF Redeem
<1>4. ASSUME NEW b \in Booking, Rollback(b) PROVE usedCount'[c] = Cardinality(Redemptions(c)')
  <2>1. /\ redemption[b] \in Code
        /\ usedCount' = [usedCount EXCEPT ![redemption[b]] = IF @ > 0 THEN @ - 1 ELSE @]
        /\ redemption' = [redemption EXCEPT ![b] = NoCode]
    BY <1>4 DEF Rollback, Ordered, JobInOrder
  <2>2. CASE c = redemption[b]
    <3>1. Redemptions(c)' = Redemptions(c) \ {b} /\ b \in Redemptions(c)
      BY <1>0, <2>1, <2>2 DEF Redemptions
    <3>2. Cardinality(Redemptions(c) \ {b}) = Cardinality(Redemptions(c)) - 1
      BY <1>2, <3>1, FS_RemoveElement
    <3>3. Cardinality(Redemptions(c) \ {b}) \in Nat
      BY <1>2, FS_Subset, FS_CardinalityType
    <3>4. usedCount[c] > 0
      BY <1>0, <1>2, <3>2, <3>3
    <3>5. usedCount'[c] = usedCount[c] - 1
      BY <1>0, <2>1, <2>2, <3>4
    <3>6. QED
      BY <1>0, <3>1, <3>2, <3>5
  <2>3. CASE c # redemption[b]
    <3>1. Redemptions(c)' = Redemptions(c)
      BY <1>0, <2>1, <2>3 DEF Redemptions
    <3>2. usedCount'[c] = usedCount[c]
      BY <1>0, <2>1, <2>3
    <3>3. QED
      BY <1>0, <3>1, <3>2
  <2>4. QED
    BY <2>2, <2>3
<1>5. ASSUME UNCHANGED <<usedCount, redemption>> PROVE usedCount'[c] = Cardinality(Redemptions(c)')
  BY <1>0, <1>5 DEF Redemptions
<1>6. QED
  BY <1>3, <1>4, <1>5, CounterWriters

-----------------------------------------------------------------------------
(* The per-user limit                                                      *)

LEMMA ClaimsStep ==
    ASSUME Ordered, ClaimsWithinLimit, [Next]_vars
    PROVE  ClaimsWithinLimit'
<1> USE DEF Ordered, TypeOK, RequestsInOrder, RequestStep
<1>0. SUFFICES ASSUME NEW u \in User, NEW c \in Code, <<u, c>> \notin overlapped'
               PROVE  Cardinality(Claims(u, c)') <= PerUserLimit
  BY DEF ClaimsWithinLimit, Claims, RedeemedBy, Underway
<1>1. ASSUME Claims(u, c)' \subseteq Claims(u, c), <<u, c>> \notin overlapped
      PROVE  Cardinality(Claims(u, c)') <= PerUserLimit
  <2>1. IsFiniteSet(Claims(u, c)) /\ Cardinality(Claims(u, c)) \in Nat
    BY BookingSetsFinite DEF Claims, RedeemedBy, Underway
  <2>2. Cardinality(Claims(u, c)') <= Cardinality(Claims(u, c)) /\ Cardinality(Claims(u, c)') \in Nat
    BY <1>1, <2>1, FS_Subset, FS_CardinalityType
  <2>3. Cardinality(Claims(u, c)) <= PerUserLimit
    BY <1>1 DEF ClaimsWithinLimit
  <2>4. QED
    BY <2>1, <2>2, <2>3, CouponAssumption
<1>2. ASSUME NEW b \in Booking, NEW v \in User, NEW k \in Code, ValidateCode(b, v, k)
      PROVE  Cardinality(Claims(u, c)') <= PerUserLimit
  <2>1. overlapped \subseteq overlapped'
    BY <1>2 DEF ValidateCode
  <2>2. CASE v = u /\ k = c
    <3>1. Underway(u, c) = {}
      BY <1>0, <1>2, <2>2 DEF ValidateCode
    <3>2. Claims(u, c)' \subseteq RedeemedBy(u, c) \cup {b}
      BY <1>2, <2>2, <3>1, CouponAssumption DEF ValidateCode, Claims, RedeemedBy, Underway, coupons
    <3>3. IsFiniteSet(RedeemedBy(u, c)) /\ Cardinality(RedeemedBy(u, c)) \in Nat
      BY BookingSetsFinite DEF RedeemedBy
    <3>4. Cardinality(RedeemedBy(u, c) \cup {b}) \in {Cardinality(RedeemedBy(u, c)), Cardinality(RedeemedBy(u, c)) + 1}
      BY <3>3, FS_AddElement
    <3>5. /\ IsFiniteSet(RedeemedBy(u, c) \cup {b})
          /\ Cardinality(RedeemedBy(u, c) \cup {b}) \in Nat
      BY <3>3, FS_AddElement, FS_CardinalityType
    <3>6. /\ Cardinality(Claims(u, c)') <= Cardinality(RedeemedBy(u, c) \cup {b})
          /\ Cardinality(Claims(u, c)') \in Nat
      BY <3>2, <3>5, FS_Subset, FS_CardinalityType
    <3>7. Cardinality(RedeemedBy(u, c)) < PerUserLimit
      BY <1>2, <2>2 DEF ValidateCode, MayUse
    <3>8. QED
      BY <3>3, <3>4, <3>5, <3>6, <3>7, CouponAssumption
  <2>3. CASE ~(v = u /\ k = c)
    <3>1. Claims(u, c)' \subseteq Claims(u, c)
      BY <1>2, <2>3, CouponAssumption DEF ValidateCode, Claims, RedeemedBy, Underway, coupons
    <3>2. QED
      BY <1>0, <1>1, <2>1, <3>1
  <2>4. QED
    BY <2>2, <2>3
<1>3. ASSUME NEW b \in Booking, Redeem(b) PROVE Claims(u, c)' \subseteq Claims(u, c)
  BY <1>3, CouponAssumption DEF Redeem, Claims, RedeemedBy, Underway
<1>4. ASSUME NEW b \in Booking, Rollback(b) PROVE Claims(u, c)' \subseteq Claims(u, c)
  BY <1>4, CouponAssumption DEF Rollback, Claims, RedeemedBy, Underway, requests
<1>5. ASSUME UNCHANGED <<user, code, redemption, request>> PROVE Claims(u, c)' \subseteq Claims(u, c)
  BY <1>5 DEF Claims, RedeemedBy, Underway
<1>6. ASSUME NEW b \in Booking,
             \/ CreateBooking(b) \/ CreatePayment(b) \/ RequestFails(b)
             \/ \E orderLargeEnough \in BOOLEAN : ApplyCoupon(b, orderLargeEnough)
      PROVE  Claims(u, c)' \subseteq Claims(u, c)
  BY <1>6 DEF CreateBooking, CreatePayment, RequestFails, ApplyCoupon, Claims, RedeemedBy,
     Underway, coupons
<1>7. \/ UNCHANGED <<user, code, redemption, request, overlapped>>
      \/ \E b \in Booking :
           \/ (Redeem(b) \/ Rollback(b)) /\ UNCHANGED overlapped
           \/ /\ \/ CreateBooking(b) \/ CreatePayment(b) \/ RequestFails(b)
                 \/ \E orderLargeEnough \in BOOLEAN : ApplyCoupon(b, orderLargeEnough)
              /\ UNCHANGED overlapped
           \/ \E v \in User, k \in Code : ValidateCode(b, v, k)
  BY DEF Next, ChangeUsable, Update, CreateBooking, ApplyCoupon, Redeem, Rollback, CreatePayment,
     RequestFails,
         Confirm, ExpirePending, FindRedemptions, AllDomainsExpired, JobFails, coupons, requests,
         vars
<1>8. QED
  BY <1>0, <1>1, <1>2, <1>3, <1>4, <1>5, <1>6, <1>7

-----------------------------------------------------------------------------
(* Theorems                                                                *)

LEMMA CouponInvariant == Spec => []IInv
<1>1. IInv /\ [Next]_vars => IInv'
  BY OrderedStep, CounterStep, ClaimsStep DEF IInv, Ordered
<1>2. QED
  BY <1>1, InitIInv, PTL DEF Spec

(* Every variable keeps its type.                                          *)
THEOREM CouponTypeCorrect == Spec => []TypeOK
  BY CouponInvariant, PTL DEF IInv

(* A coupon's counter is the number of its redemption rows.                *)
THEOREM CounterCountsRows == Spec => []UsedCountExact
  BY CouponInvariant, PTL DEF IInv

(* A granted discount has its redemption row until its booking expires.    *)
THEOREM DiscountsBacked == Spec => []DiscountKeepsRedemption
  BY CouponInvariant, PTL DEF IInv

(* Expired bookings give their use back, but for those a failed run of the *)
(* job forgot.                                                             *)
THEOREM ExpiredRelease == Spec => []ExpiredGivesBackUnlessForgotten
  BY CouponInvariant, PTL DEF IInv

(* One request at a time keeps a traveller within the per-user limit.      *)
THEOREM PerUserWithoutOverlap == Spec => []PerUserLimitWithoutOverlap
<1>1. IInv => PerUserLimitWithoutOverlap
  <2> SUFFICES ASSUME IInv, NEW u \in User, NEW c \in Code, <<u, c>> \notin overlapped
               PROVE  Cardinality(RedeemedBy(u, c)) <= PerUserLimit
    BY DEF PerUserLimitWithoutOverlap
  <2>1. IsFiniteSet(Claims(u, c)) /\ Cardinality(Claims(u, c)) \in Nat
    BY BookingSetsFinite DEF Claims, RedeemedBy, Underway
  <2>2. RedeemedBy(u, c) \subseteq Claims(u, c)
    BY DEF Claims
  <2>3. /\ Cardinality(RedeemedBy(u, c)) <= Cardinality(Claims(u, c))
        /\ Cardinality(RedeemedBy(u, c)) \in Nat
    BY <2>1, <2>2, FS_Subset, FS_CardinalityType
  <2>4. Cardinality(Claims(u, c)) <= PerUserLimit
    BY DEF IInv, ClaimsWithinLimit
  <2>5. QED
    BY <2>1, <2>3, <2>4, CouponAssumption
<1>2. QED
  BY <1>1, CouponInvariant, PTL

(* No redemption takes the counter above the limit in force.               *)
THEOREM LimitNeverPassed == Spec => LimitRespected
<1> DEFINE A == \A c \in Code : usedCount'[c] > usedCount[c] /\ usageLimit[c] # NoLimit
                   => usedCount'[c] <= usageLimit[c]
<1>1. IInv /\ [Next]_vars => A
  <2> SUFFICES ASSUME IInv, [Next]_vars, NEW c \in Code,
                      usedCount'[c] > usedCount[c], usageLimit[c] # NoLimit
               PROVE  usedCount'[c] <= usageLimit[c]
    OBVIOUS
  <2>1. usedCount \in [Code -> Nat] /\ usageLimit[c] \in Nat
    BY CouponAssumption DEF IInv, TypeOK
  <2>2. ASSUME NEW b \in Booking, Redeem(b) PROVE usedCount'[c] <= usageLimit[c]
    BY <2>1, <2>2 DEF Redeem, HasUses
  <2>3. ASSUME NEW b \in Booking, Rollback(b) PROVE FALSE
    BY <2>1, <2>3 DEF Rollback
  <2>4. QED
    BY <2>1, <2>2, <2>3, CounterWriters
<1>2. QED
  BY <1>1, CouponInvariant, PTL DEF Spec, LimitRespected
=============================================================================
