SPECIFICATION PlatformSpec
CONSTANTS
    Guide = {g1, g2}
    Driver = {v1, v2}
    Account = {"account"}
    AccountOf <- MCAccountOf
    Departure = {s1}
    Ride = {r1}
    NoOne = NoOne
    TripDay = {1, 2}
    TripItem = {3, 4, 5}
    Listing = {l1, l2}
    Key = {1, 2}
    PopularLimit = 1
    Airport = {a1, a2}
    Aircraft = {p1}
    FlightEdit = {e1, e2}
    ReviewRequest = {q1, q2, q3}
    Member = {u1, u2}
    Message = {m1, m2}
    Report = {o1}
    Notice = {n1}
    Attempts = 3
    MaxStalls = 1
    Commission = {c1, c2}
    Amount = {10}
    Rate = {1500}
    Days = 2
    LastDay = 2
    Device = {k1, k2}
    Refresh = {1, 2}
    Lifetime = 2
    LastSecond = 3
    MaxTokens = 3
    Entry = {1, 2, 3}
    DefaultLimit = 1
    MaxLimit = 2
    LastRank = 3
    MaxWrites = 2
    Promotion = {x1}
    Seller = {"hotelier", "guide"}
    TypeOf <- MCTypeOf
    AnyProvider = AnyProvider
    Deal <- MCDeal
    NoCap = NoCap
    Priority = {0}
    Purchase = {b1}
    Subtotal = {300, 1001}
    StartDate = 2
    FullDays = 2
    PartialDays = 1
    PartialPercent = 50
    LastTime = 4
    Visitor = {w1}
    Vendor = {z1}
    Order = {o1, o2}
    Domain = {"HOTEL"}
INVARIANTS
    PlatformTypeOK
    RemovedDriverIdle
    PlanInOrder
    FlightsFlyable
    ReviewsEarned
    ReadByTheOtherSide
    DeliveredOnce
    TotalsAddUp
    SessionsSound
    WalkIsWhole
    PricesAddUp
PROPERTIES
    PopularCatchesUp
    JobsSettle
CHECK_DEADLOCK FALSE
