\* One request at a time, none dies, no seat is refused.
SPECIFICATION Spec
CONSTANTS
    b1 = b1
    b2 = b2
    o1 = o1
    o2 = o2
    w1 = w1
    k1 = k1
    c1 = c1
    Buyers = {b1}
    Orders = {o1, o2}
    Workers = {w1}
    Keys = {k1}
    Coupons = {c1}
    UseLimits = {1}
    UsesBound = 3
    Unlimited = Unlimited
    Providers = {"manual"}
    Outcomes = {"paid", "cancelled", "refunded"}
    SeatOutcomes = {"active", "waitlisted"}
    NoBuyer = NoBuyer
    NoOrder = NoOrder
    NoKey = NoKey
    NoCoupon = NoCoupon
    Failures = FALSE
 
PROPERTY ImplementsOrderBook
