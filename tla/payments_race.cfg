\* Two requests at a time, any of which may die or be refused a seat.
SPECIFICATION Spec
CONSTANTS
    b1 = b1
    b2 = b2
    o1 = o1
    o2 = o2
    o3 = o3
    w2 = w2
    w1 = w1
    k1 = k1
    c1 = c1
    Buyers = {b1}
    Orders = {o1, o2}
    Workers = {w1, w2}
    Keys = {}
    Coupons = {c1}
    UseLimits = {1}
    UsesBound = 2
    Unlimited = Unlimited
    Providers = {"manual"}
    Outcomes = {"paid", "failed"}
    SeatOutcomes = {"waitlisted", "refused"}
    NoBuyer = NoBuyer
    NoOrder = NoOrder
    NoKey = NoKey
    NoCoupon = NoCoupon
    Failures = TRUE
SYMMETRY Symmetry
INVARIANTS
    TypeOK
    PaidOrdersEnrolled
    UsesCoverPayments
