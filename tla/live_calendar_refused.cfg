\* A course with a published session is deleted: its teacher's calendar still lists it.
CONSTANTS
    Nothing = Nothing
    u1 = u1  u2 = u2  u3 = u3  w1 = w1  w2 = w2  w3 = w3
    r1 = r1  i1 = i1  l1 = l1  host = host  p1 = p1  p2 = p2
    Settings <- AllSettings
    SettingsOf <- ServiceSettings
    Tokens <- ThreeTokens
    Resets = {r1}
    Roles <- Students
    Members = {u1, u2, u3}
    PlatformAdmins = {u3}
    Deletable = {u3}
    OrgInvites = {i1}
    AdmissionsBound = 2
    Learners = {l1}
    Host = host
    Providers <- LinkProviders
    Marks <- AttendanceMarks
    Starts <- FirstTick
    Length = 1
    EarlyWindow = 0
    LateGrace = 0
    EndGrace = 0
    Horizon = 2
    ScanResults <- Scans
    Burst = 2
    Buckets <- TwoBuckets
    Refills = 2
    Prices <- PriceCents
    Percents <- PercentValues
    Fixed <- FixedValues
    Currencies <- CouponCurrencies
    PaidOrders = {"o1"}
    Routes = {"stripe", "chapa", "other"}
    Wordings = {"paid", "success", "refunded", "failed",
                "completed_paid", "completed_unpaid", "charge_refunded"}
    EventIds = {"e1", "e2"}
    ReportsBound = 3
    Users = {1, 2}
    MessagesBound = 3
    PageDefault = 1
    PageMost = 2
    People = {p1, p2}
    FirstRole <- AdminFirst
    RolesGiven = {"student", "admin"}
    AccessTTL = 1
    LastHour = 1
    TokensBound = 1
    Others = {"redis"}
    Latencies = {1, 3}
    Bounds <- BucketBounds
    RequestsBound = 2

INIT ServicesInit
NEXT BoundedNext
CHECK_DEADLOCK FALSE

INVARIANT CalendarAnswered
