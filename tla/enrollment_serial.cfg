\* One request at a time, none dies, fixed capacity, waitlist on.
SPECIFICATION FairSpec
CONSTANTS
    u1 = u1
    u2 = u2
    u3 = u3
    u4 = u4
    w1 = w1
    i1 = i1
    Users = {u1, u2, u3}
    Workers = {w1}
    Invites = {i1}
    Capacities = {1}
    UseLimits = {2}
    Unlimited = Unlimited
    CapacityLimit = 1
    OpenFlags = {TRUE, FALSE}
    WaitlistFlags = {TRUE}
    FreeFlags = {TRUE, FALSE}
    CourseStatuses = {"published", "archived"}
    Patches = {{}}
    NoUser = NoUser
    NoInvite = NoInvite
    Failures = FALSE
INVARIANTS
    EventsTellStatus
PROPERTIES
    ImplementsSeatBook
    FreedSeatIsRefilled
