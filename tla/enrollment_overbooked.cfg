\* Two requests at a time, one seat, nothing fails.
SPECIFICATION Spec
CONSTANTS
    u1 = u1
    u2 = u2
    u3 = u3
    u4 = u4
    w1 = w1
    w2 = w2
    i1 = i1
    Users = {u1, u2}
    Workers = {w1, w2}
    Invites = {}
    Capacities = {1}
    CapacityLimit = 1
    UseLimits = {1}
    Unlimited = Unlimited
    OpenFlags = {TRUE}
    WaitlistFlags = {TRUE}
    FreeFlags = {TRUE}
    CourseStatuses = {"published"}
    Patches = {{}}
    NoUser = NoUser
    NoInvite = NoInvite
    Failures = FALSE
SYMMETRY Symmetry
INVARIANT CapacityRespected
