\* Two requests at a time, any of which may die between two statements.
SPECIFICATION Spec
CONSTANTS
    u1 = u1
    u2 = u2
    u3 = u3
    u4 = u4
    w1 = w1
    w2 = w2
    i1 = i1
    Users = {u1, u2}
    Workers = {w1, w2}
    Invites = {i1}
    Capacities = {1}
    CapacityLimit = 1
    UseLimits = {1}
    Unlimited = Unlimited
    OpenFlags = {TRUE}
    WaitlistFlags = {TRUE, FALSE}
    FreeFlags = {TRUE}
    CourseStatuses = {"published"}
    Patches = {{}}
    NoUser = NoUser
    NoInvite = NoInvite
    Failures = TRUE
SYMMETRY Symmetry
INVARIANTS
    TypeOK
    OverbookingBound
    InviteOvershootBound
