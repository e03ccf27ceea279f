\* One request at a time while the teacher changes every setting. A deleted
\* course nobody is enrolled in accepts no operation, hence no deadlock check.
SPECIFICATION Spec
CONSTANTS
    u1 = u1
    u2 = u2
    u3 = u3
    u4 = u4
    w1 = w1
    w2 = w2
    i1 = i1
    Users = {u1, u2, u3}
    Workers = {w1}
    Invites = {}
    Capacities = {1, 2, Unlimited}
    CapacityLimit = 2
    UseLimits = {1}
    Unlimited = Unlimited
    OpenFlags = {TRUE, FALSE}
    WaitlistFlags = {TRUE, FALSE}
    FreeFlags = {TRUE, FALSE}
    CourseStatuses = {"published", "archived", "deleted"}
    Patches <- OneColumn
    NoUser = NoUser
    NoInvite = NoInvite
    Failures = FALSE
SYMMETRY Symmetry
CHECK_DEADLOCK FALSE
PROPERTIES
    AdmissionsFit
