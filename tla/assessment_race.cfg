\* Two requests at a time, any of which may die.
SPECIFICATION Spec
CONSTANTS
    w1 = w1
    w2 = w2
    q1 = q1
    q2 = q2
    x = x
    y = y
    b1 = b1
    b2 = b2
    Workers = {w1, w2}
    Questions = {q1}
    Options = {x}
    Keys <- NoKeyButX
    Responses <- OnlyX
    Points = {1}
    AttemptLimits = {1, 2}
    AttemptBound = 3
    Unlimited = Unlimited
    Bodies = {b1, b2}
    Scores = {0, 1}
    NoAnswer = NoAnswer
    NoBody = NoBody
    NoScore = NoScore
    Offers <- QuizOrAssignment
    Failures = TRUE
SYMMETRY Symmetry
INVARIANTS
    TypeOK
    AttemptsNumbered
