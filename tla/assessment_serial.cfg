\* One request at a time, which may die.
SPECIFICATION Spec
CONSTANTS
    w1 = w1
    w2 = w2
    q1 = q1
    q2 = q2
    x = x
    y = y
    b1 = b1
    b2 = b2
    Workers = {w1}
    Questions = {q1, q2}
    Options = {x, y}
    Keys <- SeveralKeys
    Responses <- SeveralSent
    Points = {1}
    AttemptLimits = {2, Unlimited}
    AttemptBound = 2
    Unlimited = Unlimited
    Bodies = {b1, b2}
    Scores = {0, 1}
    NoAnswer = NoAnswer
    NoBody = NoBody
    NoScore = NoScore
    Offers <- QuizOrAssignment
    Failures = TRUE
INVARIANTS
    AttemptsSound
PROPERTY GradesKept
