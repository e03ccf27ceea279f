CONSTANTS
    Nothing = Nothing
    u1 = u1  u2 = u2  u3 = u3  teacher = teacher  w1 = w1  w2 = w2  w3 = w3
    l1 = l1  l2 = l2  i1 = i1  i2 = i2  i3 = i3  a = a  b = b
    c1 = c1  c2 = c2  m1 = m1  m2 = m2
    Settings <- AllSettings
    SettingsOf <- AreaSettings
    Lessons = {l1, l2}
    Percents <- Reports
    Items = {i1, i2, i3}
    ListBound = 3
    LastPlace = 4
    Audience = {u1, u2, u3}
    Texts = {a, b}
    PageSize = 2
    Posters = {u1, u2, teacher}
    Teacher = teacher
    RepliesBound = 3
    Courses = {c1, c2}
    Slugs = {a}
    Titles = {a}
    Tags = {a, b}
    Dues = {0}
    MaxScores = {1, 2}
    Scores = {2}
    LastHour = 1
    Members = {u1, u2}
    Percentages = {50, 100}
    TriesBound = 1
    PageLimit = 1
    Units = {m1, m2}
    Contents = {a}

SPECIFICATION BoundedSpec

\* A course may be over: everything deleted, locked and told.
CHECK_DEADLOCK FALSE

INVARIANTS
    AreasTypeOK
    CertificateEarned
    NoticesSound
    LateRepliesBound 
    CourseworkSound
    AnswersCoherent

PROPERTIES
    ProgressStands
    PlacesKeepOrder
    
    CourseForward
