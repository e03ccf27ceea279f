------------------------------ MODULE MCServices ------------------------------
(***************************************************************************)
(* Services instantiated for TLC.  Workers, and members who are not        *)
(* platform admins, are interchangeable.                                   *)
(***************************************************************************)
EXTENDS Services, TLC

CONSTANTS u1, u2, u3, w1, w2, w3, r1, i1, l1, host, p1, p2

Race   == [workers |-> {w1, w2}, failures |-> FALSE]
Rough  == [workers |-> {w1, w2}, failures |-> TRUE]
Serial == [workers |-> {w3}, failures |-> TRUE]
Smooth == [workers |-> {w3}, failures |-> FALSE]

AllSettings == {Race, Rough, Serial, Smooth}

\* Which of the settings each component is checked in.
ServiceSettings ==
    [accounts      |-> {Race, Serial, Smooth},
     organizations |-> {Race, Serial, Smooth},
     live          |-> {Race, Serial},
     media         |-> {Rough, Serial},
     limiter       |-> {Race},
     pricing       |-> {Race, Serial},
     webhooks      |-> {Rough, Smooth},
     inbox         |-> {Race, Serial},
     access        |-> {Race, Serial},
     process       |-> {Race}]

\* Bound: where requests race, the host's own attendance is left alone, the course
\* stays published, and nobody reads.
RacingAttendance ==
    ~Alone =>
        /\ taught' = "published"
        /\ \A w \in DOMAIN pc' :
            /\ pc'[w] = "live.attend" => loc'[w].user # Host
            /\ pc'[w] \notin {"live.join", "live.joined", "live.calendar"}

\* Bound: where requests race, nobody is deleted and the admin stays the only one.
RacingAccess ==
    ~Alone => people'[p2].role = "student" /\ \A u \in People : ~people'[u].deleted

\* Services within its bounds.
BoundedNext ==
    /\ ServicesNext
    /\ service = "live" => RacingAttendance
    /\ service = "access" => RacingAccess

Students == {"student"}
PriceCents == {0, 1, 199}
PercentValues == {33, 100, 101}
FixedValues == {100}
CouponCurrencies == {"", "ETB", "USD"}
LinkProviders == {"custom", "jitsi"}
AttendanceMarks == {"present", "late", "absent"}
Scans == {"pending", "clean", "infected", "skipped"}
ThreeTokens == 1..3
FirstTick == {0}
TwoBuckets == {1, 2}
AdminFirst == [u \in People |-> IF u = p1 THEN "admin" ELSE "student"]
BucketBounds == <<1, 2>>

Symmetry == Permutations(Members \ PlatformAdmins) \cup Permutations({w1, w2})
===============================================================================
