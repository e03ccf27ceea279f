------------------------------ MODULE MCLearning ------------------------------
(***************************************************************************)
(* Areas instantiated for TLC.  There is no symmetry: a liveness property  *)
(* is checked.                                                             *)
(***************************************************************************)
EXTENDS Areas, TLC

CONSTANTS u1, u2, u3, teacher, w1, w2, w3, l1, l2, i1, i2, i3, a, b,
          c1, c2, m1, m2

Race   == [workers |-> {w1, w2}, failures |-> FALSE]
Serial == [workers |-> {w3}, failures |-> TRUE]
Smooth == [workers |-> {w3}, failures |-> FALSE]

AllSettings == {Race, Serial, Smooth}

\* Which of the settings each component is checked in.
AreaSettings ==
    [learning      |-> {Race, Serial},
     curriculum    |-> {Race, Serial},
     announcements |-> {Race, Serial, Smooth},
     discussions   |-> {Race, Serial},
     catalog       |-> {Race, Serial},
     coursework    |-> {Race, Serial},
     reporting     |-> AllSettings,
     viewing       |-> {Race, Serial}]

\* Bound: where requests race, the course has one lesson.
RacingLessons == ~Alone => lessons'[l2].status = "none"

\* Bound: where requests race, there is one course.
RacingCourses == ~Alone => courses'[c2] = Nothing

\* Bound: where requests race, one learner tries the quiz and completes.
RacingMembers == ~Alone => tries'[u2] = <<>> /\ u2 \notin completers'

\* Bound: where requests race, the course has one module, and readers, who write
\* nothing, come one after the other.
RacingViews ==
    ~Alone =>
        /\ units'[m2] = Absent
        /\ \E w \in {w1, w2} : pc'[w] = "idle"

\* Areas within its bounds.
BoundedNext ==
    /\ AreasNext
    /\ area = "learning"  => RacingLessons
    /\ area = "catalog"   => RacingCourses
    /\ area = "reporting" => RacingMembers
    /\ area = "viewing"   => RacingViews

BoundedSpec ==
    /\ AreasInit
    /\ [][BoundedNext]_areasVars
    /\ \A w \in {w1, w2, w3} : AnnouncementsFairness(w)

Reports == {0, 50, 100}
===============================================================================
