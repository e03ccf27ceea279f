------------------------------- MODULE Learning -------------------------------
(***************************************************************************)
(* One learner in one course: progress through its lessons, the roll-up of *)
(* the course and the certificate.  ProgressService and CertificateService *)
(* (internal/service/progress.go, certificate.go) with the part of         *)
(* CurriculumService they race with, over the lessons, lesson_progress,    *)
(* course_progress and certificates tables.                                *)
(*                                                                         *)
(* Both progress tables are written whole, by an upsert of what a request  *)
(* computed from earlier reads.  Times, positions in a lesson, and the     *)
(* lesson a roll-up names last decide nothing and are left out;            *)
(* prerequisites are lessons of the same course.  How the enrollment       *)
(* becomes active and stops being so is Enrollment's.                      *)
(***************************************************************************)
EXTENDS Requests

CONSTANTS
    Lessons,   \* the course's lessons, over its whole life
    Percents   \* what players report; 0 stands for no percent at all too

ASSUME LearningAssumption ==
    /\ IsFiniteSet(Lessons) /\ Nothing \notin Lessons
    /\ Percents \subseteq 0..100

VARIABLES
    lessons,      \* the lessons rows
    seat,         \* status of the learner's enrollments row
    marks,        \* the lesson_progress rows
    rollup,       \* the course_progress row
    certificate,  \* the certificates row; by: who had it made (not stored)
    finished      \* all published lessons were completed at some time (not stored)

learningTables == <<lessons, seat, marks, rollup, certificate>>
learningVars == <<requests, learningTables, finished>>

LessonRow == [status : {"none", "draft", "published", "deleted"}, prereq : Lessons \cup {Nothing}]
MarkRow   == [status : {"in_progress", "completed"}, percent : 0..100]
RollupRow == [percent : 0..100, completed : 0..Cardinality(Lessons),
              total : 0..Cardinality(Lessons), done : BOOLEAN]
Certificate == [state : {"valid", "revoked"}, by : {"learner", "staff"}]

\* NULL, for a row that is not there, is none of the rows.
ASSUME MarksAssumption == Nothing \notin MarkRow

LearningInit ==
    /\ RequestsInit
    /\ lessons = [l \in Lessons |-> [status |-> "none", prereq |-> Nothing]]
    /\ seat = "none"
    /\ marks = [l \in Lessons |-> Nothing]
    /\ rollup = Nothing
    /\ certificate = Nothing
    /\ finished = FALSE

\* What lessons.GetByID finds.
Lives(l) == lessons[l].status \in {"draft", "published"}
Prerequisites == {l \in Lessons : Lives(l)} \cup {Nothing}

Published == {l \in Lessons : lessons[l].status = "published"}
Completed(l) == marks[l] # Nothing /\ marks[l].status = "completed"

\* lessons.CountPublishedByCourse and lesson_progress.CountCompletedPublished
CountPublished == Cardinality(Published)
CountCompletedPublished == Cardinality({l \in Published : Completed(l)})

-------------------------------------------------------------------------------
(* The teacher: lessons come, change and go                                *)

\* CreateLesson; the row is a draft.
CreateLesson(w, l, p) ==
    /\ AtOnce(w)
    /\ lessons[l].status = "none"
    /\ p \in Prerequisites
    /\ lessons' = [lessons EXCEPT ![l] = [status |-> "draft", prereq |-> p]]
    /\ UNCHANGED <<seat, marks, rollup, certificate>>

\* PublishLesson, UnpublishLesson: lessons.SetStatus
SetLessonStatus(w, l, status) ==
    /\ AtOnce(w)
    /\ Lives(l)
    /\ lessons' = [lessons EXCEPT ![l].status = status]
    /\ UNCHANGED <<seat, marks, rollup, certificate>>

\* UpdateLesson: any lesson but itself may be the prerequisite.
UpdateLesson(w, l, p) ==
    /\ AtOnce(w)
    /\ Lives(l)
    /\ p \in Prerequisites \ {l}
    /\ lessons' = [lessons EXCEPT ![l].prereq = p]
    /\ UNCHANGED <<seat, marks, rollup, certificate>>

\* DeleteLesson: progress goes with it (ON DELETE CASCADE), prerequisites on it
\* become NULL (ON DELETE SET NULL).
DeleteLesson(w, l) ==
    /\ AtOnce(w)
    /\ Lives(l)
    /\ lessons' = [k \in Lessons |->
            IF k = l THEN [status |-> "deleted", prereq |-> Nothing]
            ELSE IF lessons[k].prereq = l THEN [lessons[k] EXCEPT !.prereq = Nothing]
            ELSE lessons[k]]
    /\ marks' = [marks EXCEPT ![l] = Nothing]
    /\ UNCHANGED <<seat, rollup, certificate>>

\* Enrollment's: the row appears, and its status changes either way.
ChangeSeat ==
    /\ \E s \in {"active", "ended"} : s # seat /\ seat' = s
    /\ UNCHANGED <<requests, lessons, marks, rollup, certificate>>

-------------------------------------------------------------------------------
(* UpsertLessonProgress                                                    *)

\* lessonCourse; requireActiveEnrollment follows, and the status tested after
\* it is that of the lesson read here.
BeginProgress(w, l, percent, complete) ==
    /\ Idle(w)
    /\ lessons[l].status = "published"
    /\ Hold(w, "progress.seat", [lesson |-> l, prereq |-> lessons[l].prereq,
                                 percent |-> percent, complete |-> complete])
    /\ UNCHANGED learningTables

\* requireActiveEnrollment
ReadSeat(w) ==
    /\ At(w, "progress.seat")
    /\ IF seat = "active" THEN Goto(w, "progress.prereq") ELSE Finish(w)
    /\ UNCHANGED learningTables

\* requirePrerequisite
ReadPrerequisite(w) ==
    /\ At(w, "progress.prereq")
    /\ IF loc[w].prereq = Nothing \/ Completed(loc[w].prereq)
       THEN Goto(w, "progress.own") ELSE Finish(w)
    /\ UNCHANGED learningTables

\* As if the percent were written as it is reported.
AdvancedBlindly(old, percent, complete) ==
    IF complete \/ percent >= 100 THEN [status |-> "completed", percent |-> 100]
    ELSE [status |-> "in_progress", percent |-> percent]

\* The row to write: percent only moves forward from the row that was read.
Advanced(old, percent, complete) ==
    LET was     == IF old = Nothing THEN [status |-> "in_progress", percent |-> 0] ELSE old
        reached == IF percent > was.percent THEN percent ELSE was.percent
    IN  IF complete \/ reached >= 100
        THEN [status |-> "completed", percent |-> 100]
        ELSE [was EXCEPT !.percent = reached]

\* lessonProgress.GetByUserLesson, and what to write
ReadMark(w) ==
    /\ At(w, "progress.own")
    /\ Hold(w, "progress.upsert",
            [lesson |-> loc[w].lesson,
             row |-> Advanced(marks[loc[w].lesson], loc[w].percent, loc[w].complete)])
    /\ UNCHANGED learningTables

\* lessonProgress.Upsert; the foreign key refuses a lesson that is gone.
UpsertMark(w) ==
    /\ At(w, "progress.upsert")
    /\ IF Lives(loc[w].lesson)
       THEN /\ marks' = [marks EXCEPT ![loc[w].lesson] = loc[w].row]
            /\ Goto(w, "progress.saved")
       ELSE Finish(w) /\ UNCHANGED marks
    /\ UNCHANGED <<lessons, seat, rollup, certificate>>

\* GetByUserLesson again: nothing is found if the lesson was deleted meanwhile.
RereadMark(w) ==
    /\ At(w, "progress.saved")
    /\ IF marks[loc[w].lesson] = Nothing
       THEN Finish(w) ELSE Hold(w, "rollup.total", [total |-> 0])
    /\ UNCHANGED learningTables

-------------------------------------------------------------------------------
(* recomputeCourseProgress, and GetCourseProgress                          *)

\* As if a course without published lessons were complete.
RollupOfEmpty(completed, total) ==
    LET done == completed >= total
    IN  [percent   |-> IF done THEN 100 ELSE (completed * 100) \div total,
         completed |-> completed, total |-> total, done |-> done]

\* The roll-up row for the two counts.
RollupOf(completed, total) ==
    LET done    == total > 0 /\ completed >= total
        percent == IF total = 0 THEN 0 ELSE (completed * 100) \div total
    IN  [percent   |-> IF done \/ percent > 100 THEN 100 ELSE percent,
         completed |-> completed, total |-> total, done |-> done]

ReadTotal(w) ==
    /\ At(w, "rollup.total")
    /\ Hold(w, "rollup.completed", [total |-> CountPublished])
    /\ UNCHANGED learningTables

ReadCompleted(w) ==
    /\ At(w, "rollup.completed")
    /\ Hold(w, "rollup.upsert", RollupOf(CountCompletedPublished, loc[w].total))
    /\ UNCHANGED learningTables

\* courseProgress.Upsert; the row read just before gives only times.
UpsertRollup(w) ==
    /\ At(w, "rollup.upsert")
    /\ rollup' = loc[w]
    /\ Finish(w)
    /\ UNCHANGED <<lessons, seat, marks, certificate>>

\* GetCourseProgress, with an active enrollment: a roll-up is computed only
\* when there is none.
BeginCourseProgress(w) ==
    /\ Idle(w)
    /\ seat = "active"
    /\ Hold(w, "rollup.missing", [total |-> 0])
    /\ UNCHANGED learningTables

ReadRollup(w) ==
    /\ At(w, "rollup.missing")
    /\ IF rollup = Nothing THEN Goto(w, "rollup.total") ELSE Finish(w)
    /\ UNCHANGED learningTables

-------------------------------------------------------------------------------
(* Certificates                                                            *)

\* Issue by the learner: requireActiveEnrollment
BeginIssue(w) ==
    /\ Idle(w)
    /\ seat = "active"
    /\ Hold(w, "issue.complete", [by |-> "learner"])
    /\ UNCHANGED learningTables

\* requireCourseComplete
RequireCourseComplete(w) ==
    /\ At(w, "issue.complete")
    /\ IF rollup # Nothing /\ rollup.percent = 100 /\ rollup.done
       THEN Goto(w, "issue.create") ELSE Finish(w)
    /\ UNCHANGED learningTables

\* Issue by the teacher or an admin for the learner: neither the enrollment nor
\* the course progress is looked at.
BeginAward(w) ==
    /\ Idle(w)
    /\ Hold(w, "issue.create", [by |-> "staff"])
    /\ UNCHANGED learningTables

\* certificates.Create: UNIQUE (course_id, user_id), revoked or not
CreateCertificate(w) ==
    /\ At(w, "issue.create")
    /\ certificate' = IF certificate = Nothing
                      THEN [state |-> "valid", by |-> loc[w].by] ELSE certificate
    /\ Finish(w)
    /\ UNCHANGED <<lessons, seat, marks, rollup>>

\* certificates.Revoke: WHERE revoked_at IS NULL
RevokeCertificate(w) ==
    /\ AtOnce(w)
    /\ certificate # Nothing /\ certificate.state = "valid"
    /\ certificate' = [certificate EXCEPT !.state = "revoked"]
    /\ UNCHANGED <<lessons, seat, marks, rollup>>

AbortLearning(w) == Abort(w) /\ UNCHANGED learningTables

-------------------------------------------------------------------------------
TeacherStep(w) ==
    \/ \E l \in Lessons :
        \/ \E p \in Lessons \cup {Nothing} : CreateLesson(w, l, p) \/ UpdateLesson(w, l, p)
        \/ \E status \in {"draft", "published"} : SetLessonStatus(w, l, status)
        \/ DeleteLesson(w, l)
    \/ BeginAward(w) \/ RevokeCertificate(w)

LearnerStep(w) ==
    \/ \E l \in Lessons, percent \in Percents, complete \in BOOLEAN :
            BeginProgress(w, l, percent, complete)
    \/ ReadSeat(w) \/ ReadPrerequisite(w) \/ ReadMark(w) \/ UpsertMark(w)
    \/ RereadMark(w) \/ ReadTotal(w) \/ ReadCompleted(w) \/ UpsertRollup(w)
    \/ BeginCourseProgress(w) \/ ReadRollup(w)
    \/ BeginIssue(w) \/ RequireCourseComplete(w) \/ CreateCertificate(w)

AllCompleted == Published # {} /\ \A l \in Published : Completed(l)

LearningNext ==
    /\ \/ \E w \in setting.workers : TeacherStep(w) \/ LearnerStep(w) \/ AbortLearning(w)
       \/ ChangeSeat
    /\ finished' = (finished \/ AllCompleted')

LearningSpec == LearningInit /\ [][LearningNext]_learningVars

-------------------------------------------------------------------------------
(* Properties                                                              *)

Held ==
    [idle |-> {Nothing},
     seat |-> [lesson : Lessons, prereq : Lessons \cup {Nothing},
               percent : Percents, complete : BOOLEAN],
     row |-> [lesson : Lessons, row : MarkRow],
     total |-> [total : 0..Cardinality(Lessons)],
     rollup |-> RollupRow,
     by |-> [by : {"learner", "staff"}]]

\* The rows have their columns' types and obey their CHECKs, and a worker holds
\* what its next statement needs.
LearningTypeOK ==
    /\ lessons \in [Lessons -> LessonRow]
    /\ seat \in {"none", "active", "ended"}
    /\ marks \in [Lessons -> MarkRow \cup {Nothing}]
    /\ rollup \in RollupRow \cup {Nothing}
    /\ certificate \in Certificate \cup {Nothing}
    /\ finished \in BOOLEAN
    /\ \A w \in setting.workers :
        \/ pc[w] = "idle" /\ loc[w] \in Held.idle
        \/ pc[w] \in {"progress.seat", "progress.prereq", "progress.own"}
           /\ loc[w] \in Held.seat
        \/ pc[w] \in {"progress.upsert", "progress.saved"} /\ loc[w] \in Held.row
        \/ pc[w] \in {"rollup.missing", "rollup.total", "rollup.completed"}
           /\ loc[w] \in Held.total
        \/ pc[w] = "rollup.upsert" /\ loc[w] \in Held.rollup
        \/ pc[w] \in {"issue.complete", "issue.create"} /\ loc[w] \in Held.by

\* The comparison that makes percent move forward is with a row read earlier
\* (progress.go:78), and the roll-up is computed from two counts read one after
\* the other (progress.go:180): a request at a time, whatever fails, no progress
\* is lost while its lesson exists, a completed lesson stays completed, and a
\* roll-up that is written is what the tables say when it is written.
ProgressStands ==
    [][Alone =>
        /\ \A l \in Lessons :
            marks[l] # Nothing /\ Lives(l)' =>
                /\ marks'[l] # Nothing /\ marks'[l].percent >= marks[l].percent
                /\ Completed(l) => Completed(l)'
        /\ rollup' # rollup =>
            /\ rollup'.completed = CountCompletedPublished
            /\ rollup'.total = CountPublished
            /\ rollup'.done <=> AllCompleted]_learningVars

\* A learner's own certificate is earned (certificate.go:69): a request at a
\* time, whatever fails and whichever lessons were published, unpublished or
\* deleted since, all that were published then were completed once.
CertificateEarned ==
    Alone /\ certificate # Nothing /\ certificate.by = "learner" => finished
===============================================================================
