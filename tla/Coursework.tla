------------------------------- MODULE Coursework -------------------------------
(***************************************************************************)
(* One assignment of a course and one enrolled learner's submission to it, *)
(* with the due date and the maximal score Assessment leaves out: the      *)
(* assignment half of AssessmentService (internal/service/assessment.go),  *)
(* over the assignments and assignment_submissions tables.                 *)
(*                                                                         *)
(* Titles, texts, rubrics and attachments decide nothing here.  Who may    *)
(* not write the course is refused before anything happens.                *)
(***************************************************************************)
EXTENDS Requests

CONSTANTS
    Dues,       \* due dates an author sets; Nothing is none
    MaxScores,
    Scores,     \* what a teacher tries to give
    LastHour    \* bound: time stops there

ASSUME CourseworkAssumption ==
    /\ LastHour \in Nat
    /\ Dues \subseteq 0..LastHour \cup {Nothing}
    /\ MaxScores \subseteq Nat \ {0} /\ MaxScores # {}
    /\ Scores \subseteq Nat

VARIABLES
    hour,        \* the time
    assignment,  \* the assignments row
    submission,  \* the learner's assignment_submissions row
    leave        \* the latest hour and the largest score the row has ever allowed
                 \* (not stored)

courseworkTables == <<hour, assignment, submission>>
courseworkVars == <<requests, courseworkTables, leave>>

Terms == [due : Dues \cup {Nothing}, late : BOOLEAN, max : MaxScores]
Assignment == [status : {"draft", "published"}, terms : Terms]
Submission ==
    [status : {"draft", "submitted", "graded"},
     handed : 0..LastHour \cup {Nothing},  \* submitted_at
     score : Scores \cup {Nothing}]

\* NULL is none of the rows, and no number.
ASSUME AssignmentAssumption == Nothing \notin Assignment /\ Nothing \notin Nat

CourseworkInit ==
    /\ RequestsInit
    /\ hour = 0
    /\ assignment = Nothing
    /\ submission = Nothing
    /\ leave = [until |-> -1, score |-> 0]

\* The last hour in which terms t let a learner hand in.
Until(t) == IF t.due = Nothing \/ t.late THEN LastHour ELSE t.due

Unstarted == [status |-> "draft", handed |-> Nothing, score |-> Nothing]

\* What ListAssignments and GetAssignment show a learner.
Offered == assignment # Nothing /\ assignment.status = "published"

-------------------------------------------------------------------------------
(* The author                                                              *)

\* A max_score that is not positive becomes the default.
CreateAssignment(w, t) ==
    /\ AtOnce(w)
    /\ assignment = Nothing
    /\ assignment' = [status |-> "draft", terms |-> t]
    /\ UNCHANGED <<hour, submission>>

\* UpdateAssignment replaces the due date and allow_late even when they are
\* omitted; max_score stays as it was read when none is given.
BeginUpdateAssignment(w, t) ==
    /\ Idle(w)
    /\ assignment # Nothing
    /\ t.max \in MaxScores \cup {assignment.terms.max}
    /\ Hold(w, "assignment.update", t)
    /\ UNCHANGED courseworkTables

\* assignments.Update does not name the status.
WriteAssignment(w) ==
    /\ At(w, "assignment.update")
    /\ assignment' = [assignment EXCEPT !.terms = loc[w]]
    /\ Finish(w)
    /\ UNCHANGED <<hour, submission>>

\* Nothing makes it a draft again.
PublishAssignment(w) ==
    /\ AtOnce(w)
    /\ assignment # Nothing
    /\ assignment' = [assignment EXCEPT !.status = "published"]
    /\ UNCHANGED <<hour, submission>>

-------------------------------------------------------------------------------
(* UpsertSubmission                                                        *)

BeginSubmission(w, submit) ==
    /\ Idle(w)
    /\ Offered
    /\ Hold(w, "submission.due", [terms |-> assignment.terms, submit |-> submit])
    /\ UNCHANGED courseworkTables

\* time.Now, and the terms that were read with the assignment
CheckDue(w) ==
    /\ At(w, "submission.due")
    /\ IF loc[w].submit /\ hour > Until(loc[w].terms)
       THEN Finish(w)
       ELSE Hold(w, "submission.own", [at |-> hour, submit |-> loc[w].submit])
    /\ UNCHANGED courseworkTables

\* The row to write: what is graded is refused, and a draft keeps submitted_at.
Revised(old, submit, at) ==
    IF submit THEN [old EXCEPT !.status = "submitted", !.handed = at]
              ELSE [old EXCEPT !.status = "draft"]

\* submissions.GetByAssignmentUser
ReadSubmission(w) ==
    /\ At(w, "submission.own")
    /\ LET old == IF submission = Nothing THEN Unstarted ELSE submission
       IN  IF old.status = "graded"
           THEN Finish(w)
           ELSE Hold(w, "submission.upsert", Revised(old, loc[w].submit, loc[w].at))
    /\ UNCHANGED courseworkTables

\* As if submitted_at were the time of the write.
UpsertSubmissionNow(w) ==
    /\ At(w, "submission.upsert")
    /\ submission' = IF loc[w].status = "submitted"
                     THEN [loc[w] EXCEPT !.handed = hour] ELSE loc[w]
    /\ Finish(w)
    /\ UNCHANGED <<hour, assignment>>

\* submissions.Upsert, the whole row
UpsertSubmission(w) ==
    /\ At(w, "submission.upsert")
    /\ submission' = loc[w]
    /\ Finish(w)
    /\ UNCHANGED <<hour, assignment>>

-------------------------------------------------------------------------------
(* GradeSubmission                                                         *)

\* A draft is not ready for grading; the status read here is the one tested.
BeginGrade(w, score) ==
    /\ Idle(w)
    /\ submission # Nothing /\ submission.status # "draft"
    /\ Hold(w, "grade.terms", [row |-> submission, score |-> score])
    /\ UNCHANGED courseworkTables

\* assignments.GetByID for max_score, and the row to write
ReadMaxScore(w) ==
    /\ At(w, "grade.terms")
    /\ IF loc[w].score <= assignment.terms.max
       THEN Hold(w, "submission.upsert",
                 [loc[w].row EXCEPT !.status = "graded", !.score = loc[w].score])
       ELSE Finish(w)
    /\ UNCHANGED courseworkTables

Hour ==
    /\ hour < LastHour
    /\ hour' = hour + 1
    /\ UNCHANGED <<requests, assignment, submission>>

AbortCoursework(w) == Abort(w) /\ UNCHANGED courseworkTables

-------------------------------------------------------------------------------
BeginCoursework(w) ==
    \/ \E t \in Terms : CreateAssignment(w, t) \/ BeginUpdateAssignment(w, t)
    \/ PublishAssignment(w)
    \/ \E submit \in BOOLEAN : BeginSubmission(w, submit)
    \/ \E score \in Scores : BeginGrade(w, score)

CourseworkStep(w) ==
    \/ WriteAssignment(w)
    \/ CheckDue(w) \/ ReadSubmission(w) \/ UpsertSubmission(w)
    \/ ReadMaxScore(w)

Widened(l, t) ==
    [until |-> IF Until(t) > l.until THEN Until(t) ELSE l.until,
     score |-> IF t.max > l.score THEN t.max ELSE l.score]

CourseworkNext ==
    /\ \/ \E w \in setting.workers :
            BeginCoursework(w) \/ CourseworkStep(w) \/ AbortCoursework(w)
       \/ Hour
    /\ leave' = IF assignment' = Nothing THEN leave ELSE Widened(leave, assignment'.terms)

CourseworkSpec == CourseworkInit /\ [][CourseworkNext]_courseworkVars

-------------------------------------------------------------------------------
(* Properties                                                              *)

\* The rows have their columns' types, and a worker holds what its next
\* statement needs.
CourseworkTypeOK ==
    /\ hour \in 0..LastHour
    /\ assignment \in Assignment \cup {Nothing}
    /\ submission \in Submission \cup {Nothing}
    /\ leave \in [until : -1..LastHour, score : {0} \cup MaxScores]
    /\ \A w \in setting.workers :
        \/ pc[w] = "idle" /\ loc[w] = Nothing
        \/ pc[w] = "assignment.update" /\ loc[w] \in Terms
        \/ pc[w] = "submission.due" /\ loc[w] \in [terms : Terms, submit : BOOLEAN]
        \/ pc[w] = "submission.own" /\ loc[w] \in [at : 0..LastHour, submit : BOOLEAN]
        \/ pc[w] = "submission.upsert" /\ loc[w] \in Submission
        \/ pc[w] = "grade.terms" /\ loc[w] \in [row : Submission, score : Scores]

\* The due date, lateness and max_score are read statements before the
\* submission is written (assessment.go:567, :578, :653), while the teacher
\* changes them and the learner and the teacher overwrite each other's rows:
\* what stands as submitted was handed in when some terms that were in force
\* allowed it, what stands as graded was handed in, within one maximum that was
\* in force, and only that has a score.
CourseworkSound ==
    submission # Nothing =>
        /\ submission.handed # Nothing => submission.handed <= leave.until
        /\ submission.status # "draft" => submission.handed # Nothing
        /\ submission.status = "graded" <=> submission.score # Nothing
        /\ submission.status = "graded" => submission.score <= leave.score
===============================================================================
