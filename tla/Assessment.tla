------------------------------ MODULE Assessment ------------------------------
(***************************************************************************)
(* One learner's attempts at one quiz of a course, and the learner's       *)
(* submission to one of its assignments: AssessmentService (internal/      *)
(* service/assessment.go) over the tables of migration 000011.             *)
(*                                                                         *)
(* As in Enrollment, every request is a goroutine (a worker) whose SQL     *)
(* statements commit one by one and interleave with those of others.  The  *)
(* one exception is ReplaceAll, a transaction (READ COMMITTED): its DELETE  *)
(* takes the answers of an attempt that are committed by then, its INSERTs *)
(* appear all together or not at all, next to what another ReplaceAll has  *)
(* inserted in between.                                                    *)
(*                                                                         *)
(* Learners share no row but the questions, which only authors write, so   *)
(* one learner is enough.  score_points and max_points are kept as the     *)
(* points awarded to each question: what they are sums of.  A request that *)
(* ends on its first read changes nothing and is left out; so are reorder, *)
(* which no attempt depends on, and every listing.                         *)
(***************************************************************************)
EXTENDS Integers, Sequences, FiniteSets

CONSTANTS
    Workers,        \* goroutines serving requests at the same time
    Questions,      \* question ids: the bound on how many are ever added
    Options,        \* option ids; a short answer's text counts as one option
    Keys,           \* sets of correct options an author may set
    Responses,      \* lists of options a learner may select
    Points,         \* what a question may be worth
    AttemptLimits,  \* values max_attempts takes
    AttemptBound,   \* attempts are created up to this number only
    Unlimited,      \* NULL in max_attempts
    Bodies,         \* what a submission may say
    Scores,         \* scores from 0 to max_score a teacher may give
    NoAnswer, NoBody, NoScore,
    Offers,         \* what the course may offer: sets of "quiz", "assignment"
    Failures        \* whether a request may die between two statements

ASSUME QuestionsAssumption ==
    /\ Keys \subseteq SUBSET Options
    /\ Responses \subseteq Seq(Options)
    /\ Points \subseteq Nat \ {0}
ASSUME LimitsAssumption ==
    /\ AttemptLimits \subseteq (Nat \ {0}) \cup {Unlimited}
    /\ AttemptLimits # {}
    /\ Unlimited \notin Int
    /\ AttemptBound \in Nat
ASSUME GradesAssumption ==
    /\ NoBody \notin Bodies
    /\ Scores \subseteq Nat
    /\ NoScore \notin Nat
    /\ Offers \subseteq SUBSET {"quiz", "assignment"}
    /\ Failures \in BOOLEAN

VARIABLES
    quiz,        \* the quizzes row
    question,    \* the quiz_questions rows
    attempts,    \* the learner's quiz_attempts rows, by attempt_number
    answers,     \* the quiz_attempt_answers rows of each attempt
    assignment,  \* the assignments row
    submission,  \* the learner's assignment_submissions row
    enrolled,    \* whether the learner's enrollment is active
    unseen,      \* questions answered since a worker's DELETE in ReplaceAll
    pc,          \* the statement a worker runs next
    loc          \* what a worker has read and decided

quizTables == <<quiz, question, attempts, answers>>
workTables == <<assignment, submission>>
tables == <<quiz, question, attempts, answers, assignment, submission, enrolled, unseen>>
vars == <<quiz, question, attempts, answers, assignment, submission, enrolled, unseen, pc, loc>>

Quiz == [status : {"none", "draft", "published"}, limit : AttemptLimits]

\* The id of a deleted question is not used again.
Question == [state : {"unused", "present", "deleted"},
             key : SUBSET Options, points : Nat]

\* given: what the learner selected; mark and points: is_correct (NULL while
\* the answer is not graded) and points_awarded.
Answer == [given : Seq(Options), mark : {"none", "right", "wrong"}, points : Nat]

Sheet == [Questions -> Answer \cup {NoAnswer}]

Attempt == [status : {"absent", "in_progress", "graded"},
            award : [Questions -> Nat]]

\* closed: due_at has passed and allow_late is not set.
Assignment == [status : {"none", "draft", "published"}, closed : BOOLEAN]

\* handedIn: submitted_at is set.
Submission == [status : {"absent", "draft", "submitted", "graded"},
               body : Bodies \cup {NoBody}, handedIn : BOOLEAN,
               score : Nat \cup {NoScore}]

Numbers == 1..AttemptBound

Label == {"idle", "open", "count", "create", "check", "clear", "replace",
          "questions", "answers", "erase", "mark", "grade", "publish",
          "lookup", "upsert"}

\* limit and number: the attempt being started; number, paper and sheet: the
\* attempt a request works on, the questions it has read, the answers it will
\* write; sub: the submission it will write.
Local == [limit : AttemptLimits \cup {Unlimited}, number : Nat,
          paper : [Questions -> Question], sheet : Sheet, sub : Submission]

NoQuestion   == [state |-> "unused", key |-> {}, points |-> 0]
NoSheet      == [q \in Questions |-> NoAnswer]
NoAttempt    == [status |-> "absent", award |-> [q \in Questions |-> 0]]
NoSubmission == [status |-> "absent", body |-> NoBody, handedIn |-> FALSE,
                 score |-> NoScore]

Blank == [limit |-> Unlimited, number |-> 0,
          paper |-> [q \in Questions |-> NoQuestion], sheet |-> NoSheet,
          sub |-> NoSubmission]

\* The course offers a quiz or an assignment, or both, still in draft.
Init ==
    \E offer \in Offers :
        /\ quiz \in [status : {IF "quiz" \in offer THEN "draft" ELSE "none"},
                     limit : AttemptLimits]
        /\ assignment = [status |-> IF "assignment" \in offer THEN "draft" ELSE "none",
                         closed |-> FALSE]
        /\ question = [q \in Questions |-> NoQuestion]
        /\ attempts = [n \in Numbers |-> NoAttempt]
        /\ answers = [n \in Numbers |-> NoSheet]
        /\ submission = NoSubmission
        /\ enrolled = TRUE
        /\ unseen = [w \in Workers |-> {}]
        /\ pc = [w \in Workers |-> "idle"]
        /\ loc = [w \in Workers |-> Blank]

-------------------------------------------------------------------------------
(* What the handlers share                                                 *)

\* The goroutine returns; what it had read is gone.
Finish(w) ==
    /\ pc' = [pc EXCEPT ![w] = "idle"]
    /\ loc' = [loc EXCEPT ![w] = Blank]

Goto(w, label) == pc' = [pc EXCEPT ![w] = label] /\ UNCHANGED loc

\* Proceed to the statement named label, holding the local record l.
Hold(w, label, l) ==
    /\ pc' = [pc EXCEPT ![w] = label]
    /\ loc' = [loc EXCEPT ![w] = l]

Made    == {n \in Numbers : attempts[n].status # "absent"}
Open    == {n \in Numbers : attempts[n].status = "in_progress"}
Present == {q \in Questions : question[q].state = "present"}
Answered(sheet) == {q \in Questions : sheet[q] # NoAnswer}

-------------------------------------------------------------------------------
(* StartAttempt                                                            *)

\* GetByID: the quiz is published; requireActiveEnrollment.
BeginStart(w) ==
    /\ pc[w] = "idle"
    /\ quiz.status = "published"
    /\ enrolled
    /\ Hold(w, "open", [Blank EXCEPT !.limit = quiz.limit])
    /\ UNCHANGED tables

\* GetInProgress: an attempt in progress is resumed.
FindOpen(w) ==
    /\ pc[w] = "open"
    /\ IF Open # {} THEN Finish(w) ELSE Goto(w, "count")
    /\ UNCHANGED tables

CountAttemptsOffByOne(w) ==
    LET count == Cardinality(Made) IN
    /\ pc[w] = "count"
    /\ IF loc[w].limit # Unlimited /\ count > loc[w].limit
       THEN Finish(w)
       ELSE Hold(w, "create", [loc[w] EXCEPT !.number = count + 1])
    /\ UNCHANGED tables

\* CountByQuizUser, compared with the max_attempts read before.
CountAttempts(w) ==
    LET count == Cardinality(Made) IN
    /\ pc[w] = "count"
    /\ IF loc[w].limit # Unlimited /\ count >= loc[w].limit
       THEN Finish(w)
       ELSE Hold(w, "create", [loc[w] EXCEPT !.number = count + 1])
    /\ UNCHANGED tables

\* attempts.Create: the unique index refuses a number that is taken (Conflict).
CreateAttempt(w) ==
    LET n == loc[w].number IN
    /\ pc[w] = "create"
    /\ Finish(w)
    /\ attempts' = IF n \in Numbers \ Made
                   THEN [attempts EXCEPT ![n].status = "in_progress"]
                   ELSE attempts
    /\ UNCHANGED <<quiz, question, answers, workTables, enrolled, unseen>>

-------------------------------------------------------------------------------
(* SaveAnswers                                                             *)

\* What a learner may send: answers not graded yet to some of the questions.
Sent == [Questions -> {NoAnswer} \cup
            [given : Responses \cup {<<>>}, mark : {"none"}, points : {0}]]

BeginSaveAnytime(w, n, sheet) ==
    /\ pc[w] = "idle"
    /\ attempts[n].status # "absent"
    /\ Hold(w, "check", [Blank EXCEPT !.number = n, !.sheet = sheet])
    /\ UNCHANGED tables

\* GetByID: the attempt is the learner's, and in progress.
BeginSave(w, n, sheet) ==
    /\ pc[w] = "idle"
    /\ attempts[n].status = "in_progress"
    /\ Hold(w, "check", [Blank EXCEPT !.number = n, !.sheet = sheet])
    /\ UNCHANGED tables

\* The quiz's time limit, which may have passed or not, and ListByQuiz: an
\* answer to a question the quiz does not have is refused.
CheckSave(w) ==
    /\ pc[w] = "check"
    /\ \/ Answered(loc[w].sheet) \subseteq Present /\ Goto(w, "clear")
       \/ Finish(w)
    /\ UNCHANGED tables

\* ReplaceAll's DELETE: what is inserted from now on stays.
ClearAnswers(w) ==
    /\ pc[w] \in {"clear", "erase"}
    /\ Goto(w, IF pc[w] = "clear" THEN "replace" ELSE "mark")
    /\ unseen' = [unseen EXCEPT ![w] = {}]
    /\ UNCHANGED <<quizTables, workTables, enrolled>>

\* Questions deleted by now fail the foreign key, questions answered since the
\* DELETE the unique index: the transaction is then rolled back.
Insertable(w) ==
    /\ Answered(loc[w].sheet) \subseteq Present
    /\ Answered(loc[w].sheet) \cap Answered(answers[loc[w].number]) \cap unseen[w] = {}

\* The answers to an attempt once w has committed.
Replaced(w) ==
    [q \in Questions |->
        IF q \in unseen[w] /\ loc[w].sheet[q] = NoAnswer
        THEN answers[loc[w].number][q] ELSE loc[w].sheet[q]]

\* Another worker past its DELETE has not seen what w commits.
InsertedBy(w) ==
    [v \in Workers |->
        IF v = w THEN {}
        ELSE IF pc[v] \in {"replace", "mark"} /\ loc[v].number = loc[w].number
        THEN unseen[v] \cup Answered(loc[w].sheet) ELSE unseen[v]]

\* ReplaceAll's INSERTs and COMMIT
CommitAnswers(w) ==
    /\ answers' = [answers EXCEPT ![loc[w].number] = Replaced(w)]
    /\ unseen' = InsertedBy(w)
    /\ UNCHANGED <<quiz, question, attempts, workTables, enrolled>>

ReplaceAnswers(w) ==
    /\ pc[w] = "replace"
    /\ Finish(w)
    /\ IF Insertable(w) THEN CommitAnswers(w) ELSE UNCHANGED tables

-------------------------------------------------------------------------------
(* SubmitAttempt                                                           *)

\* GetByID: the attempt is the learner's, and in progress.
BeginSubmit(w, n) ==
    /\ pc[w] = "idle"
    /\ attempts[n].status = "in_progress"
    /\ Hold(w, "questions", [Blank EXCEPT !.number = n])
    /\ UNCHANGED tables

\* ListByQuiz
ReadQuestions(w) ==
    /\ pc[w] = "questions"
    /\ Hold(w, "answers", [loc[w] EXCEPT !.paper = question])
    /\ UNCHANGED tables

\* gradeAnswer: as many options selected as are correct, each of them correct.
Correct(key, given) ==
    /\ Len(given) = Cardinality(key)
    /\ \A i \in DOMAIN given : given[i] \in key

MarkedNegatively(asked, given) ==
    IF Correct(asked.key, given)
    THEN [given |-> given, mark |-> "right", points |-> asked.points]
    ELSE [given |-> given, mark |-> "wrong", points |-> -asked.points]

Marked(asked, given) ==
    IF Correct(asked.key, given)
    THEN [given |-> given, mark |-> "right", points |-> asked.points]
    ELSE [given |-> given, mark |-> "wrong", points |-> 0]

\* Every question the quiz has gets an answer, an empty one if need be.
Graded(paper, sheet) ==
    [q \in Questions |->
        IF paper[q].state # "present" THEN NoAnswer
        ELSE Marked(paper[q], IF sheet[q] = NoAnswer THEN <<>> ELSE sheet[q].given)]

\* ListByAttempt, and the grading of what it returns.
ReadAnswers(w) ==
    /\ pc[w] = "answers"
    /\ Hold(w, "erase",
            [loc[w] EXCEPT !.sheet = Graded(loc[w].paper, answers[loc[w].number])])
    /\ UNCHANGED tables

MarkAnswers(w) ==
    /\ pc[w] = "mark"
    /\ IF Insertable(w)
       THEN CommitAnswers(w) /\ Goto(w, "grade")
       ELSE UNCHANGED tables /\ Finish(w)

\* The points a graded sheet awards.
Award(sheet) == [q \in Questions |-> IF sheet[q] = NoAnswer THEN 0 ELSE sheet[q].points]

\* attempts.Update, whatever the row holds by now.
WriteGrade(w) ==
    /\ pc[w] = "grade"
    /\ attempts' = [attempts EXCEPT ![loc[w].number] =
                       [status |-> "graded", award |-> Award(loc[w].sheet)]]
    /\ Finish(w)
    /\ UNCHANGED <<quiz, question, answers, workTables, enrolled, unseen>>

-------------------------------------------------------------------------------
(* The author of the quiz                                                  *)

\* AddQuestion: the position it reads first decides nothing here.
AddQuestion(q, key, points) ==
    /\ quiz.status # "none"
    /\ question[q].state = "unused"
    /\ question' = [question EXCEPT ![q] =
                       [state |-> "present", key |-> key, points |-> points]]
    /\ UNCHANGED <<quiz, attempts, answers, workTables, enrolled, unseen, pc, loc>>

\* UpdateQuestion writes every column the grading reads from its request.
UpdateQuestion(q, key, points) ==
    /\ question[q].state = "present"
    /\ question' = [question EXCEPT ![q].key = key, ![q].points = points]
    /\ UNCHANGED <<quiz, attempts, answers, workTables, enrolled, unseen, pc, loc>>

\* DeleteQuestion: the answers go with it (ON DELETE CASCADE).
DeleteQuestion(q) ==
    /\ question[q].state = "present"
    /\ question' = [question EXCEPT ![q] = [NoQuestion EXCEPT !.state = "deleted"]]
    /\ answers' = [n \in Numbers |-> [answers[n] EXCEPT ![q] = NoAnswer]]
    /\ UNCHANGED <<quiz, attempts, workTables, enrolled, unseen, pc, loc>>

\* UpdateQuiz takes max_attempts from the request.
UpdateQuiz(limit) ==
    /\ quiz.status # "none"
    /\ quiz' = [quiz EXCEPT !.limit = limit]
    /\ UNCHANGED <<question, attempts, answers, workTables, enrolled, unseen, pc, loc>>

\* ListByQuiz in PublishQuiz: the quiz has a question.
BeginPublish(w) ==
    /\ pc[w] = "idle"
    /\ quiz.status # "none"
    /\ Present # {}
    /\ Goto(w, "publish")
    /\ UNCHANGED tables

\* SetStatus
PublishQuiz(w) ==
    /\ pc[w] = "publish"
    /\ quiz' = [quiz EXCEPT !.status = "published"]
    /\ Finish(w)
    /\ UNCHANGED <<question, attempts, answers, workTables, enrolled, unseen>>

-------------------------------------------------------------------------------
(* Assignments                                                             *)

PublishAssignment ==
    /\ assignment.status # "none"
    /\ assignment' = [assignment EXCEPT !.status = "published"]
    /\ UNCHANGED <<quizTables, submission, enrolled, unseen, pc, loc>>

\* due_at passes, or UpdateAssignment changes due_at or allow_late.
MoveDeadline ==
    /\ assignment.status # "none"
    /\ assignment' = [assignment EXCEPT !.closed = ~@]
    /\ UNCHANGED <<quizTables, submission, enrolled, unseen, pc, loc>>

\* The beginning of UpsertSubmission: published, enrolled, not past the due
\* date when the learner submits.
BeginSubmission(w, body, status) ==
    /\ pc[w] = "idle"
    /\ assignment.status = "published"
    /\ enrolled
    /\ status = "submitted" => ~assignment.closed
    /\ Hold(w, "lookup",
            [Blank EXCEPT !.sub = [NoSubmission EXCEPT !.status = status, !.body = body]])
    /\ UNCHANGED tables

\* The row UpsertSubmission writes: the columns it does not set are those of
\* the row it has just read.
Rewritten(w) ==
    [submission EXCEPT !.status = loc[w].sub.status, !.body = loc[w].sub.body,
                       !.handedIn = @ \/ loc[w].sub.status = "submitted"]

FindSubmissionUnguarded(w) ==
    /\ pc[w] = "lookup"
    /\ Hold(w, "upsert", [loc[w] EXCEPT !.sub = Rewritten(w)])
    /\ UNCHANGED tables

\* GetByAssignmentUser: a graded submission is a Conflict.
FindSubmission(w) ==
    /\ pc[w] = "lookup"
    /\ IF submission.status = "graded" THEN Finish(w)
       ELSE Hold(w, "upsert", [loc[w] EXCEPT !.sub = Rewritten(w)])
    /\ UNCHANGED tables

\* Nothing sets the status "returned", which GradeSubmission accepts as well.
Gradable == {"submitted", "graded"}

\* GetByID in GradeSubmission: the row is ready for grading.
BeginGrade(w, score) ==
    /\ pc[w] = "idle"
    /\ submission.status \in Gradable
    /\ Hold(w, "upsert",
            [Blank EXCEPT !.sub = [submission EXCEPT !.status = "graded", !.score = score]])
    /\ UNCHANGED tables

\* submissions.Upsert writes every column, whatever the row holds by now.
UpsertSubmission(w) ==
    /\ pc[w] = "upsert"
    /\ submission' = loc[w].sub
    /\ Finish(w)
    /\ UNCHANGED <<quizTables, assignment, enrolled, unseen>>

-------------------------------------------------------------------------------
(* The learner's enrollment, failures                                      *)

ChangeEnrollment ==
    /\ enrolled' = ~enrolled
    /\ UNCHANGED <<quizTables, workTables, unseen, pc, loc>>

\* A statement fails, the client goes away or the process is restarted: the
\* request stops and leaves behind what it has written.
Abort(w) ==
    /\ Failures
    /\ pc[w] # "idle"
    /\ Finish(w)
    /\ UNCHANGED tables

\* A request in progress runs its next statement.
Step(w) ==
    \/ FindOpen(w) \/ CountAttempts(w) \/ CreateAttempt(w)
    \/ CheckSave(w) \/ ClearAnswers(w) \/ ReplaceAnswers(w)
    \/ ReadQuestions(w) \/ ReadAnswers(w) \/ MarkAnswers(w) \/ WriteGrade(w)
    \/ PublishQuiz(w)
    \/ FindSubmission(w) \/ UpsertSubmission(w)

Begin(w) ==
    \/ BeginStart(w)
    \/ \E n \in Numbers : BeginSubmit(w, n) \/ \E sheet \in Sent : BeginSave(w, n, sheet)
    \/ BeginPublish(w)
    \/ \E body \in Bodies, status \in {"draft", "submitted"} :
          BeginSubmission(w, body, status)
    \/ \E score \in Scores : BeginGrade(w, score)

Author ==
    \/ \E q \in Questions, key \in Keys, points \in Points :
          AddQuestion(q, key, points) \/ UpdateQuestion(q, key, points)
    \/ \E q \in Questions : DeleteQuestion(q)
    \/ \E limit \in AttemptLimits : UpdateQuiz(limit)
    \/ PublishAssignment
    \/ MoveDeadline

Next ==
    \/ \E w \in Workers : Begin(w) \/ Step(w) \/ Abort(w)
    \/ Author
    \/ ChangeEnrollment

Spec == Init /\ [][Next]_vars

-------------------------------------------------------------------------------
(* Properties                                                              *)

\* Every row and worker record has the shape the tables and the service's
\* structs give it; points are never negative (points_awarded >= 0).
TypeOK ==
    /\ quiz \in Quiz
    /\ question \in [Questions -> Question]
    /\ attempts \in [Numbers -> Attempt]
    /\ answers \in [Numbers -> Sheet]
    /\ assignment \in Assignment
    /\ submission \in Submission
    /\ enrolled \in BOOLEAN
    /\ unseen \in [Workers -> SUBSET Questions]
    /\ pc \in [Workers -> Label]
    /\ loc \in [Workers -> Local]

\* However StartAttempts interleave between the count and the insert, attempts
\* are numbered without a gap, and there are no more of them than some
\* max_attempts the author has set allows: the unique index is what saves it.
AttemptsNumbered ==
    /\ Made = 1..Cardinality(Made)
    /\ Unlimited \notin AttemptLimits =>
          \E limit \in AttemptLimits : Cardinality(Made) <= limit

\* However a resubmission and a grade overwrite each other, the row is never a
\* mixture: it has a score exactly when it is graded, and only what was handed
\* in is graded.
GradesWhole ==
    /\ submission.status = "graded" <=> submission.score # NoScore
    /\ submission.status = "graded" => submission.handedIn

\* A learner has at most one attempt in progress: StartAttempt resumes it.  And
\* the answers kept under a graded attempt are graded, and carry the points its
\* score was added up from, wherever an earlier SubmitAttempt may have failed.
AttemptsSound ==
    /\ Cardinality(Open) <= 1
    /\ \A n \in Made \ Open : \A q \in Answered(answers[n]) :
        /\ answers[n][q].mark # "none"
        /\ answers[n][q].points = attempts[n].award[q]

\* What a learner was graded on stays: the result of an attempt and the answers
\* it was given for (unless their question is deleted), the body of a graded
\* submission and the fact that it is graded.
GradesKept ==
    [][/\ \A n \in Made \ Open :
             /\ attempts'[n] = attempts[n]
             /\ \A q \in Questions : answers'[n][q] \in {answers[n][q], NoAnswer}
       /\ submission.status = "graded" =>
             submission'.status = "graded" /\ submission'.body = submission.body]_vars
===============================================================================
