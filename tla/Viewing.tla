-------------------------------- MODULE Viewing --------------------------------
(***************************************************************************)
(* What a course shows to whom: its curriculum (CurriculumService.GetTree, *)
(* internal/service/curriculum.go:36), its quizzes (ListQuizzes, GetQuiz,  *)
(* internal/service/assessment.go:77) and the access it admits to          *)
(* (EnrollmentService.GetAccess, internal/service/enrollment.go:294), read *)
(* in several SELECTs without a transaction while authors write.           *)
(*                                                                         *)
(* A unit is a module with at most one lesson, and that with at most one   *)
(* block; positions are Curriculum's.  Titles, summaries and the type of a *)
(* block decide nothing.  Of the readers the author is the teacher or an   *)
(* admin, who also are the ones that write; the other is one learner, who  *)
(* may or may not be enrolled.                                             *)
(***************************************************************************)
EXTENDS Requests

CONSTANTS
    Units,    \* modules; one that is deleted may come back
    Contents  \* what blocks say, and what a question's correct answer is

ASSUME ViewingAssumption ==
    IsFiniteSet(Units) /\ Nothing \notin Contents

VARIABLES
    courseStatus,  \* status of the courses row, or "deleted"
    units,         \* the course_modules, lessons and content_blocks rows
    enrolled,      \* the other reader has an active enrollments row
    quiz,          \* the quizzes row and the key of its question
    since          \* per worker, what was so since its request began (not stored)

viewingTables == <<courseStatus, units, enrolled, quiz>>
viewingVars == <<requests, viewingTables, since>>

UnitRow == [lesson : {"absent", "none", "draft", "published"},
            block : Contents \cup {Nothing}]

Absent == [lesson |-> "absent", block |-> Nothing]

Nobody == [published |-> {}, written |-> {}, active |-> FALSE]

ViewingInit ==
    /\ RequestsInit
    /\ courseStatus = "draft"
    /\ units = [m \in Units |-> Absent]
    /\ enrolled = FALSE
    /\ quiz = [status |-> "draft", key |-> Nothing]
    /\ since = [w \in setting.workers |-> Nobody]

HasLesson(m) == units[m].lesson \in {"draft", "published"}

-------------------------------------------------------------------------------
(* The requests that change what is shown                                  *)

\* Publish, Archive and Delete of a course
ChangeCourse(w, status) ==
    /\ AtOnce(w)
    /\ courseStatus # "deleted" /\ status # courseStatus
    /\ courseStatus' = status
    /\ UNCHANGED <<units, enrolled, quiz>>

\* Enroll, Unenroll
ChangeEnrolled(w) ==
    /\ AtOnce(w)
    /\ enrolled \/ courseStatus # "deleted"
    /\ enrolled' = ~enrolled
    /\ UNCHANGED <<courseStatus, units, quiz>>

ChangeUnit(w, m, row) ==
    /\ AtOnce(w)
    /\ courseStatus # "deleted"
    /\ units' = [units EXCEPT ![m] = row]
    /\ UNCHANGED <<courseStatus, enrolled, quiz>>

CreateModule(w, m) ==
    units[m] = Absent /\ ChangeUnit(w, m, [Absent EXCEPT !.lesson = "none"])

\* Its lesson and the lesson's block go with it (ON DELETE CASCADE).
DeleteModule(w, m) == units[m] # Absent /\ ChangeUnit(w, m, Absent)

CreateDraft(w, m) ==
    units[m].lesson = "none" /\ ChangeUnit(w, m, [units[m] EXCEPT !.lesson = "draft"])

\* PublishLesson and UnpublishLesson: whatever the status was
ShowLesson(w, m, status) ==
    HasLesson(m) /\ ChangeUnit(w, m, [units[m] EXCEPT !.lesson = status])

DropLesson(w, m) ==
    HasLesson(m) /\ ChangeUnit(w, m, [Absent EXCEPT !.lesson = "none"])

\* CreateBlock, UpdateBlock
WriteBlock(w, m, content) ==
    HasLesson(m) /\ ChangeUnit(w, m, [units[m] EXCEPT !.block = content])

DropBlock(w, m) ==
    units[m].block # Nothing /\ ChangeUnit(w, m, [units[m] EXCEPT !.block = Nothing])

\* AddQuestion, UpdateQuestion and DeleteQuestion; PublishQuiz, which nothing
\* takes back.  Assessment has them statement by statement.
ChangeQuiz(w, status, key) ==
    /\ AtOnce(w)
    /\ courseStatus # "deleted"
    /\ quiz.status = "published" => status = "published"
    /\ quiz.status # status => quiz.key # Nothing
    /\ quiz' = [status |-> status, key |-> key]
    /\ UNCHANGED <<courseStatus, units, enrolled>>

-------------------------------------------------------------------------------
(* Who may see what                                                        *)

Readers == {"author", "other"}

CanAuthor(reader) == reader = "author"

\* HasActiveEnrollment, requireActiveEnrollment
HasActiveEnrollment(reader) == reader = "other" /\ enrolled

\* GetAccess asks for no status of the course.
CanAccessContent(reader) ==
    courseStatus # "deleted" /\ (CanAuthor(reader) \/ HasActiveEnrollment(reader))

\* GetQuiz, but for the questions
OpensQuiz(reader) ==
    /\ courseStatus # "deleted"
    /\ CanAuthor(reader) \/ (quiz.status = "published" /\ HasActiveEnrollment(reader))

\* ListQuizzes: the quiz is in the list
ListsQuiz(reader) ==
    /\ CanAccessContent(reader)
    /\ CanAuthor(reader) \/ quiz.status = "published"

\* As if only the course's status counted.
VisibleDrafts(reader, m) == HasLesson(m)

\* The lesson of a module that GetTree keeps
Visible(reader, m) ==
    \/ units[m].lesson = "published"
    \/ units[m].lesson = "draft" /\ CanAuthor(reader)

-------------------------------------------------------------------------------
(* GetTree                                                                 *)

\* The course, the enrollment and the modules
BeginTree(w, reader) ==
    /\ Idle(w)
    /\ courseStatus # "deleted"
    /\ courseStatus = "published" \/ CanAuthor(reader)
    /\ Hold(w, "tree.lessons",
            [reader |-> reader,
             blocks |-> CanAuthor(reader) \/ HasActiveEnrollment(reader),
             todo   |-> {m \in Units : units[m] # Absent},
             shown  |-> {},
             unit   |-> Nothing])
    /\ UNCHANGED viewingTables

\* lessons.ListByModule of one module after the other, each lesson's blocks
\* before the next module
ListByModule(w) ==
    /\ At(w, "tree.lessons")
    /\ \E m \in loc[w].todo :
        LET l == [loc[w] EXCEPT !.todo = @ \ {m}]
        IN  CASE ~Visible(l.reader, m) -> Hold(w, "tree.lessons", l)
              [] Visible(l.reader, m) /\ l.blocks ->
                    Hold(w, "tree.blocks", [l EXCEPT !.unit = m])
              [] Visible(l.reader, m) /\ ~l.blocks ->
                    Hold(w, "tree.lessons", [l EXCEPT !.shown = @ \cup {<<m, Nothing>>}])
    /\ UNCHANGED viewingTables

\* blocks.ListByLesson of the lesson just read
ListByLesson(w) ==
    /\ At(w, "tree.blocks")
    /\ LET m == loc[w].unit
       IN  Hold(w, "tree.lessons",
                [loc[w] EXCEPT !.shown = @ \cup {<<m, units[m].block>>}, !.unit = Nothing])
    /\ UNCHANGED viewingTables

-------------------------------------------------------------------------------
(* GetQuiz                                                                 *)

BeginQuiz(w, reader) ==
    /\ Idle(w)
    /\ OpensQuiz(reader)
    /\ Hold(w, "quiz.questions", [reader |-> reader])
    /\ UNCHANGED viewingTables

\* stripQuestionSecrets, for who is not the author
Stripped(reader, key) == IF CanAuthor(reader) THEN key ELSE Nothing

\* questions.ListByQuiz
ReadKey(w) ==
    /\ At(w, "quiz.questions")
    /\ Hold(w, "quiz.shown",
            [reader |-> loc[w].reader, key |-> Stripped(loc[w].reader, quiz.key)])
    /\ UNCHANGED viewingTables

-------------------------------------------------------------------------------
\* GetCurriculum, GetQuiz: the answer is sent.
Show(w) ==
    /\ At(w, "quiz.shown") \/ (At(w, "tree.lessons") /\ loc[w].todo = {})
    /\ Finish(w)
    /\ UNCHANGED viewingTables

AbortViewing(w) == Abort(w) /\ UNCHANGED viewingTables

ChangeShown(w) ==
    \/ \E status \in {"published", "archived", "deleted"} : ChangeCourse(w, status)
    \/ ChangeEnrolled(w)
    \/ \E m \in Units :
        \/ CreateModule(w, m) \/ DeleteModule(w, m)
        \/ CreateDraft(w, m) \/ DropLesson(w, m) \/ DropBlock(w, m)
        \/ \E status \in {"draft", "published"} : ShowLesson(w, m, status)
        \/ \E content \in Contents : WriteBlock(w, m, content)
    \/ \E status \in {"draft", "published"}, key \in Contents \cup {Nothing} :
        ChangeQuiz(w, status, key)

BeginView(w) == \E reader \in Readers : BeginTree(w, reader) \/ BeginQuiz(w, reader)

ViewStep(w) == ListByModule(w) \/ ListByLesson(w) \/ ReadKey(w) \/ Show(w)

\* What is so now: the published lessons, what their blocks say, the enrollment.
SoNow == [published |-> {m \in Units : units[m].lesson = "published"},
          written   |-> {<<m, units[m].block>> : m \in {n \in Units : HasLesson(n)}},
          active    |-> enrolled]

Joined(s, t) == [published |-> s.published \cup t.published,
                 written   |-> s.written \cup t.written,
                 active    |-> s.active \/ t.active]

Remember ==
    since' = [w \in setting.workers |->
                IF pc'[w] = "idle" THEN Nobody ELSE Joined(since[w], SoNow')]

ViewingNext ==
    /\ \E w \in setting.workers :
        ChangeShown(w) \/ BeginView(w) \/ ViewStep(w) \/ AbortViewing(w)
    /\ Remember

ViewingSpec == ViewingInit /\ [][ViewingNext]_viewingVars

-------------------------------------------------------------------------------
(* Properties                                                              *)

\* The rows have their columns' types, and a worker holds what it has read.
ViewingTypeOK ==
    /\ courseStatus \in {"draft", "published", "archived", "deleted"}
    /\ units \in [Units -> UnitRow]
    /\ \A m \in Units : ~HasLesson(m) => units[m].block = Nothing
    /\ enrolled \in BOOLEAN
    /\ quiz \in [status : {"draft", "published"}, key : Contents \cup {Nothing}]
    /\ \A w \in setting.workers :
        \/ pc[w] = "idle" /\ loc[w] = Nothing
        \/ pc[w] \in {"tree.lessons", "tree.blocks"}
            /\ loc[w].reader \in Readers /\ loc[w].blocks \in BOOLEAN
            /\ loc[w].todo \subseteq Units
            /\ loc[w].shown \subseteq Units \X (Contents \cup {Nothing})
            /\ IF pc[w] = "tree.blocks" THEN loc[w].unit \in Units
               ELSE loc[w].unit = Nothing
        \/ pc[w] = "quiz.questions" /\ loc[w] \in [reader : Readers]
        \/ pc[w] = "quiz.shown"
            /\ loc[w] \in [reader : Readers, key : Contents \cup {Nothing}]

\* The table of docs/api/curriculum.md:9
TreeOf(reader) ==
    {<<m, IF CanAccessContent(reader) THEN units[m].block ELSE Nothing>> :
        m \in {n \in Units : IF CanAuthor(reader) THEN HasLesson(n)
                             ELSE units[n].lesson = "published"}}

\* The tree is read unit by unit while authors withdraw lessons, rewrite blocks and
\* enrollments end (curriculum.go:61): whoever is not the author is shown a lesson
\* only if it was published, a block only if it was written and they were active, at
\* some moment of the request, and never the key of a question.  What the author
\* wrote after withdrawing a lesson may still be shown by a request under way.  With
\* one request at a time, the tree is what the table promises, and its blocks are
\* shown to whom GetAccess admits; and a quiz is listed to whom it opens.
ContentShown ==
    /\ \A w \in setting.workers :
        /\ pc[w] \in {"tree.lessons", "tree.blocks"} /\ ~CanAuthor(loc[w].reader) =>
            \A lesson \in loc[w].shown :
                /\ lesson[1] \in since[w].published
                /\ lesson[2] # Nothing => lesson \in since[w].written /\ since[w].active
        /\ pc[w] = "quiz.shown" /\ ~CanAuthor(loc[w].reader) =>
            loc[w].key = Nothing /\ since[w].active
        /\ Alone /\ pc[w] = "tree.lessons" /\ loc[w].todo = {} =>
            /\ loc[w].shown = TreeOf(loc[w].reader)
            /\ courseStatus = "published" \/ CanAuthor(loc[w].reader)
    /\ \A reader \in Readers : OpensQuiz(reader) <=> ListsQuiz(reader)
===============================================================================
