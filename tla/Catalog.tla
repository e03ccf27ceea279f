-------------------------------- MODULE Catalog --------------------------------
(***************************************************************************)
(* The course catalogue: CourseService (internal/service/course.go) over   *)
(* the courses, categories, tags and course_tags tables, and what lists,   *)
(* searches and recommendations show of it.                                *)
(*                                                                         *)
(* Who may not write a course is refused before anything happens, so the   *)
(* writers here are a course's teacher or an admin.  Of the columns a      *)
(* PATCH may set the category and the title are kept; price and            *)
(* enrollment settings belong to Pricing and Enrollment.                   *)
(***************************************************************************)
EXTENDS Requests

CONSTANTS
    Courses,
    Slugs,   \* of courses and of categories
    Titles,
    Tags

VARIABLES
    courses,     \* the courses rows
    categories,  \* slugs of the categories rows; they are never deleted
    tags,        \* the tags rows; neither are they
    tagged       \* the course_tags rows, by course

catalogTables == <<courses, categories, tags, tagged>>
catalogVars == <<requests, catalogTables>>

CourseStatus == {"draft", "published", "archived"}

Course ==
    [status : CourseStatus, slug : Slugs, title : Titles, category : Slugs \cup {Nothing},
     dated : BOOLEAN,    \* published_at is set
     deleted : BOOLEAN]  \* deleted_at is set

CatalogInit ==
    /\ RequestsInit
    /\ courses = [c \in Courses |-> Nothing]
    /\ categories = {}
    /\ tags = {}
    /\ tagged = [c \in Courses |-> {}]

\* courses.GetByID
Stands(c) == courses[c] # Nothing /\ ~courses[c].deleted

\* The unique index on the slug covers the rows that are not deleted.
SlugTaken(slug) == \E c \in Courses : Stands(c) /\ courses[c].slug = slug

-------------------------------------------------------------------------------
(* What is shown                                                           *)

Viewers == {"guest", "teacher", "admin"}  \* the teacher is the course's own

\* canView
Opens(viewer, c) ==
    Stands(c) /\ (courses[c].status = "published" \/ viewer # "guest")

\* courses.List: one of the three WHERE clauses, or with status the one asked for
ListedTo(viewer, status) ==
    {c \in Courses :
        /\ Stands(c)
        /\ courses[c].status = "published" \/ viewer # "guest"
        /\ status = Nothing \/ courses[c].status = status}

\* searchCourses, and Recommendations to a user with no seat in them
Found       == {c \in Courses : Stands(c) /\ courses[c].status = "published"}
Recommended(seats) == Found \ seats

-------------------------------------------------------------------------------
(* Creation and the columns of a PATCH                                     *)

CreateCategory(w, slug) ==
    /\ AtOnce(w)
    /\ slug \notin categories
    /\ categories' = categories \cup {slug}
    /\ UNCHANGED <<courses, tags, tagged>>

\* Create: a draft, whose tags, if any are given, come in later statements
CreateCourse(w, c, slug, title, category, names) ==
    /\ Idle(w)
    /\ courses[c] = Nothing
    /\ ~SlugTaken(slug)
    /\ category \in categories \cup {Nothing}
    /\ courses' = [courses EXCEPT ![c] =
            [status |-> "draft", slug |-> slug, title |-> title, category |-> category,
             dated |-> FALSE, deleted |-> FALSE]]
    /\ IF names = Nothing
       THEN UNCHANGED <<pc, loc, setting>>
       ELSE Hold(w, "tags.names", [course |-> c, wanted |-> names])
    /\ UNCHANGED <<categories, tags, tagged>>

\* courses.Update reads the row and fills what the patch omits from it.
BeginUpdateCourse(w, c, title, category) ==
    /\ Idle(w)
    /\ Stands(c)
    /\ title \in {courses[c].title} \cup Titles
    /\ category \in {courses[c].category, Nothing} \cup categories
    /\ Hold(w, "course.update", [course |-> c, title |-> title, category |-> category])
    /\ UNCHANGED catalogTables

\* As if the whole row that was read were written.
WriteCourseWhole(w) ==
    /\ At(w, "course.update")
    /\ LET c == loc[w].course
       IN  courses' = IF Stands(c)
                      THEN [courses EXCEPT ![c].title = loc[w].title,
                                           ![c].category = loc[w].category,
                                           ![c].status = "draft"]
                      ELSE courses
    /\ Finish(w)
    /\ UNCHANGED <<categories, tags, tagged>>

\* The UPDATE: WHERE deleted_at IS NULL; it names neither status nor published_at.
WriteCourse(w) ==
    /\ At(w, "course.update")
    /\ LET c == loc[w].course
       IN  courses' = IF Stands(c)
                      THEN [courses EXCEPT ![c].title = loc[w].title,
                                           ![c].category = loc[w].category]
                      ELSE courses
    /\ Finish(w)
    /\ UNCHANGED <<categories, tags, tagged>>

-------------------------------------------------------------------------------
(* Publication                                                             *)

\* Publish: a published course is left as it is
BeginPublishCourse(w, c) ==
    /\ Idle(w)
    /\ Stands(c) /\ courses[c].status # "published"
    /\ Hold(w, "course.status", [course |-> c, status |-> "published", dated |-> TRUE])
    /\ UNCHANGED catalogTables

\* Archive: with the published_at it has read
BeginArchiveCourse(w, c) ==
    /\ Idle(w)
    /\ Stands(c)
    /\ Hold(w, "course.status", [course |-> c, status |-> "archived", dated |-> courses[c].dated])
    /\ UNCHANGED catalogTables

\* courses.SetStatus
SetCourseStatus(w) ==
    /\ At(w, "course.status")
    /\ LET c == loc[w].course
       IN  courses' = IF Stands(c)
                      THEN [courses EXCEPT ![c].status = loc[w].status,
                                           ![c].dated = loc[w].dated]
                      ELSE courses
    /\ Finish(w)
    /\ UNCHANGED <<categories, tags, tagged>>

\* Delete: courses.SoftDelete archives as well
DeleteCourse(w, c) ==
    /\ AtOnce(w)
    /\ Stands(c)
    /\ courses' = [courses EXCEPT ![c].deleted = TRUE, ![c].status = "archived"]
    /\ UNCHANGED <<categories, tags, tagged>>

-------------------------------------------------------------------------------
(* Tags                                                                    *)

\* SetTags; that the course stands is tested here only.
BeginSetTags(w, c, names) ==
    /\ Idle(w)
    /\ Stands(c)
    /\ Hold(w, "tags.names", [course |-> c, wanted |-> names])
    /\ UNCHANGED catalogTables

\* tags.GetOrCreateByNames
NameTags(w) ==
    /\ At(w, "tags.names")
    /\ tags' = tags \cup loc[w].wanted
    /\ Goto(w, "tags.clear")
    /\ UNCHANGED <<courses, categories, tagged>>

\* ReplaceCourseTags, a transaction at READ COMMITTED.  Its DELETE takes the
\* rows committed so far, and waits for a transaction that is deleting them.
ClearTags(w) ==
    /\ At(w, "tags.clear")
    /\ Hold(w, "tags.insert", [course |-> loc[w].course, wanted |-> loc[w].wanted,
                               cleared |-> tagged[loc[w].course]])
    /\ UNCHANGED catalogTables

\* The INSERTs and the COMMIT.  A row that came after the DELETE stays, and one
\* that is wanted as well fails the primary key and rolls everything back; rows
\* deleted here are no longer there for a DELETE that waited.
InsertTags(w) ==
    /\ At(w, "tags.insert")
    /\ LET c    == loc[w].course
           kept == tagged[c] \ loc[w].cleared
       IN  IF kept \cap loc[w].wanted # {}
           THEN Finish(w) /\ UNCHANGED tagged
           ELSE /\ tagged' = [tagged EXCEPT ![c] = kept \cup loc[w].wanted]
                /\ pc' = [pc EXCEPT ![w] = "idle"]
                /\ loc' = [v \in setting.workers |->
                        IF v = w THEN Nothing
                        ELSE IF pc[v] = "tags.insert" /\ loc[v].course = c
                             THEN [loc[v] EXCEPT !.cleared = @ \ loc[w].cleared]
                             ELSE loc[v]]
                /\ UNCHANGED setting
    /\ UNCHANGED <<courses, categories, tags>>

AbortCatalog(w) == Abort(w) /\ UNCHANGED catalogTables

-------------------------------------------------------------------------------
BeginCatalog(w) ==
    \/ \E slug \in Slugs : CreateCategory(w, slug)
    \/ \E c \in Courses :
        \/ BeginPublishCourse(w, c) \/ BeginArchiveCourse(w, c) \/ DeleteCourse(w, c)
        \/ \E names \in SUBSET Tags : BeginSetTags(w, c, names)
        \/ \E title \in Titles, category \in Slugs \cup {Nothing} :
            \/ BeginUpdateCourse(w, c, title, category)
            \/ \E slug \in Slugs, names \in {Nothing} \cup SUBSET Tags :
                    CreateCourse(w, c, slug, title, category, names)

CatalogStep(w) ==
    \/ WriteCourse(w) \/ SetCourseStatus(w)
    \/ NameTags(w) \/ ClearTags(w) \/ InsertTags(w)

CatalogNext == \E w \in setting.workers :
    BeginCatalog(w) \/ CatalogStep(w) \/ AbortCatalog(w)

CatalogSpec == CatalogInit /\ [][CatalogNext]_catalogVars

-------------------------------------------------------------------------------
(* Properties                                                              *)

\* The rows have their columns' types and obey the foreign keys and the unique
\* index, and a worker holds what its next statement needs.
CatalogTypeOK ==
    /\ courses \in [Courses -> Course \cup {Nothing}]
    /\ categories \subseteq Slugs /\ tags \subseteq Tags
    /\ \A c \in Courses :
        /\ tagged[c] \subseteq tags
        /\ courses[c] # Nothing => courses[c].category \in categories \cup {Nothing}
        /\ \A d \in Courses \ {c} :
            Stands(c) /\ Stands(d) => courses[c].slug # courses[d].slug
    /\ \A w \in setting.workers :
        \/ pc[w] = "idle" /\ loc[w] = Nothing
        \/ /\ pc[w] = "course.update"
           /\ loc[w] \in [course : Courses, title : Titles, category : categories \cup {Nothing}]
        \/ /\ pc[w] = "course.status"
           /\ loc[w] \in [course : Courses, status : {"published", "archived"}, dated : BOOLEAN]
        \/ /\ pc[w] \in {"tags.names", "tags.clear"}
           /\ loc[w] \in [course : Courses, wanted : SUBSET Tags]
        \/ /\ pc[w] = "tags.insert"
           /\ loc[w] \in [course : Courses, wanted : SUBSET tags, cleared : SUBSET tags]

\* Publishing, archiving, editing and deleting write what a request read earlier
\* (course.go:233, :259, postgres/course.go:102): however they race, a deleted
\* course never changes or comes back, no course becomes a draft again, a
\* published one has its date, and what is recommended or found is listed to
\* everybody and can be opened.  A request at a time, the date is never lost;
\* an archiving that races with the publication does lose it.
CourseForward ==
    [][\A c \in Courses : courses[c] # Nothing =>
        /\ courses[c].deleted => courses'[c] = courses[c]
        /\ courses'[c].status = "draft" => courses[c].status = "draft"
        /\ courses'[c].status = "published" => courses'[c].dated
        /\ Alone /\ courses[c].dated => courses'[c].dated
        /\ \A viewer \in Viewers, status \in CourseStatus \cup {Nothing} :
            c \in Recommended({}) \cup ListedTo(viewer, status) => Opens(viewer, c)]_catalogVars
===============================================================================
