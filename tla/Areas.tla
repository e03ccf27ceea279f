-------------------------------- MODULE Areas --------------------------------
(***************************************************************************)
(* Eight components of courses in progress that share nothing but how      *)
(* requests run: a behaviour picks a component and a setting for it, and   *)
(* only that component gets requests.                                      *)
(***************************************************************************)
EXTENDS Learning, Curriculum, Announcements, Discussions,
        Catalog, Coursework, Reporting, Viewing

CONSTANT SettingsOf  \* per component, the settings it is studied in

VARIABLE area        \* the component of this behaviour

AreasInit ==
    /\ area \in DOMAIN SettingsOf
    /\ LearningInit /\ CurriculumInit /\ AnnouncementsInit /\ DiscussionsInit
    /\ CatalogInit /\ CourseworkInit /\ ReportingInit
    /\ ViewingInit
    /\ setting \in SettingsOf[area]

\* What only the requests of each component change; leave is a history of
\* coursework, finished one of learning and since one of viewing.
courseTables == <<learningTables, finished, place, announcementTables, discussionTables>>
otherTables  == <<catalogTables, courseworkTables, leave, reportingTables>>
viewTables   == <<viewingTables, since>>

AreasNext ==
    /\ UNCHANGED area
    /\ \/ /\ area = "learning" /\ LearningNext
          /\ UNCHANGED <<place, announcementTables, discussionTables,
                         otherTables, viewTables>>
       \/ /\ area = "curriculum" /\ CurriculumNext
          /\ UNCHANGED <<learningTables, finished, announcementTables, discussionTables,
                         otherTables, viewTables>>
       \/ /\ area = "announcements" /\ AnnouncementsNext
          /\ UNCHANGED <<learningTables, finished, place, discussionTables,
                         otherTables, viewTables>>
       \/ /\ area = "discussions" /\ DiscussionsNext
          /\ UNCHANGED <<learningTables, finished, place, announcementTables,
                         otherTables, viewTables>>
       \/ /\ area = "catalog" /\ CatalogNext
          /\ UNCHANGED <<courseTables, courseworkTables, leave, reportingTables, viewTables>>
       \/ /\ area = "coursework" /\ CourseworkNext
          /\ UNCHANGED <<courseTables, catalogTables, reportingTables, viewTables>>
       \/ /\ area = "reporting" /\ ReportingNext
          /\ UNCHANGED <<courseTables, catalogTables, courseworkTables, leave, viewTables>>
       \/ /\ area = "viewing" /\ ViewingNext
          /\ UNCHANGED <<courseTables, otherTables>>

areasVars == <<area, requests, courseTables, otherTables, viewTables>>

AreasSpec == AreasInit /\ [][AreasNext]_areasVars

-------------------------------------------------------------------------------
(* Properties                                                              *)

\* Each component's type invariant says what its own requests hold.
AreasTypeOK ==
    /\ area = "learning"      => LearningTypeOK
    /\ area = "curriculum"    => CurriculumTypeOK
    /\ area = "announcements" => AnnouncementsTypeOK
    /\ area = "discussions"   => DiscussionsTypeOK
    /\ area = "catalog"       => CatalogTypeOK
    /\ area = "coursework"    => CourseworkTypeOK
    /\ area = "reporting"     => ReportingTypeOK
    /\ area = "viewing"       => ViewingTypeOK

\* What is put together from several SELECTs holds together: ReportsCoherent of the
\* gradebook, transcripts and analytics (certificate.go:267), ContentShown of a
\* course's curriculum and quizzes (curriculum.go:61).
AnswersCoherent == ReportsCoherent /\ ContentShown
===============================================================================
