---------------------------- MODULE Announcements ----------------------------
(***************************************************************************)
(* One announcement of a course and the in-app notices of its publication: *)
(* CommunicationService (internal/service/communication.go:52), the        *)
(* announcements table and, through notify.OutboxWriter, the               *)
(* notification_outbox table, where an in-app notice is sent as soon as it *)
(* is inserted.                                                            *)
(*                                                                         *)
(* The learners here have active enrollments throughout; who publishes is  *)
(* not among them.                                                         *)
(***************************************************************************)
EXTENDS Requests, Sequences

CONSTANTS
    Audience,  \* learners with an active enrollment
    Texts,     \* what an announcement may say: title and body
    PageSize   \* what enrollments.ListByCourse returns at most

ASSUME AnnouncementsAssumption ==
    /\ IsFiniteSet(Audience)
    /\ PageSize \in Nat

VARIABLES
    announcement,  \* the announcements row; its text stays known when it is deleted
    notices        \* per learner, the texts of announcement.published notices

announcementTables == <<announcement, notices>>
announcementVars == <<requests, announcementTables>>

AnnouncementStatus == {"none", "draft", "published", "deleted"}

AnnouncementsInit ==
    /\ RequestsInit
    /\ announcement = [status |-> "none", text |-> Nothing]
    /\ notices = [u \in Audience |-> <<>>]

\* announcements.GetByID
Posted == announcement.status \in {"draft", "published"}

-------------------------------------------------------------------------------
CreateAnnouncement(w, text) ==
    /\ AtOnce(w)
    /\ announcement.status = "none"
    /\ announcement' = [status |-> "draft", text |-> text]
    /\ UNCHANGED notices

\* UpdateAnnouncement does not look at the status it reads.
BeginUpdateAnnouncement(w, text) ==
    /\ Idle(w)
    /\ Posted
    /\ Hold(w, "announcement.update", text)
    /\ UNCHANGED announcementTables

\* announcements.Update: WHERE status = 'draft'
UpdateAnnouncement(w) ==
    /\ At(w, "announcement.update")
    /\ announcement' = IF announcement.status = "draft"
                       THEN [announcement EXCEPT !.text = loc[w]] ELSE announcement
    /\ Finish(w)
    /\ UNCHANGED notices

\* PublishAnnouncement: only of a draft
BeginPublish(w) ==
    /\ Idle(w)
    /\ announcement.status = "draft"
    /\ Hold(w, "announcement.publish", announcement.text)
    /\ UNCHANGED announcementTables

\* As if the announcement were not read again.
SetPublishedUnread(w) ==
    /\ At(w, "announcement.publish")
    /\ IF Posted
       THEN /\ announcement' = [announcement EXCEPT !.status = "published"]
            /\ Goto(w, "announcement.list")
       ELSE Finish(w) /\ UNCHANGED announcement
    /\ UNCHANGED notices

\* announcements.SetStatus: WHERE id, whatever the status has become
SetPublished(w) ==
    /\ At(w, "announcement.publish")
    /\ IF Posted
       THEN /\ announcement' = [announcement EXCEPT !.status = "published"]
            /\ Goto(w, "announcement.reread")
       ELSE Finish(w) /\ UNCHANGED announcement
    /\ UNCHANGED notices

\* GetByID again, its error ignored: when the announcement is gone the nil
\* result is dereferenced and the recovered panic ends the request.
RereadAnnouncement(w) ==
    /\ At(w, "announcement.reread")
    /\ IF Posted THEN Hold(w, "announcement.list", announcement.text) ELSE Finish(w)
    /\ UNCHANGED announcementTables

DeleteAnnouncement(w) ==
    /\ AtOnce(w)
    /\ Posted
    /\ announcement' = [announcement EXCEPT !.status = "deleted"]
    /\ UNCHANGED notices

-------------------------------------------------------------------------------
(* notifyCourseEnrollees                                                   *)

\* The pages ListByCourse may return: the page size asked for, 1000, is above
\* its limit and replaced by its default.
Pages ==
    LET size == IF Cardinality(Audience) < PageSize THEN Cardinality(Audience) ELSE PageSize
    IN  {page \in SUBSET Audience : Cardinality(page) = size}

ListEnrollees(w) ==
    /\ At(w, "announcement.list")
    /\ \E page \in Pages :
            Hold(w, "announcement.notify", [text |-> loc[w], todo |-> page])
    /\ UNCHANGED announcementTables

\* As if the loop returned after its first learner.
EnqueueNoticeOnce(w) ==
    /\ At(w, "announcement.notify")
    /\ \E u \in loc[w].todo : notices' = [notices EXCEPT ![u] = Append(@, loc[w].text)]
    /\ Finish(w)
    /\ UNCHANGED announcement

\* outbox.EnqueueInApp for the next learner, its error ignored
EnqueueNotice(w) ==
    /\ At(w, "announcement.notify")
    /\ \E u \in loc[w].todo :
        /\ Hold(w, "announcement.notify", [loc[w] EXCEPT !.todo = @ \ {u}])
        /\ \/ notices' = [notices EXCEPT ![u] = Append(@, loc[w].text)]
           \/ setting.failures /\ UNCHANGED notices
    /\ UNCHANGED announcement

AllNotified(w) ==
    /\ At(w, "announcement.notify")
    /\ loc[w].todo = {}
    /\ Finish(w)
    /\ UNCHANGED announcementTables

AbortAnnouncements(w) == Abort(w) /\ UNCHANGED announcementTables

-------------------------------------------------------------------------------
BeginAnnouncement(w) ==
    \/ \E text \in Texts : CreateAnnouncement(w, text) \/ BeginUpdateAnnouncement(w, text)
    \/ BeginPublish(w) \/ DeleteAnnouncement(w)

\* The next statement of a request under way.
AnnouncementStep(w) ==
    \/ UpdateAnnouncement(w) \/ SetPublished(w) \/ RereadAnnouncement(w)
    \/ ListEnrollees(w) \/ EnqueueNotice(w) \/ AllNotified(w)

AnnouncementsNext == \E w \in setting.workers :
    BeginAnnouncement(w) \/ AnnouncementStep(w) \/ AbortAnnouncements(w)

\* The goroutine w of a request under way runs its next statement; nobody has to
\* send a request.
AnnouncementsFairness(w) == WF_announcementVars(AnnouncementStep(w))

AnnouncementsSpec == AnnouncementsInit /\ [][AnnouncementsNext]_announcementVars

-------------------------------------------------------------------------------
(* Properties                                                              *)

\* The rows have their columns' types, and a worker holds what its next
\* statement needs: a text, or the text and the learners still to tell.
AnnouncementsTypeOK ==
    /\ announcement \in [status : AnnouncementStatus, text : Texts \cup {Nothing}]
    /\ \A u \in Audience : \A k \in DOMAIN notices[u] : notices[u][k] \in Texts
    /\ \A w \in setting.workers :
        \/ pc[w] = "idle" /\ loc[w] = Nothing
        \/ /\ pc[w] \in {"announcement.update", "announcement.publish",
                         "announcement.reread", "announcement.list"}
           /\ loc[w] \in Texts
        \/ /\ pc[w] = "announcement.notify"
           /\ loc[w] \in [text : Texts, todo : SUBSET Audience]

\* A publication that nothing disturbs tells as many learners as
\* the page of enrollments it reads holds (:434, :442), whatever order it goes in.
PublicationTold ==
    Calm /\ announcement.status = "published" ~>
        \E page \in Pages : \A u \in page : notices[u] # <<>>

\* Edits, publications and deletions race (communication.go:117, :131, :150), and
\* two publications of one draft both go through (tested at :128, set at :131): a
\* learner is told what the published announcement says, never the text of a draft
\* that was edited after it was read, and at most once for each request that runs
\* at a time.
NoticesSound ==
    \A u \in Audience :
        /\ Len(notices[u]) <= Cardinality(setting.workers)
        /\ \A k \in DOMAIN notices[u] :
            announcement.status # "draft" /\ notices[u][k] = announcement.text
===============================================================================
