----------------------------- MODULE LiveSessions -----------------------------
(***************************************************************************)
(* One live session of a course and who attended it: LiveService           *)
(* (internal/service/live.go) and the link providers of internal/live over *)
(* the live_sessions and session_attendance tables.                        *)
(*                                                                         *)
(* The two writes of the row are disjoint: Update writes every column but  *)
(* the status, from the copy a request read; SetStatus writes the status   *)
(* alone, by id.  Time is a clock of coarse ticks.  The session is the     *)
(* only one of the course, and of the range a calendar is asked for.       *)
(* Titles and texts are left out, and what an admin does the host does.    *)
(***************************************************************************)
EXTENDS Requests

CONSTANTS
    Learners, Host,   \* who may attend; the host teaches the course
    Providers,        \* link providers in use
    Marks,            \* attendance statuses in use
    Starts,           \* values starts_at takes
    Length,           \* ends_at - starts_at
    EarlyWindow, LateGrace, EndGrace,  \* live.go:16-18
    Horizon           \* the clock stops there

ASSUME LiveSessionsAssumption ==
    /\ Host \notin Learners
    /\ Starts \subseteq Nat
    /\ Length \in Nat \ {0}
    /\ {EarlyWindow, LateGrace, EndGrace, Horizon} \subseteq Nat
    /\ Providers \subseteq {"custom", "jitsi", "zoom", "google_meet"}
    /\ "custom" \in Providers
    /\ Marks \subseteq {"registered", "present", "absent", "late", "excused"}
    /\ {"present", "late"} \subseteq Marks

VARIABLES
    session,     \* the live_sessions row
    attendance,  \* the session_attendance rows
    active,      \* learners whose enrollment in the course is active
    taught,      \* status of the courses row, or deleted
    now

liveTables == <<session, attendance, active, taught, now>>
liveVars == <<requests, liveTables>>

Attendees == Learners \cup {Host}

\* link: join_url is not empty
Details == [provider : Providers, link : BOOLEAN, starts : Starts]

LiveSession == [status : {"none", "draft", "scheduled", "completed", "cancelled"},
                row : Details]

\* joined: joined_at is set
Attendance == [status : Marks \cup {"none"}, joined : BOOLEAN]

LiveSessionsInit ==
    /\ RequestsInit
    /\ \E s \in Starts :
        session = [status |-> "none",
                   row |-> [provider |-> "custom", link |-> FALSE, starts |-> s]]
    /\ attendance = [u \in Attendees |-> [status |-> "none", joined |-> FALSE]]
    /\ active = Learners
    /\ taught = "published"
    /\ now = 0

\* GenerateLink of a provider: Jitsi makes a link of the session's id, all others
\* return the one that was pasted, or an error.
Generates(row) == row.provider = "jitsi" \/ row.link

\* What a request holds: the row it will write and the status it will set.
Plan(row, status) == [row |-> row, status |-> status]

\* courses.GetByID, of a session that is there
Standing == session.status # "none" /\ taught # "deleted"

-------------------------------------------------------------------------------
(* The session                                                             *)

CreateSession(w, row) ==
    /\ AtOnce(w)
    /\ session.status = "none" /\ taught # "deleted"
    /\ session' = [status |-> "draft", row |-> row]
    /\ UNCHANGED <<attendance, active, taught, now>>

\* UpdateSession with a patch of one column
BeginUpdate(w, column, value) ==
    /\ Idle(w)
    /\ Standing /\ session.status # "cancelled"
    /\ Hold(w, "live.update",
            Plan([session.row EXCEPT ![column] = value], session.status))
    /\ UNCHANGED liveTables

\* sessions.Update, as the last statement of a request
WriteRow(w) ==
    /\ At(w, "live.update")
    /\ session' = [session EXCEPT !.row = loc[w].row]
    /\ Finish(w)
    /\ UNCHANGED <<attendance, active, taught, now>>

\* As if the generated link were only returned, not written.
BeginPublishUnlinked(w) ==
    /\ Idle(w)
    /\ Standing /\ session.status = "draft"
    /\ Generates(session.row)
    /\ Hold(w, "live.status", Plan(session.row, "scheduled"))
    /\ UNCHANGED liveTables

\* PublishSession: a draft with a link, or one whose provider makes it one.
BeginPublish(w) ==
    LET row  == session.row
        auto == ~row.link /\ row.provider # "custom"
    IN
    /\ Idle(w)
    /\ Standing /\ session.status = "draft"
    /\ IF auto THEN Generates(row) ELSE row.link
    /\ Hold(w, IF auto THEN "live.link" ELSE "live.status",
            Plan([row EXCEPT !.link = TRUE], "scheduled"))
    /\ UNCHANGED liveTables

\* sessions.Update in applyGeneratedLink, with a statement to come: SetStatus
\* when publishing, the same Update again in GenerateLink.
WriteLink(w) ==
    /\ At(w, "live.link")
    /\ session' = [session EXCEPT !.row = loc[w].row]
    /\ Goto(w, IF loc[w].status = "scheduled" THEN "live.status" ELSE "live.update")
    /\ UNCHANGED <<attendance, active, taught, now>>

\* CompleteSession and CancelSession: the statuses they start from
Finals == [completed |-> {"scheduled"}, cancelled |-> {"draft", "scheduled", "cancelled"}]

BeginEnd(w, status) ==
    /\ Idle(w)
    /\ Standing /\ session.status \in Finals[status]
    /\ Hold(w, "live.status", Plan(session.row, status))
    /\ UNCHANGED liveTables

\* sessions.SetStatus: UPDATE ... SET status WHERE id
SetStatus(w) ==
    /\ At(w, "live.status")
    /\ session' = [session EXCEPT !.status = loc[w].status]
    /\ Finish(w)
    /\ UNCHANGED <<attendance, active, taught, now>>

\* GenerateLink, in any status
BeginGenerate(w) ==
    /\ Idle(w)
    /\ Standing
    /\ Generates(session.row)
    /\ Hold(w, "live.link",
            Plan([session.row EXCEPT !.link = TRUE], "none"))
    /\ UNCHANGED liveTables

-------------------------------------------------------------------------------
(* Attendance                                                              *)

InWindow == /\ now + EarlyWindow >= session.row.starts
            /\ now <= session.row.starts + Length + EndGrace

Punctuality == IF now > session.row.starts + LateGrace THEN "late" ELSE "present"

\* CheckIn: the host needs neither an enrollment nor a scheduled session.
BeginCheckIn(w, u) ==
    /\ Idle(w)
    /\ Standing
    /\ u # Host => session.status = "scheduled" /\ u \in active
    /\ InWindow
    /\ Hold(w, "live.attend", [user |-> u, status |-> Punctuality, joined |-> TRUE])
    /\ UNCHANGED liveTables

\* MarkAttendance, by the host, at any time
BeginMark(w, u, status) ==
    /\ Idle(w)
    /\ Standing
    /\ Hold(w, "live.attend",
            [user |-> u, status |-> status, joined |-> status \in {"present", "late"}])
    /\ UNCHANGED liveTables

\* attendance.Upsert: COALESCE(EXCLUDED.joined_at, session_attendance.joined_at)
UpsertAttendance(w) ==
    /\ At(w, "live.attend")
    /\ attendance' = [attendance EXCEPT ![loc[w].user] =
            [status |-> loc[w].status, joined |-> loc[w].joined \/ @.joined]]
    /\ Finish(w)
    /\ UNCHANGED <<session, active, taught, now>>

-------------------------------------------------------------------------------
(* Who is shown the session                                                *)

Open == session.status \in {"scheduled", "completed"}

\* requireSessionRead, for GetSession
MayRead(u) == Standing /\ (u = Host \/ (Open /\ u \in active))

\* ListCourseSessions asks for the enrollment first and filters the statuses.
Listed(u) == Standing /\ (u = Host \/ u \in active) /\ (u = Host \/ Open)

\* sessions.ListCalendar joins courses without asking for deleted_at; SoftDelete
\* also archives.
InCalendar(u) ==
    /\ Open
    /\ u = Host \/ (u \in active /\ taught = "published")

\* JoinSession reads the session and its course,
BeginJoin(w, u) ==
    /\ Idle(w)
    /\ Standing /\ session.row.link
    /\ u # Host => session.status = "scheduled"
    /\ Hold(w, IF u = Host THEN "live.joined" ELSE "live.join", [user |-> u])
    /\ UNCHANGED liveTables

\* then the learner's enrollment, and returns the link it has.
ReadJoiner(w) ==
    /\ At(w, "live.join")
    /\ IF loc[w].user \in active THEN Goto(w, "live.joined") ELSE Finish(w)
    /\ UNCHANGED liveTables

\* ListCalendar finds the session
BeginCalendar(w, u) ==
    /\ Idle(w)
    /\ InCalendar(u)
    /\ Hold(w, "live.calendar", [user |-> u])
    /\ UNCHANGED liveTables

\* and asks for the course of each it found: an error is all it answers.
ReadCalendarCourse(w) ==
    /\ At(w, "live.calendar")
    /\ IF taught = "deleted" THEN Goto(w, "live.refused") ELSE Finish(w)
    /\ UNCHANGED liveTables

AnswerReader(w) ==
    /\ \E label \in {"live.joined", "live.refused"} : At(w, label)
    /\ Finish(w)
    /\ UNCHANGED liveTables

-------------------------------------------------------------------------------
\* The course is archived, published again or deleted (Catalog has the steps).
ChangeTaught(status) ==
    /\ taught # "deleted" /\ status # taught
    /\ taught' = status
    /\ UNCHANGED <<requests, session, attendance, active, now>>

\* The learner's enrollment is activated or ends (Enrollment has the steps).
ChangeEnrollment(u) ==
    /\ active' = IF u \in active THEN active \ {u} ELSE active \cup {u}
    /\ UNCHANGED <<requests, session, attendance, taught, now>>

Tick ==
    /\ now < Horizon
    /\ now' = now + 1
    /\ UNCHANGED <<requests, session, attendance, active, taught>>

AbortLive(w) == Abort(w) /\ UNCHANGED liveTables

-------------------------------------------------------------------------------
LiveSessionsStep(w) ==
    \/ \E row \in Details : CreateSession(w, row)
    \/ \E p \in Providers : BeginUpdate(w, "provider", p)
    \/ \E l \in BOOLEAN : BeginUpdate(w, "link", l)
    \/ \E s \in Starts : BeginUpdate(w, "starts", s)
    \/ WriteRow(w) \/ BeginPublish(w) \/ WriteLink(w) \/ SetStatus(w)
    \/ \E status \in DOMAIN Finals : BeginEnd(w, status)
    \/ BeginGenerate(w)
    \/ \E u \in Attendees : BeginCheckIn(w, u) \/ \E m \in Marks : BeginMark(w, u, m)
    \/ UpsertAttendance(w)
    \/ \E u \in Attendees : BeginJoin(w, u) \/ BeginCalendar(w, u)
    \/ ReadJoiner(w) \/ ReadCalendarCourse(w) \/ AnswerReader(w)
    \/ AbortLive(w)

LiveSessionsNext ==
    \/ \E w \in setting.workers : LiveSessionsStep(w)
    \/ \E u \in Learners : ChangeEnrollment(u)
    \/ \E status \in {"published", "archived", "deleted"} : ChangeTaught(status)
    \/ Tick

LiveSessionsSpec == LiveSessionsInit /\ [][LiveSessionsNext]_liveVars

-------------------------------------------------------------------------------
(* Properties                                                              *)

\* The rows have their columns' types, and a worker holds the row, the status
\* or the attendance its next statement writes.
LiveSessionsTypeOK ==
    /\ session \in LiveSession
    /\ attendance \in [Attendees -> Attendance]
    /\ active \subseteq Learners
    /\ taught \in {"published", "archived", "deleted"}
    /\ now \in 0..Horizon
    /\ \A w \in setting.workers :
        \/ pc[w] = "idle" /\ loc[w] = Nothing
        \/ /\ pc[w] \in {"live.update", "live.link", "live.status"}
           /\ loc[w].row \in Details
           /\ pc[w] = "live.status" =>
                loc[w].status \in {"scheduled", "completed", "cancelled"}
        \/ /\ pc[w] = "live.attend"
           /\ loc[w] \in [user : Attendees, status : Marks, joined : BOOLEAN]
        \/ /\ pc[w] \in {"live.join", "live.joined", "live.calendar", "live.refused"}
           /\ loc[w] \in [user : Attendees]

\* The list of a course, the calendar and the session itself are shown by three
\* pieces of code (live.go:87, :446, postgres/live.go:144): while the course
\* stands, what is listed or in the calendar can be opened; what a learner can open
\* is listed, and in the calendar too unless the course is archived.
ShownAlike ==
    \A u \in Attendees :
        /\ MayRead(u) <=> Listed(u)
        /\ taught # "deleted" /\ InCalendar(u) => MayRead(u)
        /\ taught = "published" /\ Open /\ MayRead(u) => InCalendar(u)

\* "join_url is required before publishing", "only scheduled sessions can be
\* completed", "completed sessions cannot be cancelled" (live.go:204, :218, :232):
\* the statuses and the link are read by an earlier statement than the one that
\* writes, and the link is written apart from the status.  One request at a time,
\* whatever fails, a session that ended stays as it ended, none is published
\* before its row has a link, and a learner is given the link of one that is
\* scheduled (:261).  Two at a time can complete what was cancelled.  And, however
\* they race, ShownAlike.
SessionStatusSound ==
    [][/\ Alone =>
            /\ session.status \in {"completed", "cancelled"}
                    => session'.status = session.status
            /\ session.status = "draft" /\ session'.status = "scheduled"
                    => session.row.link
            /\ \A w \in setting.workers :
                    pc'[w] = "live.joined" /\ pc[w] = "live.join"
                        => session.status = "scheduled" /\ session.row.link
       /\ ShownAlike']_liveVars

\* The calendar "returns scheduled/completed sessions for courses you teach or are
\* actively enrolled in" (docs/api/live.md:45), so whoever has a session in it may
\* read that session and its course.  It is not so: the session of a deleted course
\* stays in its teacher's calendar, and since that course is not found the answer is
\* an error, whatever else the calendar holds (service/live.go:391).
CalendarAnswered == \A u \in Attendees : InCalendar(u) => MayRead(u)
===============================================================================
