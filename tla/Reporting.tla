-------------------------------- MODULE Reporting --------------------------------
(***************************************************************************)
(* What teachers, learners and admins are shown of a course with one quiz: *)
(* the gradebook (AssessmentService.Gradebook, internal/service/           *)
(* assessment.go:682), a learner's transcript (CertificateService.         *)
(* buildTranscript, certificate.go:221) and the analytics                  *)
(* (internal/repository/postgres/analytics.go).                            *)
(*                                                                         *)
(* Each is put together from several SELECTs without a transaction, while  *)
(* requests change what they read.  Those requests are Enrollment's,       *)
(* Assessment's and Learning's; here each is the one statement that        *)
(* changes a row a report counts.  The reports of organizations, orders    *)
(* and certificates are single SELECTs and are left out.                   *)
(***************************************************************************)
EXTENDS Requests, Sequences

CONSTANTS
    Members,     \* the learners
    Percentages, \* results of attempts
    TriesBound,  \* bound: attempts of one learner
    PageLimit    \* enrollments a page of a report holds

ASSUME ReportingAssumption ==
    /\ IsFiniteSet(Members)
    /\ Percentages \subseteq 0..100
    /\ TriesBound \in Nat /\ PageLimit \in Nat

VARIABLES
    seats,      \* status of the enrollments rows; they are never deleted
    tries,      \* the quiz_attempts rows by learner, never deleted either:
                \* the percent of a graded one, Nothing of one in progress
    completers  \* whose course_progress row has completed_at

reportingTables == <<seats, tries, completers>>
reportingVars == <<requests, reportingTables>>

SeatStatus == {"active", "waitlisted", "cancelled"}

ReportingInit ==
    /\ RequestsInit
    /\ seats = [u \in Members |-> "none"]
    /\ tries = [u \in Members |-> <<>>]
    /\ completers = {}

WithSeat(statuses) == {u \in Members : seats[u] \in statuses}

\* The largest of a set of results; Nothing when there is none.
BestOf(results) ==
    IF results = {} THEN Nothing
    ELSE CHOOSE p \in results : \A q \in results : q <= p

\* BestGradedByCourse: the best graded attempt
Best(u) == BestOf({tries[u][k] : k \in DOMAIN tries[u]} \ {Nothing})

\* enrollments.ListByCourse for the gradebook: any page of the active ones
ActivePages ==
    LET active == WithSeat({"active"})
    IN  IF Cardinality(active) <= PageLimit THEN {active}
        ELSE {page \in SUBSET active : Cardinality(page) = PageLimit}

-------------------------------------------------------------------------------
(* The requests that change what is reported                               *)

ChangeStatus(w, u, status) ==
    /\ AtOnce(w)
    /\ seats[u] # status
    /\ seats' = [seats EXCEPT ![u] = status]
    /\ UNCHANGED <<tries, completers>>

StartTry(w, u) ==
    /\ AtOnce(w)
    /\ seats[u] = "active"
    /\ Len(tries[u]) < TriesBound
    /\ tries' = [tries EXCEPT ![u] = Append(@, Nothing)]
    /\ UNCHANGED <<seats, completers>>

GradeTry(w, u, percent) ==
    /\ AtOnce(w)
    /\ \E k \in DOMAIN tries[u] :
        tries[u][k] = Nothing /\ tries' = [tries EXCEPT ![u][k] = percent]
    /\ UNCHANGED <<seats, completers>>

\* A roll-up; it may also take a completion back.
ChangeCompletion(w, u) ==
    /\ AtOnce(w)
    /\ seats[u] = "active"
    /\ completers' = IF u \in completers THEN completers \ {u} ELSE completers \cup {u}
    /\ UNCHANGED <<seats, tries>>

-------------------------------------------------------------------------------
(* Gradebook                                                               *)

BeginGradebook(w) ==
    /\ Idle(w)
    /\ \E page \in ActivePages : Hold(w, "gradebook.best", [rows |-> page])
    /\ UNCHANGED reportingTables

ReadBest(w) ==
    /\ At(w, "gradebook.best")
    /\ Hold(w, "gradebook.counts",
            [bests  |-> [u \in loc[w].rows |-> Best(u)],
             counts |-> [u \in loc[w].rows |-> 0],
             todo   |-> loc[w].rows])
    /\ UNCHANGED reportingTables

\* attempts.CountByQuizUser for each learner; an error counts as none
CountTries(w) ==
    /\ At(w, "gradebook.counts")
    /\ \E u \in loc[w].todo :
        \E n \in {Len(tries[u])} \cup (IF setting.failures THEN {0} ELSE {}) :
            Hold(w, "gradebook.counts",
                 [loc[w] EXCEPT !.counts[u] = n, !.todo = @ \ {u}])
    /\ UNCHANGED reportingTables

-------------------------------------------------------------------------------
(* A transcript                                                            *)

\* buildTranscript lists the active enrollments; transcriptCourse counts
\* attempts before it lists them, and passes over the errors of both.
BeginTranscript(w, u) ==
    /\ Idle(w)
    /\ seats[u] = "active"
    /\ Hold(w, "transcript.count", [learner |-> u])
    /\ UNCHANGED reportingTables

ReadCount(w) ==
    /\ At(w, "transcript.count")
    /\ \E n \in {Len(tries[loc[w].learner])} \cup (IF setting.failures THEN {0} ELSE {}) :
            Hold(w, "transcript.tries", [learner |-> loc[w].learner, count |-> n])
    /\ UNCHANGED reportingTables

ReadTries(w) ==
    /\ At(w, "transcript.tries")
    /\ \E p \in {Best(loc[w].learner)} \cup (IF setting.failures THEN {Nothing} ELSE {}) :
            Hold(w, "transcript.shown",
                 [learner |-> loc[w].learner, count |-> loc[w].count, best |-> p])
    /\ UNCHANGED reportingTables

-------------------------------------------------------------------------------
(* Analytics                                                               *)

\* As if the waiting list did not count.
ByStatusServed == [s \in SeatStatus \ {"waitlisted"} |-> Cardinality(WithSeat({s}))]

\* GROUP BY status
ByStatus == [s \in SeatStatus |-> Cardinality(WithSeat({s}))]

\* PlatformOverview: the count of all enrollments, then that of each status.
\* Users and courses are counted the same way, but are deleted as well.
BeginOverview(w) ==
    /\ Idle(w)
    /\ Hold(w, "overview.status", [total |-> Cardinality(WithSeat(SeatStatus))])
    /\ UNCHANGED reportingTables

ReadByStatus(w) ==
    /\ At(w, "overview.status")
    /\ Hold(w, "overview.shown", [total |-> loc[w].total, byStatus |-> ByStatus])
    /\ UNCHANGED reportingTables

\* CourseAnalytics: the enrollments by status, then the completions
BeginAnalytics(w) ==
    /\ Idle(w)
    /\ Hold(w, "analytics.completions", [active |-> ByStatus["active"]])
    /\ UNCHANGED reportingTables

\* Rounded half up; the completions are also those of learners who have left.
CompletionRate(completions, active) ==
    IF active = 0 THEN 0 ELSE (200 * completions + active) \div (2 * active)

ReadCompletions(w) ==
    /\ At(w, "analytics.completions")
    /\ Hold(w, "analytics.shown",
            [active |-> loc[w].active,
             rate   |-> CompletionRate(Cardinality(completers), loc[w].active)])
    /\ UNCHANGED reportingTables

\* reportBounds: the days a report covers, thirty when it is asked for none or
\* for an empty range.
ReportBounds(from, to, today) ==
    LET until == IF to = Nothing THEN today ELSE to
    IN  IF from = Nothing \/ from >= until
        THEN [from |-> until - 30, to |-> until] ELSE [from |-> from, to |-> until]

-------------------------------------------------------------------------------
\* The answer is sent.
Respond(w) ==
    /\ \/ pc[w] \in {"transcript.shown", "overview.shown", "analytics.shown"}
       \/ pc[w] = "gradebook.counts" /\ loc[w].todo = {}
    /\ Finish(w)
    /\ UNCHANGED reportingTables

AbortReporting(w) == Abort(w) /\ UNCHANGED reportingTables

ChangeReported(w) == \E u \in Members :
    \/ \E status \in SeatStatus : ChangeStatus(w, u, status)
    \/ StartTry(w, u) \/ ChangeCompletion(w, u)
    \/ \E percent \in Percentages : GradeTry(w, u, percent)

BeginReport(w) ==
    \/ BeginGradebook(w) \/ BeginOverview(w) \/ BeginAnalytics(w)
    \/ \E u \in Members : BeginTranscript(w, u)

ReportStep(w) ==
    \/ ReadBest(w) \/ CountTries(w)
    \/ ReadCount(w) \/ ReadTries(w)
    \/ ReadByStatus(w) \/ ReadCompletions(w)
    \/ Respond(w)

ReportingNext == \E w \in setting.workers :
    ChangeReported(w) \/ BeginReport(w) \/ ReportStep(w) \/ AbortReporting(w)

ReportingSpec == ReportingInit /\ [][ReportingNext]_reportingVars

-------------------------------------------------------------------------------
(* Properties                                                              *)

Result == Percentages \cup {Nothing}

\* The rows have their columns' types, and a worker holds what it has read.
ReportingTypeOK ==
    /\ seats \in [Members -> SeatStatus \cup {"none"}]
    /\ \A u \in Members :
        Len(tries[u]) <= TriesBound /\ \A k \in DOMAIN tries[u] : tries[u][k] \in Result
    /\ completers \subseteq Members
    /\ \A w \in setting.workers :
        \/ pc[w] = "idle" /\ loc[w] = Nothing
        \/ pc[w] = "gradebook.best" /\ loc[w].rows \subseteq Members
        \/ /\ pc[w] = "gradebook.counts"
           /\ loc[w].todo \subseteq DOMAIN loc[w].bests
           /\ loc[w].bests \in [DOMAIN loc[w].bests -> Result]
           /\ loc[w].counts \in [DOMAIN loc[w].bests -> 0..TriesBound]
        \/ pc[w] = "transcript.count" /\ loc[w].learner \in Members
        \/ /\ pc[w] = "transcript.tries"
           /\ loc[w] \in [learner : Members, count : 0..TriesBound]
        \/ /\ pc[w] = "transcript.shown"
           /\ loc[w] \in [learner : Members, count : 0..TriesBound, best : Result]
        \/ pc[w] = "overview.status" /\ loc[w].total \in 0..Cardinality(Members)
        \/ pc[w] = "overview.shown" /\ loc[w].total \in 0..Cardinality(Members)
        \/ pc[w] = "analytics.completions" /\ loc[w].active \in 0..Cardinality(Members)
        \/ pc[w] = "analytics.shown" /\ loc[w].rate \in Nat

SumByStatus(counts) ==
    counts["active"] + counts["cancelled"]
    + (IF "waitlisted" \in DOMAIN counts THEN counts["waitlisted"] ELSE 0)

\* A report is read in several statements (assessment.go:686, certificate.go:262,
\* analytics.go:22, :139): whatever changes in between, a gradebook without errors
\* never shows a result of a learner with no attempts, no result is better than
\* the learner's best, an overview never shows more enrollments than its statuses
\* add up to, and what a report covers is never empty.  In a transcript, which
\* counts first, a result without attempts takes another request or an error; a
\* completion rate over 100 takes one that completed and is not active.
ReportsCoherent ==
    /\ \A w \in setting.workers :
        /\ pc[w] = "gradebook.counts" =>
            \A u \in {v \in DOMAIN loc[w].bests \ loc[w].todo : loc[w].bests[v] # Nothing} :
                loc[w].bests[u] <= Best(u) /\ (Unfailing => loc[w].counts[u] > 0)
        /\ pc[w] = "transcript.shown" /\ loc[w].best # Nothing =>
            loc[w].best <= Best(loc[w].learner) /\ (Calm => loc[w].count > 0)
        /\ pc[w] = "overview.shown" => loc[w].total <= SumByStatus(loc[w].byStatus)
        /\ pc[w] = "analytics.shown" /\ Alone /\ loc[w].rate > 100 =>
            ~(completers \subseteq WithSeat({"active"}))
    /\ \A from, to \in 0..3 \cup {Nothing} :
        LET bounds == ReportBounds(from, to, 2) IN bounds.from < bounds.to
===============================================================================
