------------------------------ MODULE Enrollment ------------------------------
(***************************************************************************)
(* The seats of one course: EnrollmentService (internal/service/           *)
(* enrollment.go) over the enrollments, enrollment_invite_codes and        *)
(* enrollment_events tables and the enrollment columns of the courses row. *)
(*                                                                         *)
(* Every HTTP request runs in a goroutine of its own (a worker), and every *)
(* SQL statement commits by itself: the service opens no transaction.  So  *)
(* a request is a sequence of actions, one per statement that reads or     *)
(* writes a table, and statements of different requests interleave freely. *)
(* Between two statements a worker holds what it has read in loc[w].       *)
(*                                                                         *)
(* A request that fails on its first read changes nothing and is left out. *)
(* The columns nothing decides on (source, invite_code_id, enrolled_at,    *)
(* cancelled_at) are abstracted away, and so is the closing GetByID.       *)
(***************************************************************************)
EXTENDS Integers, FiniteSets

CONSTANTS
    Users,           \* learners: actors that are not the course's teacher
    Workers,         \* goroutines serving requests at the same time
    Invites,         \* ids of invite codes the teacher may create
    Capacities,      \* values enrollment_capacity takes
    UseLimits,       \* values max_uses takes
    Unlimited,       \* NULL in enrollment_capacity or in max_uses
    CapacityLimit,   \* no finite capacity is larger
    OpenFlags,       \* values enrollment_open takes
    WaitlistFlags,   \* values waitlist_enabled takes
    FreeFlags,       \* values (price_cents = 0) takes
    CourseStatuses,  \* values the course's status takes; a draft is as "archived"
    Patches,         \* sets of columns a settings PATCH leaves out
    NoUser, NoInvite,
    Failures         \* whether a request may die between two statements

Columns == {"capacity", "open", "waitlist"}

ASSUME WorkersAssumption == IsFiniteSet(Workers)
ASSUME UsersAssumption ==
    IsFiniteSet(Users) /\ Users \cap Workers = {} /\ NoUser \notin Users
ASSUME InvitesAssumption == NoInvite \notin Invites
ASSUME LimitsAssumption ==
    /\ CapacityLimit \in Nat
    /\ Unlimited \notin Int
    /\ Capacities \subseteq (1 .. CapacityLimit) \cup {Unlimited}
    /\ UseLimits \subseteq (Nat \ {0}) \cup {Unlimited}
ASSUME FlagsAssumption ==
    /\ OpenFlags \subseteq BOOLEAN
    /\ WaitlistFlags \subseteq BOOLEAN
    /\ FreeFlags \subseteq BOOLEAN
    /\ CourseStatuses \subseteq {"published", "archived", "deleted"}
    /\ Patches \subseteq SUBSET Columns
    /\ Failures \in BOOLEAN

VARIABLES
    course,     \* the courses row
    status,     \* enrollments.status of each learner's row, "none" without a row
    lastEvent,  \* event_type of the learner's newest enrollment_events row
    invite,     \* the enrollment_invite_codes rows
    earlier,    \* pairs of timestamps, each named by its holder, in time order
    pc,         \* the statement a worker runs next
    loc         \* what a worker has read and decided

vars == <<course, status, lastEvent, invite, earlier, pc, loc>>
rows == <<course, status, lastEvent, invite, earlier>>

Status == {"none", "active", "waitlisted", "cancelled"}
Event  == {"none", "enrolled", "waitlisted", "activated", "cancelled"}

Course == [status : CourseStatuses, free : FreeFlags, capacity : Capacities,
           open : OpenFlags, waitlist : WaitlistFlags]

Invite == [status : {"absent", "live", "expired", "revoked"},
           limit : UseLimits, uses : Nat]

\* "idle": the worker serves no request.
Enrolling == {"invite", "row", "seat", "write", "uses", "event"}
Leaving   == {"cancel", "left", "course", "room", "next", "grant", "granted"}
Label     == {"idle", "settings"} \cup Enrolling \cup Leaving

\* user: the learner whose row the next write touches; row: the status read
\* in it; seat: the status decideSeat chose; capacity, open, waitlist: the
\* course's settings as read or as merged; omitted: columns a PATCH leaves out.
Local == [user : Users \cup {NoUser}, invite : Invites \cup {NoInvite},
          row : Status, seat : Status,
          capacity : Capacities \cup {Unlimited}, open : BOOLEAN,
          waitlist : BOOLEAN, omitted : SUBSET Columns]

Blank == [user |-> NoUser, invite |-> NoInvite, row |-> "none", seat |-> "none",
          capacity |-> Unlimited, open |-> FALSE, waitlist |-> FALSE,
          omitted |-> {}]

Active     == {u \in Users : status[u] = "active"}
Waitlisted == {u \in Users : status[u] = "waitlisted"}

Init ==
    /\ course \in [status : CourseStatuses \ {"deleted"}, free : FreeFlags,
                   capacity : Capacities, open : OpenFlags,
                   waitlist : WaitlistFlags]
    /\ status = [u \in Users |-> "none"]
    /\ lastEvent = [u \in Users |-> "none"]
    /\ invite \in [Invites -> [status : {"absent"}, limit : UseLimits, uses : {0}]]
    /\ earlier = {}
    /\ pc = [w \in Workers |-> "idle"]
    /\ loc = [w \in Workers |-> Blank]

-------------------------------------------------------------------------------
(* What the handlers share                                                 *)

\* The goroutine returns; what it had read is gone.
Finish(w) ==
    /\ pc' = [pc EXCEPT ![w] = "idle"]
    /\ loc' = [loc EXCEPT ![w] = Blank]

Goto(w, label) == pc' = [pc EXCEPT ![w] = label] /\ UNCHANGED loc

\* Proceed to the statement named label, holding the local record l.
Hold(w, label, l) ==
    /\ pc' = [pc EXCEPT ![w] = label]
    /\ loc' = [loc EXCEPT ![w] = l]

\* A timestamp that will order the waitlist is held by the row that stores it,
\* or by the worker that took time.Now() in Enroll and has not written it yet.
Holders == Waitlisted \cup
           {w \in Workers : pc[w] \in {"seat", "write"} /\ loc[w].row = "none"}

Without(S) == {p \in earlier : p[1] \notin S /\ p[2] \notin S}

\* The order once worker w has written status s into u's row: Enroll stores
\* the time it took before decideSeat, reactivate one it takes at the write.
Restamped(w, u, s) ==
    IF s # "waitlisted" THEN Without({u, w})
    ELSE IF loc[w].row = "none"
         THEN LET owner(h) == IF h = w THEN u ELSE h
              IN  {<<owner(p[1]), owner(p[2])>> : p \in Without({u})}
         ELSE Without({u}) \cup ((Holders \ {u}) \X {u})

OldestUnordered == Waitlisted

\* ORDER BY waitlisted_at: the learners no other waitlisted row is older than.
Oldest == {u \in Waitlisted : \A v \in Waitlisted : <<v, u>> \notin earlier}

\* CountByCourseStatus against a capacity.
RoomOffByOne(capacity) == Cardinality(Active) <= capacity
Room(capacity) == Cardinality(Active) < capacity

-------------------------------------------------------------------------------
(* Enroll, EnrollFromPayment, reactivate, reactivateFromPayment            *)

\* GetCourse in Enroll.  Without an invite code the course must be open.
BeginEnroll(w, u, i) ==
    /\ pc[w] = "idle"
    /\ course.status = "published"
    /\ course.free
    /\ i = NoInvite => course.open
    /\ Hold(w, IF i = NoInvite THEN "row" ELSE "invite",
            [Blank EXCEPT !.user = u, !.invite = i,
                          !.capacity = course.capacity,
                          !.waitlist = course.waitlist])
    /\ UNCHANGED rows

\* GetCourse in EnrollFromPayment, called once an order's payment succeeded.
BeginEnrollFromPayment(w, u) ==
    /\ pc[w] = "idle"
    /\ course.status = "published"
    /\ Hold(w, "row", [Blank EXCEPT !.user = u, !.capacity = course.capacity,
                                    !.waitlist = course.waitlist])
    /\ UNCHANGED rows

\* validateInvite
UsableWithoutLimit(inv) == inv.status = "live"
Usable(inv) == /\ inv.status = "live"
               /\ inv.limit # Unlimited => inv.uses < inv.limit

\* GetByCourseCode and validateInvite
ReadInvite(w) ==
    /\ pc[w] = "invite"
    /\ IF Usable(invite[loc[w].invite]) THEN Goto(w, "row") ELSE Finish(w)
    /\ UNCHANGED rows

\* GetByCourseUser.  A seat or a place in the queue ends the request (Conflict,
\* or the existing row for a payment).  A learner without a row gets a new one,
\* stamped now; without a capacity, decideSeat grants a seat with no query.
ReadRow(w) ==
    LET read == status[loc[w].user] IN
    /\ pc[w] = "row"
    /\ IF read \in {"active", "waitlisted"}
       THEN Finish(w) /\ UNCHANGED earlier
       ELSE /\ earlier' = IF read = "none" THEN earlier \cup (Holders \X {w})
                                           ELSE earlier
            /\ IF loc[w].capacity = Unlimited
               THEN Hold(w, "write", [loc[w] EXCEPT !.row = read, !.seat = "active"])
               ELSE Hold(w, "seat", [loc[w] EXCEPT !.row = read])
    /\ UNCHANGED <<course, status, lastEvent, invite>>

\* decideSeat: CountByCourseStatus against the settings read before.
DecideSeat(w) ==
    /\ pc[w] = "seat"
    /\ \/ /\ Room(loc[w].capacity)
          /\ Hold(w, "write", [loc[w] EXCEPT !.seat = "active"])
          /\ UNCHANGED earlier
       \/ /\ ~Room(loc[w].capacity)
          /\ loc[w].waitlist
          /\ Hold(w, "write", [loc[w] EXCEPT !.seat = "waitlisted"])
          /\ UNCHANGED earlier
       \/ /\ ~Room(loc[w].capacity)
          /\ ~loc[w].waitlist
          /\ Finish(w)
          /\ earlier' = Without({w})
    /\ UNCHANGED <<course, status, lastEvent, invite>>

\* Create when no row was read: the unique index refuses it (Conflict) if
\* another request has inserted one.  Otherwise UpdateStatus by id: the row
\* is overwritten whatever its status is by now.
WriteSeat(w) ==
    LET u == loc[w].user IN
    /\ pc[w] = "write"
    /\ IF loc[w].row = "none" /\ status[u] # "none"
       THEN /\ Finish(w)
            /\ earlier' = Without({w})
            /\ UNCHANGED status
       ELSE /\ status' = [status EXCEPT ![u] = loc[w].seat]
            /\ earlier' = Restamped(w, u, loc[w].seat)
            /\ Goto(w, IF loc[w].invite = NoInvite THEN "event" ELSE "uses")
    /\ UNCHANGED <<course, lastEvent, invite>>

\* IncrementUses: uses_count + 1, with no test of max_uses or revoked_at.
CountUse(w) ==
    /\ pc[w] = "uses"
    /\ invite' = [invite EXCEPT ![loc[w].invite].uses = @ + 1]
    /\ Goto(w, "event")
    /\ UNCHANGED <<course, status, lastEvent, earlier>>

\* The event a seat or a place in the queue is reported by.
SeatEventIsStatus(seat) == seat
SeatEventAlwaysEnrolled(seat) == "enrolled"
SeatEvent(seat) == IF seat = "active" THEN "enrolled" ELSE "waitlisted"

\* emit(enrolled) or emit(waitlisted)
EmitSeat(w) ==
    /\ pc[w] = "event"
    /\ lastEvent' = [lastEvent EXCEPT ![loc[w].user] = SeatEvent(loc[w].seat)]
    /\ Finish(w)
    /\ UNCHANGED <<course, status, invite, earlier>>

-------------------------------------------------------------------------------
(* Unenroll and promoteWaitlist                                            *)

\* GetByCourseUser in Unenroll
BeginUnenroll(w, u) ==
    /\ pc[w] = "idle"
    /\ status[u] \in {"active", "waitlisted"}
    /\ Hold(w, "cancel", [Blank EXCEPT !.user = u, !.row = status[u]])
    /\ UNCHANGED rows

\* UpdateStatus(cancelled), by id
CancelSeat(w) ==
    LET u == loc[w].user IN
    /\ pc[w] = "cancel"
    /\ status' = [status EXCEPT ![u] = "cancelled"]
    /\ earlier' = Restamped(w, u, "cancelled")
    /\ Goto(w, "left")
    /\ UNCHANGED <<course, lastEvent, invite>>

EmitCancelledOnly(w) ==
    /\ pc[w] = "left"
    /\ lastEvent' = [lastEvent EXCEPT ![loc[w].user] = "cancelled"]
    /\ Finish(w)
    /\ UNCHANGED <<course, status, invite, earlier>>

\* emit(cancelled); a seat that was active when read is offered to the queue.
EmitCancelled(w) ==
    /\ pc[w] = "left"
    /\ lastEvent' = [lastEvent EXCEPT ![loc[w].user] = "cancelled"]
    /\ IF loc[w].row = "active" THEN Goto(w, "course") ELSE Finish(w)
    /\ UNCHANGED <<course, status, invite, earlier>>

\* GetCourse in promoteWaitlist: a deleted course is not found.
ReadCourse(w) ==
    /\ pc[w] = "course"
    /\ IF course.status # "deleted" /\ course.waitlist
       THEN Hold(w, IF course.capacity = Unlimited THEN "next" ELSE "room",
                 [loc[w] EXCEPT !.capacity = course.capacity])
       ELSE Finish(w)
    /\ UNCHANGED rows

\* CountByCourseStatus in promoteWaitlist
CheckRoom(w) ==
    /\ pc[w] = "room"
    /\ IF Room(loc[w].capacity) THEN Goto(w, "next") ELSE Finish(w)
    /\ UNCHANGED rows

\* NextWaitlisted
ReadNext(w) ==
    /\ pc[w] = "next"
    /\ \/ Waitlisted = {} /\ Finish(w)
       \/ \E u \in Oldest : Hold(w, "grant", [loc[w] EXCEPT !.user = u])
    /\ UNCHANGED rows

\* UpdateStatus(active), by id: the row may have changed since it was read.
GrantSeat(w) ==
    LET u == loc[w].user IN
    /\ pc[w] = "grant"
    /\ status' = [status EXCEPT ![u] = "active"]
    /\ earlier' = Restamped(w, u, "active")
    /\ Goto(w, "granted")
    /\ UNCHANGED <<course, lastEvent, invite>>

\* emit(activated)
EmitActivated(w) ==
    /\ pc[w] = "granted"
    /\ lastEvent' = [lastEvent EXCEPT ![loc[w].user] = "activated"]
    /\ Finish(w)
    /\ UNCHANGED <<course, status, invite, earlier>>

-------------------------------------------------------------------------------
(* The teacher: enrollment settings, invite codes, the course itself       *)

Merged(omitted, column, old, new) == IF column \in omitted THEN old ELSE new

\* GetCourse in UpdateSettings, merged with the columns the PATCH sets.
BeginSettings(w, omitted, c, o, l) ==
    /\ pc[w] = "idle"
    /\ course.status # "deleted"
    /\ Hold(w, "settings",
            [Blank EXCEPT
                !.omitted  = omitted,
                !.capacity = Merged(omitted, "capacity", course.capacity, c),
                !.open     = Merged(omitted, "open", course.open, o),
                !.waitlist = Merged(omitted, "waitlist", course.waitlist, l)])
    /\ UNCHANGED rows

\* UpdateEnrollmentSettings writes all three columns of a course not deleted.
\* It promotes nobody.
WriteSettings(w) ==
    /\ pc[w] = "settings"
    /\ course' = IF course.status = "deleted" THEN course
                 ELSE [course EXCEPT !.capacity = loc[w].capacity,
                                     !.open = loc[w].open,
                                     !.waitlist = loc[w].waitlist]
    /\ Finish(w)
    /\ UNCHANGED <<status, lastEvent, invite, earlier>>

CreateInviteCode(i, limit) ==
    /\ invite[i].status = "absent"
    /\ invite' = [invite EXCEPT ![i] = [status |-> "live", limit |-> limit, uses |-> 0]]
    /\ UNCHANGED <<course, status, lastEvent, earlier, pc, loc>>

\* expires_at passes.
ExpireInviteCode(i) ==
    /\ invite[i].status = "live"
    /\ invite' = [invite EXCEPT ![i].status = "expired"]
    /\ UNCHANGED <<course, status, lastEvent, earlier, pc, loc>>

\* UPDATE ... WHERE revoked_at IS NULL
RevokeInviteCode(i) ==
    /\ invite[i].status \in {"live", "expired"}
    /\ invite' = [invite EXCEPT ![i].status = "revoked"]
    /\ UNCHANGED <<course, status, lastEvent, earlier, pc, loc>>

\* CourseService: Publish, Archive, Delete and a change of price, each one
\* UPDATE ... WHERE deleted_at IS NULL.
ChangeCourse(s, free) ==
    /\ course.status # "deleted"
    /\ course' = [course EXCEPT !.status = s, !.free = free]
    /\ UNCHANGED <<status, lastEvent, invite, earlier, pc, loc>>

-------------------------------------------------------------------------------
(* A statement fails, the client's context is cancelled or the process is  *)
(* restarted: the request stops between two statements and leaves behind   *)
(* what it has written.                                                    *)
Abort(w) ==
    /\ Failures
    /\ pc[w] # "idle"
    /\ Finish(w)
    /\ earlier' = Without({w})
    /\ UNCHANGED <<course, status, lastEvent, invite>>

\* A request in progress runs its next statement.
Step(w) ==
    \/ ReadInvite(w) \/ ReadRow(w) \/ DecideSeat(w) \/ WriteSeat(w)
    \/ CountUse(w) \/ EmitSeat(w)
    \/ CancelSeat(w) \/ EmitCancelled(w) \/ ReadCourse(w) \/ CheckRoom(w)
    \/ ReadNext(w) \/ GrantSeat(w) \/ EmitActivated(w)
    \/ WriteSettings(w)

Begin(w) ==
    \/ \E u \in Users, i \in Invites \cup {NoInvite} : BeginEnroll(w, u, i)
    \/ \E u \in Users : BeginEnrollFromPayment(w, u)
    \/ \E u \in Users : BeginUnenroll(w, u)
    \/ \E p \in Patches, c \in Capacities, o \in OpenFlags, l \in WaitlistFlags :
           BeginSettings(w, p, c, o, l)

Teacher ==
    \/ \E i \in Invites, n \in UseLimits : CreateInviteCode(i, n)
    \/ \E i \in Invites : ExpireInviteCode(i) \/ RevokeInviteCode(i)
    \/ \E s \in CourseStatuses, f \in FreeFlags : ChangeCourse(s, f)

Next ==
    \/ \E w \in Workers : Begin(w) \/ Step(w) \/ Abort(w)
    \/ Teacher

Spec == Init /\ [][Next]_vars

\* A statement is answered in the end: net/http and pgx schedule every request.
FairSpec == Spec /\ \A w \in Workers : WF_vars(Step(w))

-------------------------------------------------------------------------------
(* Properties                                                              *)

\* Every row, timestamp pair and worker record has the shape the tables and
\* the service's structs give it.
TypeOK ==
    /\ course \in Course
    /\ status \in [Users -> Status]
    /\ lastEvent \in [Users -> Event]
    /\ invite \in [Invites -> Invite]
    /\ earlier \subseteq (Users \cup Workers) \X (Users \cup Workers)
    /\ pc \in [Workers -> Label]
    /\ loc \in [Workers -> Local]

\* Workers whose count said there was room and that have not written yet.
Granted == {w \in Workers : \/ pc[w] = "write" /\ loc[w].seat = "active"
                            \/ pc[w] \in {"next", "grant"}}

\* decideSeat and promoteWaitlist count first and write later, so a course can
\* be overbooked; but never by more than the other requests in flight, however
\* they interleave, fail, or meet a change of the settings.
OverbookingBound ==
    Unlimited \notin Capacities =>
        Cardinality(Active) + Cardinality(Granted)
            < CapacityLimit + Cardinality(Workers)

\* Workers that found code i usable and have not counted their use yet.
Redeeming(i) == {w \in Workers : /\ loc[w].invite = i
                                 /\ pc[w] \in {"row", "seat", "write", "uses"}}

\* validateInvite tests uses_count long before IncrementUses adds to it: a code
\* is used at most max_uses times, plus once for each other request in flight.
InviteOvershootBound ==
    \A i \in Invites : invite[i].limit # Unlimited =>
        invite[i].uses + Cardinality(Redeeming(i))
            < invite[i].limit + Cardinality(Workers)

AtRest == \A w \in Workers : pc[w] = "idle"

\* enrollment_capacity is the maximum of active seats.
CapacityRespected == Cardinality(Active) <= course.capacity

\* A seat is only given away while the course, under the settings in force at
\* that moment, has one: lowering the capacity stops admissions until enough
\* learners have left.
AdmissionsFit ==
    [][course.capacity # Unlimited /\ Active' \ Active # {}
          => Cardinality(Active') <= course.capacity]_vars

\* A seat that is free while somebody waits goes to somebody (or nobody is
\* left waiting): Unenroll hands the seat on.
FreedSeatIsRefilled ==
    (Waitlisted # {} /\ Cardinality(Active) < course.capacity)
        ~> (Waitlisted = {} \/ Cardinality(Active) >= course.capacity)

\* A learner who left only comes back by a request of their own (Enroll or
\* their payment), never by another learner's Unenroll promoting them.
LeaversStayOut ==
    [][\A u \in Users :
          status[u] = "cancelled" /\ status'[u] = "active" =>
              \E w \in Workers : pc[w] = "write" /\ loc[w].user = u]_vars

\* When no request is in flight the newest enrollment_events row of every
\* learner tells the status of their enrollment.
EventsTellStatus ==
    AtRest => \A u \in Users :
        lastEvent[u] \in (CASE status[u] = "none"       -> {"none"}
                            [] status[u] = "active"     -> {"enrolled", "activated"}
                            [] status[u] = "waitlisted" -> {"waitlisted"}
                            [] status[u] = "cancelled"  -> {"cancelled"})

===============================================================================
