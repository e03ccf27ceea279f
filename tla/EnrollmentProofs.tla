--------------------------- MODULE EnrollmentProofs ---------------------------
(***************************************************************************)
(* Theorems about Enrollment for every number of learners, workers and     *)
(* invite codes, every set of capacities and use limits, and with or       *)
(* without failing requests; the last three sections are about one worker. *)
(***************************************************************************)
EXTENDS EnrollmentSerial, FiniteSetTheorems, SequenceTheorems, WellFoundedInduction, TLAPS

\* What a worker holds when it is about to run a statement: the learner whose
\* row it writes, the code it uses, the settings it decides with.
Prepared(w) ==
    /\ pc[w] \notin {"idle", "settings"} => loc[w].user \in Users
    /\ pc[w] \in {"invite", "uses"} => loc[w].invite \in Invites
    /\ pc[w] \in {"invite", "row", "seat", "room", "settings"} =>
          loc[w].capacity \in Capacities
    /\ pc[w] \in {"seat", "room"} => loc[w].capacity # Unlimited
    /\ pc[w] = "settings" => /\ loc[w].open \in OpenFlags
                             /\ loc[w].waitlist \in WaitlistFlags

WorkersPrepared == \A w \in Workers : Prepared(w)

Typed == TypeOK /\ WorkersPrepared

-------------------------------------------------------------------------------
(* Type correctness                                                        *)

\* A blank local record, and one that has read the course, are well typed.
LEMMA BlankType == Blank \in Local
BY DEF Blank, Local, Status, Columns

\* Forgetting timestamps, and the write of a row, keep the order a set of pairs.
LEMMA OrderType ==
    ASSUME TypeOK, NEW w \in Workers, NEW u \in Users, NEW s \in Status
    PROVE  /\ Without({w}) \subseteq (Users \cup Workers) \X (Users \cup Workers)
           /\ Restamped(w, u, s) \subseteq (Users \cup Workers) \X (Users \cup Workers)
           /\ earlier \cup (Holders \X {w})
                \subseteq (Users \cup Workers) \X (Users \cup Workers)
<1>1. \A S : Without(S) \subseteq (Users \cup Workers) \X (Users \cup Workers)
  BY DEF TypeOK, Without
<1>2. Holders \subseteq Users \cup Workers
  BY DEF Holders, Waitlisted
<1>3. Restamped(w, u, s) \subseteq (Users \cup Workers) \X (Users \cup Workers)
  BY <1>1, <1>2 DEF Restamped
<1> QED
  BY <1>1, <1>2, <1>3 DEF TypeOK

LEMMA TypedInit == Init => Typed
<1> SUFFICES ASSUME Init PROVE Typed
  OBVIOUS
<1>1. TypeOK
  BY BlankType, FlagsAssumption, LimitsAssumption
  DEF Init, TypeOK, Course, Invite, Status, Event, Label, Enrolling, Leaving
<1>2. WorkersPrepared
  BY DEF Init, WorkersPrepared, Prepared
<1> QED
  BY <1>1, <1>2 DEF Typed

\* Every way a worker goes on: it holds a well-typed record it is prepared by.
LEMMA HoldTyped ==
    ASSUME Typed, NEW w \in Workers, NEW label \in Label, NEW l \in Local,
           Hold(w, label, l),
           label \notin {"idle", "settings"} => l.user \in Users,
           label \in {"invite", "uses"} => l.invite \in Invites,
           label \in {"invite", "row", "seat", "room", "settings"} =>
               l.capacity \in Capacities,
           label \in {"seat", "room"} => l.capacity # Unlimited,
           label = "settings" => l.open \in OpenFlags /\ l.waitlist \in WaitlistFlags
    PROVE  /\ pc' \in [Workers -> Label]
           /\ loc' \in [Workers -> Local]
           /\ WorkersPrepared'
<1>1. pc' \in [Workers -> Label] /\ loc' \in [Workers -> Local]
  BY DEF Hold, Typed, TypeOK
<1>2. ASSUME NEW x \in Workers PROVE Prepared(x)'
  <2>1. CASE x = w
    BY <2>1 DEF Hold, Typed, TypeOK, Prepared
  <2>2. CASE x # w
    <3>1. pc'[x] = pc[x] /\ loc'[x] = loc[x]
      BY <2>2 DEF Hold, Typed, TypeOK
    <3> QED
      BY <3>1 DEF Typed, WorkersPrepared, Prepared
  <2> QED
    BY <2>1, <2>2
<1> QED
  BY <1>1, <1>2 DEF WorkersPrepared

\* A worker that returns, or goes to a statement it is already prepared for.
LEMMA MoveTyped ==
    ASSUME Typed, NEW w \in Workers
    PROVE  /\ Finish(w) => /\ pc' \in [Workers -> Label]
                           /\ loc' \in [Workers -> Local]
                           /\ WorkersPrepared'
           /\ \A label \in Label :
                 /\ Goto(w, label)
                 /\ label \in {"row", "uses", "event", "left", "course", "next",
                               "granted"}
                 /\ loc[w].user \in Users
                 /\ label = "uses" => loc[w].invite \in Invites
                 /\ label = "row" => loc[w].capacity \in Capacities
                 => /\ pc' \in [Workers -> Label]
                    /\ loc' \in [Workers -> Local]
                    /\ WorkersPrepared'
<1>1. ASSUME Finish(w)
      PROVE  pc' \in [Workers -> Label] /\ loc' \in [Workers -> Local] /\ WorkersPrepared'
  <2>1. Hold(w, "idle", Blank) /\ "idle" \in Label
    BY <1>1 DEF Finish, Hold, Label
  <2> QED
    BY <2>1, HoldTyped, BlankType
<1>2. ASSUME NEW label \in Label,
             Goto(w, label),
             label \in {"row", "uses", "event", "left", "course", "next", "granted"},
             loc[w].user \in Users,
             label = "uses" => loc[w].invite \in Invites,
             label = "row" => loc[w].capacity \in Capacities
      PROVE  pc' \in [Workers -> Label] /\ loc' \in [Workers -> Local] /\ WorkersPrepared'
  <2>1. Hold(w, label, loc[w]) /\ loc[w] \in Local
    BY <1>2 DEF Goto, Hold, Typed, TypeOK
  <2> QED
    BY <1>2, <2>1, HoldTyped
<1> QED
  BY <1>1, <1>2

\* Each action preserves Typed: how the worker goes on, then what it writes.
LEMMA TypedNext == Typed /\ [Next]_vars => Typed'
<1> SUFFICES ASSUME Typed, [Next]_vars PROVE Typed'
  OBVIOUS
<1> DEFINE WorkersTyped == /\ pc' \in [Workers -> Label]
                          /\ loc' \in [Workers -> Local]
                          /\ WorkersPrepared'
           RowsTyped == /\ course' \in Course
                        /\ status' \in [Users -> Status]
                        /\ lastEvent' \in [Users -> Event]
                        /\ invite' \in [Invites -> Invite]
                        /\ earlier' \subseteq (Users \cup Workers) \X (Users \cup Workers)
<1>0. ASSUME WorkersTyped, RowsTyped PROVE Typed'
  BY <1>0 DEF Typed, TypeOK
<1>. USE DEF Label, Enrolling, Leaving
<1>1. ASSUME NEW w \in Workers, Begin(w) PROVE Typed'
  <2>1. CASE \E u \in Users, i \in Invites \cup {NoInvite} : BeginEnroll(w, u, i)
    <3>1. PICK u \in Users, i \in Invites \cup {NoInvite} : BeginEnroll(w, u, i)
      BY <2>1
    <3> DEFINE l == [Blank EXCEPT !.user = u, !.invite = i,
                                  !.capacity = course.capacity,
                                  !.waitlist = course.waitlist]
    <3>2. l \in Local /\ l.user = u /\ l.invite = i /\ l.capacity \in Capacities
      BY BlankType, FlagsAssumption DEF Typed, TypeOK, Course, Local, Blank
    <3>3. WorkersTyped
      <4> HIDE DEF l
      <4>1. CASE i = NoInvite
        <5>1. Hold(w, "row", l)
          BY <3>1, <4>1 DEF BeginEnroll, l
        <5> QED
          BY <5>1, <3>2, HoldTyped
      <4>2. CASE i # NoInvite
        <5>1. Hold(w, "invite", l)
          BY <3>1, <4>2 DEF BeginEnroll, l
        <5> QED
          BY <4>2, <5>1, <3>2, HoldTyped
      <4> QED
        BY <4>1, <4>2
    <3>4. RowsTyped
      BY <3>1 DEF BeginEnroll, rows, Typed, TypeOK
    <3> QED
      BY <1>0, <3>3, <3>4
  <2>2. CASE \E u \in Users : BeginEnrollFromPayment(w, u)
    <3>1. PICK u \in Users : BeginEnrollFromPayment(w, u)
      BY <2>2
    <3> DEFINE l == [Blank EXCEPT !.user = u, !.capacity = course.capacity,
                                  !.waitlist = course.waitlist]
    <3>2. l \in Local /\ l.user = u /\ l.capacity \in Capacities
      BY BlankType, FlagsAssumption DEF Typed, TypeOK, Course, Local, Blank
    <3>3. Hold(w, "row", l)
      BY <3>1 DEF BeginEnrollFromPayment
    <3>4. WorkersTyped
      <4> HIDE DEF l
      <4> QED
        BY <3>2, <3>3, HoldTyped
    <3>5. RowsTyped
      BY <3>1 DEF BeginEnrollFromPayment, rows, Typed, TypeOK
    <3> QED
      BY <1>0, <3>4, <3>5
  <2>3. CASE \E u \in Users : BeginUnenroll(w, u)
    <3>1. PICK u \in Users : BeginUnenroll(w, u)
      BY <2>3
    <3> DEFINE l == [Blank EXCEPT !.user = u, !.row = status[u]]
    <3>2. l \in Local /\ l.user = u
      BY BlankType DEF Typed, TypeOK, Local, Blank
    <3>3. Hold(w, "cancel", l)
      BY <3>1 DEF BeginUnenroll
    <3>4. WorkersTyped
      <4> HIDE DEF l
      <4> QED
        BY <3>2, <3>3, HoldTyped
    <3>5. RowsTyped
      BY <3>1 DEF BeginUnenroll, rows, Typed, TypeOK
    <3> QED
      BY <1>0, <3>4, <3>5
  <2>4. CASE \E p \in Patches, c \in Capacities, o \in OpenFlags, n \in WaitlistFlags :
               BeginSettings(w, p, c, o, n)
    <3>1. PICK p \in Patches, c \in Capacities, o \in OpenFlags, n \in WaitlistFlags :
               BeginSettings(w, p, c, o, n)
      BY <2>4
    <3> DEFINE l == [Blank EXCEPT
                !.omitted  = p,
                !.capacity = Merged(p, "capacity", course.capacity, c),
                !.open     = Merged(p, "open", course.open, o),
                !.waitlist = Merged(p, "waitlist", course.waitlist, n)]
    <3>2. /\ l \in Local
          /\ l.capacity \in Capacities
          /\ l.open \in OpenFlags
          /\ l.waitlist \in WaitlistFlags
      <4>1. course \in Course
        BY DEF Typed, TypeOK
      <4>2. p \in SUBSET Columns
        BY FlagsAssumption
      <4> QED
        BY <4>1, <4>2, BlankType, FlagsAssumption DEF Merged, Course, Local, Blank
    <3>3. Hold(w, "settings", l)
      BY <3>1 DEF BeginSettings
    <3>4. WorkersTyped
      <4> HIDE DEF l
      <4> QED
        BY <3>2, <3>3, HoldTyped
    <3>5. RowsTyped
      BY <3>1 DEF BeginSettings, rows, Typed, TypeOK
    <3> QED
      BY <1>0, <3>4, <3>5
  <2> QED
    BY <1>1, <2>1, <2>2, <2>3, <2>4 DEF Begin
<1>2. ASSUME NEW w \in Workers, Step(w) PROVE Typed'
  <2> DEFINE u == loc[w].user
  <2>0. /\ loc[w] \in Local
        /\ pc[w] \notin {"idle", "settings"} => u \in Users
        /\ Prepared(w)
    BY DEF Typed, TypeOK, WorkersPrepared, Prepared
  <2>1. CASE ReadInvite(w)
    <3>1. WorkersTyped
      BY <2>0, <2>1, MoveTyped DEF ReadInvite, Prepared
    <3>2. RowsTyped
      BY <2>1 DEF ReadInvite, rows, Typed, TypeOK
    <3> QED
      BY <1>0, <3>1, <3>2
  <2>2. CASE ReadRow(w)
    <3>1. u \in Users /\ status[u] \in Status
      BY <2>0, <2>2 DEF ReadRow, Typed, TypeOK
    <3>2. WorkersTyped
      <4>1. CASE Finish(w)
        BY <4>1, MoveTyped
      <4>2. CASE /\ loc[w].capacity = Unlimited
                 /\ Hold(w, "write", [loc[w] EXCEPT !.row = status[u], !.seat = "active"])
        <5>1. /\ [loc[w] EXCEPT !.row = status[u], !.seat = "active"] \in Local
              /\ [loc[w] EXCEPT !.row = status[u], !.seat = "active"].user = u
          BY <2>0, <3>1 DEF Local, Status
        <5> QED
          BY <3>1, <4>2, <5>1, HoldTyped
      <4>3. CASE /\ loc[w].capacity # Unlimited
                 /\ Hold(w, "seat", [loc[w] EXCEPT !.row = status[u]])
        <5>1. /\ [loc[w] EXCEPT !.row = status[u]] \in Local
              /\ [loc[w] EXCEPT !.row = status[u]].user = u
              /\ [loc[w] EXCEPT !.row = status[u]].capacity = loc[w].capacity
              /\ loc[w].capacity \in Capacities
          BY <2>0, <2>2, <3>1 DEF Local, Status, ReadRow, Prepared
        <5> QED
          BY <3>1, <4>3, <5>1, HoldTyped
      <4> QED
        BY <2>2, <4>1, <4>2, <4>3 DEF ReadRow
    <3>3. RowsTyped
      BY <2>2, <3>1, OrderType DEF ReadRow, Typed, TypeOK
    <3> QED
      BY <1>0, <3>2, <3>3
  <2>3. CASE DecideSeat(w)
    <3>1. WorkersTyped
      <4>1. CASE Finish(w)
        BY <4>1, MoveTyped
      <4>2. ASSUME NEW s \in {"active", "waitlisted"},
                   Hold(w, "write", [loc[w] EXCEPT !.seat = s])
            PROVE  WorkersTyped
        <5>1. /\ [loc[w] EXCEPT !.seat = s] \in Local
              /\ [loc[w] EXCEPT !.seat = s].user = u
              /\ u \in Users
          BY <2>0, <2>3 DEF Local, Status, DecideSeat
        <5> QED
          BY <4>2, <5>1, HoldTyped
      <4> QED
        BY <2>3, <4>1, <4>2 DEF DecideSeat
    <3>2. RowsTyped
      <4>1. u \in Users
        BY <2>0, <2>3 DEF DecideSeat
      <4> QED
        BY <2>3, <4>1, OrderType DEF DecideSeat, Typed, TypeOK
    <3> QED
      BY <1>0, <3>1, <3>2
  <2>4. CASE WriteSeat(w)
    <3>1. u \in Users /\ loc[w].seat \in Status
      BY <2>0, <2>4 DEF WriteSeat, Local
    <3>2. loc[w].invite # NoInvite => loc[w].invite \in Invites
      BY <2>0 DEF Local
    <3>3. WorkersTyped
      BY <2>0, <2>4, <3>1, <3>2, MoveTyped DEF WriteSeat
    <3>4. RowsTyped
      BY <2>4, <3>1, OrderType DEF WriteSeat, Typed, TypeOK
    <3> QED
      BY <1>0, <3>3, <3>4
  <2>5. CASE CountUse(w)
    <3>1. WorkersTyped
      BY <2>0, <2>5, MoveTyped DEF CountUse
    <3>2. invite' \in [Invites -> Invite]
      BY <2>0, <2>5 DEF CountUse, Prepared, Typed, TypeOK, Invite
    <3>3. RowsTyped
      BY <2>5, <3>2 DEF CountUse, Typed, TypeOK
    <3> QED
      BY <1>0, <3>1, <3>3
  <2>6. CASE EmitSeat(w) \/ EmitActivated(w)
    <3>1. WorkersTyped
      BY <2>6, MoveTyped DEF EmitSeat, EmitActivated
    <3>2. RowsTyped
      BY <2>6 DEF EmitSeat, EmitActivated, SeatEvent, Typed, TypeOK, Event
    <3> QED
      BY <1>0, <3>1, <3>2
  <2>7. CASE CancelSeat(w)
    <3>1. u \in Users /\ "cancelled" \in Status
      BY <2>0, <2>7 DEF CancelSeat, Status
    <3>2. WorkersTyped
      BY <2>7, <3>1, MoveTyped DEF CancelSeat
    <3>3. RowsTyped
      BY <2>7, <3>1, OrderType DEF CancelSeat, Typed, TypeOK
    <3> QED
      BY <1>0, <3>2, <3>3
  <2>8. CASE EmitCancelled(w)
    <3>1. WorkersTyped
      BY <2>0, <2>8, MoveTyped DEF EmitCancelled
    <3>2. RowsTyped
      BY <2>8 DEF EmitCancelled, Typed, TypeOK, Event
    <3> QED
      BY <1>0, <3>1, <3>2
  <2>9. CASE ReadCourse(w)
    <3>1. WorkersTyped
      <4>1. CASE Finish(w)
        BY <4>1, MoveTyped
      <4>2. CASE Hold(w, IF course.capacity = Unlimited THEN "next" ELSE "room",
                      [loc[w] EXCEPT !.capacity = course.capacity])
        <5>1. /\ [loc[w] EXCEPT !.capacity = course.capacity] \in Local
              /\ [loc[w] EXCEPT !.capacity = course.capacity].user = u
              /\ [loc[w] EXCEPT !.capacity = course.capacity].capacity = course.capacity
              /\ course.capacity \in Capacities
              /\ u \in Users
          BY <2>0, <2>9 DEF Local, Typed, TypeOK, Course, ReadCourse
        <5> QED
          BY <4>2, <5>1, HoldTyped
      <4> QED
        BY <2>9, <4>1, <4>2 DEF ReadCourse
    <3>2. RowsTyped
      BY <2>9 DEF ReadCourse, rows, Typed, TypeOK
    <3> QED
      BY <1>0, <3>1, <3>2
  <2>10. CASE CheckRoom(w)
    <3>1. WorkersTyped
      BY <2>0, <2>10, MoveTyped DEF CheckRoom
    <3>2. RowsTyped
      BY <2>10 DEF CheckRoom, rows, Typed, TypeOK
    <3> QED
      BY <1>0, <3>1, <3>2
  <2>11. CASE ReadNext(w)
    <3>1. WorkersTyped
      <4>1. CASE Finish(w)
        BY <4>1, MoveTyped
      <4>2. ASSUME NEW v \in Oldest, Hold(w, "grant", [loc[w] EXCEPT !.user = v])
            PROVE  WorkersTyped
        <5>1. /\ [loc[w] EXCEPT !.user = v] \in Local
              /\ [loc[w] EXCEPT !.user = v].user = v
              /\ v \in Users
          BY <2>0 DEF Local, Oldest, Waitlisted
        <5> QED
          BY <4>2, <5>1, HoldTyped
      <4> QED
        BY <2>11, <4>1, <4>2 DEF ReadNext
    <3>2. RowsTyped
      BY <2>11 DEF ReadNext, rows, Typed, TypeOK
    <3> QED
      BY <1>0, <3>1, <3>2
  <2>12. CASE GrantSeat(w)
    <3>1. u \in Users /\ "active" \in Status
      BY <2>0, <2>12 DEF GrantSeat, Status
    <3>2. WorkersTyped
      BY <2>12, <3>1, MoveTyped DEF GrantSeat
    <3>3. RowsTyped
      BY <2>12, <3>1, OrderType DEF GrantSeat, Typed, TypeOK
    <3> QED
      BY <1>0, <3>2, <3>3
  <2>13. CASE WriteSettings(w)
    <3>1. WorkersTyped
      BY <2>13, MoveTyped DEF WriteSettings
    <3>2. course' \in Course
      BY <2>0, <2>13 DEF WriteSettings, Prepared, Typed, TypeOK, Course
    <3>3. RowsTyped
      BY <2>13, <3>2 DEF WriteSettings, Typed, TypeOK
    <3> QED
      BY <1>0, <3>1, <3>3
  <2> QED
    BY <1>2, <2>1, <2>2, <2>3, <2>4, <2>5, <2>6, <2>7, <2>8, <2>9, <2>10, <2>11,
       <2>12, <2>13 DEF Step
<1>3. ASSUME NEW w \in Workers, Abort(w) PROVE Typed'
  <2>1. WorkersTyped
    BY <1>3, MoveTyped DEF Abort
  <2>2. RowsTyped
    BY <1>3 DEF Abort, Typed, TypeOK, Without
  <2> QED
    BY <1>0, <2>1, <2>2
<1>4. ASSUME Teacher PROVE Typed'
  <2>1. pc' = pc /\ loc' = loc
    BY <1>4 DEF Teacher, CreateInviteCode, ExpireInviteCode, RevokeInviteCode, ChangeCourse
  <2>2. WorkersTyped
    BY <2>1 DEF Typed, TypeOK, WorkersPrepared, Prepared
  <2>3. course' \in Course
    <3>1. ASSUME NEW s \in CourseStatuses, NEW f \in FreeFlags, ChangeCourse(s, f)
          PROVE  course' \in Course
      <4>1. course \in Course /\ course' = [course EXCEPT !.status = s, !.free = f]
        BY <3>1 DEF ChangeCourse, Typed, TypeOK
      <4> QED
        BY <4>1 DEF Course
    <3>2. CASE UNCHANGED course
      BY <3>2 DEF Typed, TypeOK
    <3> QED
      BY <1>4, <3>1, <3>2
      DEF Teacher, CreateInviteCode, ExpireInviteCode, RevokeInviteCode
  <2>4. invite' \in [Invites -> Invite]
    <3>1. ASSUME NEW i \in Invites, NEW n \in UseLimits, CreateInviteCode(i, n)
          PROVE  invite' \in [Invites -> Invite]
      BY <3>1 DEF CreateInviteCode, Typed, TypeOK, Invite
    <3>2. ASSUME NEW i \in Invites, ExpireInviteCode(i)
          PROVE  invite' \in [Invites -> Invite]
      BY <3>2 DEF ExpireInviteCode, Typed, TypeOK, Invite
    <3>3. ASSUME NEW i \in Invites, RevokeInviteCode(i)
          PROVE  invite' \in [Invites -> Invite]
      BY <3>3 DEF RevokeInviteCode, Typed, TypeOK, Invite
    <3>4. CASE UNCHANGED invite
      BY <3>4 DEF Typed, TypeOK
    <3> QED
      BY <1>4, <3>1, <3>2, <3>3, <3>4 DEF Teacher, ChangeCourse
  <2>5. RowsTyped
    BY <1>4, <2>3, <2>4 DEF Teacher, CreateInviteCode, ExpireInviteCode,
                            RevokeInviteCode, ChangeCourse, Typed, TypeOK
  <2> QED
    BY <1>0, <2>2, <2>5
<1>5. CASE UNCHANGED vars
  BY <1>5 DEF vars, Typed, TypeOK, WorkersPrepared, Prepared
<1> QED
  BY <1>1, <1>2, <1>3, <1>4, <1>5 DEF Next

\* Every row, timestamp and worker record keeps its type, and a worker always
\* holds what its next statement needs.
THEOREM TypeCorrect == Spec => [](TypeOK /\ WorkersPrepared)
<1>1. Init => Typed
  BY TypedInit
<1>2. Typed /\ [Next]_vars => Typed'
  BY TypedNext
<1>3. Typed => TypeOK /\ WorkersPrepared
  BY DEF Typed
<1> QED
  BY <1>1, <1>2, <1>3, PTL DEF Spec

-------------------------------------------------------------------------------
(* How far a course can be overbooked, a code overused                     *)

\* Learners, workers and their subsets can be counted.
LEMMA Countable ==
    /\ \A S \in SUBSET Users : IsFiniteSet(S) /\ Cardinality(S) \in Nat
    /\ \A S \in SUBSET Workers :
          /\ IsFiniteSet(S)
          /\ Cardinality(S) \in Nat
          /\ Cardinality(S) <= Cardinality(Workers)
    /\ Cardinality(Workers) \in Nat
BY WorkersAssumption, UsersAssumption, FS_Subset, FS_CardinalityType

\* A smaller set is not larger, and one element more or less counts for one.
LEMMA Counting ==
    ASSUME NEW S, IsFiniteSet(S), NEW T, T \subseteq S
    PROVE  /\ Cardinality(T) <= Cardinality(S)
           /\ \A x : x \in S /\ x \notin T => Cardinality(T) <= Cardinality(S) - 1
<1>1. Cardinality(T) <= Cardinality(S)
  BY FS_Subset
<1>2. ASSUME NEW x, x \in S, x \notin T
      PROVE  Cardinality(T) <= Cardinality(S) - 1
  <2>1. T \subseteq S \ {x}
    BY <1>2
  <2>2. IsFiniteSet(S \ {x}) /\ Cardinality(S \ {x}) = Cardinality(S) - 1
    BY <1>2, FS_RemoveElement
  <2> QED
    BY <2>1, <2>2, FS_Subset
<1> QED
  BY <1>1, <1>2

Overbooked(A, G) == Cardinality(A) + Cardinality(G) < CapacityLimit + Cardinality(Workers)

\* A worker that counted fewer active seats than there are is granted one: the
\* other workers can hold one grant each at most.
LEMMA GrantKeepsBound ==
    ASSUME NEW A \in SUBSET Users, NEW G \in SUBSET Workers,
           NEW c \in 1 .. CapacityLimit, Cardinality(A) < c
    PROVE  Overbooked(A, G)
<1>1. Cardinality(A) \in Nat /\ Cardinality(G) \in Nat /\ Cardinality(Workers) \in Nat
  BY Countable
<1>2. Cardinality(G) <= Cardinality(Workers)
  BY Countable
<1> QED
  BY <1>1, <1>2, LimitsAssumption DEF Overbooked

\* Seats and grants may only be given up.
LEMMA QuietKeepsBound ==
    ASSUME NEW A \in SUBSET Users, NEW G \in SUBSET Workers, Overbooked(A, G),
           NEW B, B \subseteq A, NEW H, H \subseteq G
    PROVE  Overbooked(B, H)
<1>1. /\ IsFiniteSet(A) /\ IsFiniteSet(G)
      /\ Cardinality(A) \in Nat /\ Cardinality(G) \in Nat
      /\ Cardinality(B) \in Nat /\ Cardinality(H) \in Nat
      /\ Cardinality(Workers) \in Nat
  <2>1. B \in SUBSET Users /\ H \in SUBSET Workers
    OBVIOUS
  <2> QED
    BY <2>1, Countable
<1>2. Cardinality(B) <= Cardinality(A) /\ Cardinality(H) <= Cardinality(G)
  BY <1>1, Counting
<1> QED
  BY <1>1, <1>2, LimitsAssumption DEF Overbooked

\* A grant that is written becomes at most one active seat.
LEMMA WriteKeepsBound ==
    ASSUME NEW A \in SUBSET Users, NEW G \in SUBSET Workers, Overbooked(A, G),
           NEW u \in Users, NEW w \in G,
           NEW B, B \subseteq A \cup {u}, NEW H, H \subseteq G \ {w}
    PROVE  Overbooked(B, H)
<1>1. /\ IsFiniteSet(A) /\ IsFiniteSet(G) /\ IsFiniteSet(A \cup {u})
      /\ Cardinality(A) \in Nat /\ Cardinality(G) \in Nat
      /\ Cardinality(B) \in Nat /\ Cardinality(H) \in Nat
      /\ Cardinality(A \cup {u}) \in Nat /\ Cardinality(Workers) \in Nat
  <2>1. B \in SUBSET Users /\ H \in SUBSET Workers /\ A \cup {u} \in SUBSET Users
    OBVIOUS
  <2> QED
    BY <2>1, Countable
<1>2. Cardinality(A \cup {u}) <= Cardinality(A) + 1
  BY <1>1, FS_AddElement
<1>3. Cardinality(B) <= Cardinality(A \cup {u})
  BY <1>1, Counting
<1>4. Cardinality(H) <= Cardinality(G) - 1
  BY <1>1, Counting
<1> QED
  BY <1>1, <1>2, <1>3, <1>4, LimitsAssumption DEF Overbooked

\* A worker's step changes no other worker's grant, and takes its own away
\* unless it leads to a write that fills a seat.
LEMMA GrantedMove ==
    ASSUME Typed, NEW w \in Workers, NEW label, NEW l, Hold(w, label, l)
    PROVE  /\ Granted' \ {w} \subseteq Granted
           /\ ~(label = "write" /\ l.seat = "active") /\ label \notin {"next", "grant"}
                => Granted' \subseteq Granted \ {w}
<1>1. pc'[w] = label /\ loc'[w] = l
  BY DEF Hold, Typed, TypeOK
<1>2. \A x \in Workers \ {w} : pc'[x] = pc[x] /\ loc'[x] = loc[x]
  BY DEF Hold, Typed, TypeOK
<1> QED
  BY <1>1, <1>2 DEF Granted

\* Going on with the record it has, and returning, are such steps.
LEMMA MovesAreHolds ==
    ASSUME Typed, NEW w \in Workers
    PROVE  /\ Finish(w) => Hold(w, "idle", Blank)
           /\ \A label : Goto(w, label) => Hold(w, label, loc[w])
BY DEF Finish, Goto, Hold, Typed, TypeOK

\* Each action keeps the bound: it reads, it counts and is granted a seat, it
\* writes the seat it was granted, or it gives one up.
LEMMA BoundedNext ==
    ASSUME Typed, [Next]_vars, Unlimited \notin Capacities, Overbooked(Active, Granted)
    PROVE  Overbooked(Active', Granted')
<1> DEFINE Quiet == Active' \subseteq Active /\ Granted' \subseteq Granted
           Written == \E u \in Users, w \in Granted :
                         Active' \subseteq Active \cup {u} /\ Granted' \subseteq Granted \ {w}
           Admitted == Active' = Active /\ \E c \in 1 .. CapacityLimit : Cardinality(Active) < c
<1>1. /\ Active \in SUBSET Users /\ Granted \in SUBSET Workers
      /\ Active' \in SUBSET Users /\ Granted' \in SUBSET Workers
  BY DEF Active, Granted
<1>2. Quiet => Overbooked(Active', Granted')
  BY <1>1, QuietKeepsBound
<1>3. Written => Overbooked(Active', Granted')
  BY <1>1, WriteKeepsBound
<1>4. Admitted => Overbooked(Active', Granted')
  BY <1>1, GrantKeepsBound
<1>5. Capacities \subseteq 1 .. CapacityLimit
  BY LimitsAssumption
<1>6. ASSUME UNCHANGED status PROVE Active' = Active
  BY <1>6 DEF Active
<1>7. ASSUME NEW w \in Workers, Finish(w) PROVE Granted' \subseteq Granted \ {w}
  BY <1>7, MovesAreHolds, GrantedMove
<1>8. ASSUME NEW w \in Workers, NEW label, Goto(w, label),
             label \notin {"write", "next", "grant"}
      PROVE  Granted' \subseteq Granted \ {w}
  BY <1>8, MovesAreHolds, GrantedMove
<1>9. ASSUME NEW w \in Workers, NEW label, NEW l, Hold(w, label, l),
             ~(label = "write" /\ l.seat = "active"), label \notin {"next", "grant"}
      PROVE  Granted' \subseteq Granted \ {w}
  BY <1>9, GrantedMove
<1>10. ASSUME NEW w \in Workers, Begin(w) PROVE Quiet
  <2>1. UNCHANGED status
    BY <1>10 DEF Begin, BeginEnroll, BeginEnrollFromPayment, BeginUnenroll, BeginSettings, rows
  <2>2. \E label, l : Hold(w, label, l) /\ label \notin {"write", "next", "grant"}
    <3>1. CASE \E u \in Users, i \in Invites \cup {NoInvite} : BeginEnroll(w, u, i)
      BY <3>1 DEF BeginEnroll
    <3>2. CASE \E u \in Users : BeginEnrollFromPayment(w, u)
      BY <3>2 DEF BeginEnrollFromPayment
    <3>3. CASE \E u \in Users : BeginUnenroll(w, u)
      BY <3>3 DEF BeginUnenroll
    <3>4. CASE \E p \in Patches, c \in Capacities, o \in OpenFlags, l \in WaitlistFlags :
                  BeginSettings(w, p, c, o, l)
      BY <3>4 DEF BeginSettings
    <3> QED
      BY <1>10, <3>1, <3>2, <3>3, <3>4 DEF Begin
  <2> QED
    BY <2>1, <2>2, <1>6, <1>9
<1>11. ASSUME NEW w \in Workers, Step(w) PROVE Quiet \/ Written \/ Admitted
  <2>0. loc[w] \in Local /\ Prepared(w)
    BY DEF Typed, TypeOK, WorkersPrepared
  <2>1. CASE ReadInvite(w)
    BY <2>1, <1>6, <1>7, <1>8 DEF ReadInvite, rows
  <2>2. CASE ReadRow(w)
    <3>1. loc[w].capacity # Unlimited
      BY <2>0, <2>2 DEF ReadRow, Prepared
    <3>2. Finish(w) \/ Hold(w, "seat", [loc[w] EXCEPT !.row = status[loc[w].user]])
      BY <2>2, <3>1 DEF ReadRow
    <3>3. Granted' \subseteq Granted \ {w}
      BY <3>2, <1>7, <1>9
    <3> QED
      BY <2>2, <3>3, <1>6 DEF ReadRow
  <2>3. CASE DecideSeat(w)
    <3>1. Active' = Active
      BY <2>3, <1>6 DEF DecideSeat
    <3>2. loc[w].capacity \in 1 .. CapacityLimit
      BY <2>0, <2>3, <1>5 DEF DecideSeat, Prepared
    <3>3. CASE Cardinality(Active) < loc[w].capacity
      BY <3>1, <3>2, <3>3
    <3>4. CASE Hold(w, "write", [loc[w] EXCEPT !.seat = "waitlisted"])
      <4>1. PICK l : Hold(w, "write", l) /\ l.seat # "active"
        BY <2>0, <3>4 DEF Local
      <4>2. Granted' \subseteq Granted \ {w}
        BY <4>1, <1>9
      <4> QED
        BY <3>1, <4>2
    <3>5. CASE Finish(w)
      BY <3>1, <3>5, <1>7
    <3> QED
      BY <2>3, <3>3, <3>4, <3>5 DEF DecideSeat, Room
  <2>4. CASE WriteSeat(w)
    <3>1. CASE UNCHANGED status /\ Finish(w)
      BY <3>1, <1>6, <1>7
    <3>2. CASE /\ status' = [status EXCEPT ![loc[w].user] = loc[w].seat]
               /\ Goto(w, IF loc[w].invite = NoInvite THEN "event" ELSE "uses")
      <4>1. Granted' \subseteq Granted \ {w}
        BY <3>2, <1>8
      <4>2. loc[w].user \in Users
        BY <2>0, <2>4 DEF WriteSeat, Prepared
      <4>3. CASE loc[w].seat = "active"
        <5>1. w \in Granted
          BY <2>4, <4>3 DEF WriteSeat, Granted
        <5>2. Active' \subseteq Active \cup {loc[w].user}
          BY <3>2, <4>2 DEF Active, Typed, TypeOK
        <5> QED
          BY <4>1, <4>2, <5>1, <5>2
      <4>4. CASE loc[w].seat # "active"
        <5>1. Active' \subseteq Active
          BY <3>2, <4>2, <4>4 DEF Active, Typed, TypeOK
        <5> QED
          BY <4>1, <5>1
      <4> QED
        BY <4>3, <4>4
    <3> QED
      BY <2>4, <3>1, <3>2 DEF WriteSeat
  <2>5. CASE CountUse(w) \/ EmitSeat(w) \/ EmitActivated(w) \/ EmitCancelled(w)
    <3>1. Active' = Active
      BY <2>5, <1>6 DEF CountUse, EmitSeat, EmitActivated, EmitCancelled
    <3>2. Finish(w) \/ Goto(w, "event") \/ Goto(w, "course")
      BY <2>5 DEF CountUse, EmitSeat, EmitActivated, EmitCancelled
    <3>3. Granted' \subseteq Granted \ {w}
      BY <3>2, <1>7, <1>8
    <3> QED
      BY <3>1, <3>3
  <2>6. CASE CancelSeat(w)
    <3>1. Active' \subseteq Active
      BY <2>6 DEF CancelSeat, Active, Typed, TypeOK
    <3> QED
      BY <2>6, <3>1, <1>8 DEF CancelSeat
  <2>7. CASE ReadCourse(w)
    <3>1. course.capacity # Unlimited
      BY DEF Typed, TypeOK, Course
    <3>2. Granted' \subseteq Granted \ {w}
      BY <2>7, <3>1, <1>7, <1>9 DEF ReadCourse
    <3> QED
      BY <2>7, <3>2, <1>6 DEF ReadCourse, rows
  <2>8. CASE CheckRoom(w)
    <3>1. Active' = Active
      BY <2>8, <1>6 DEF CheckRoom, rows
    <3>2. loc[w].capacity \in 1 .. CapacityLimit
      BY <2>0, <2>8, <1>5 DEF CheckRoom, Prepared
    <3> QED
      BY <2>8, <3>1, <3>2, <1>7 DEF CheckRoom, Room
  <2>9. CASE ReadNext(w)
    <3>1. Active' = Active
      BY <2>9, <1>6 DEF ReadNext, rows
    <3>2. w \in Granted
      BY <2>9 DEF ReadNext, Granted
    <3>3. CASE Finish(w)
      BY <3>1, <3>3, <1>7
    <3>4. CASE \E u \in Oldest : Hold(w, "grant", [loc[w] EXCEPT !.user = u])
      <4>1. Granted' \ {w} \subseteq Granted
        BY <3>4, GrantedMove
      <4> QED
        BY <3>1, <3>2, <4>1
    <3> QED
      BY <2>9, <3>3, <3>4 DEF ReadNext
  <2>10. CASE GrantSeat(w)
    <3>1. loc[w].user \in Users
      BY <2>0, <2>10 DEF GrantSeat, Prepared
    <3>2. w \in Granted
      BY <2>10 DEF GrantSeat, Granted
    <3>3. Active' \subseteq Active \cup {loc[w].user}
      BY <2>10, <3>1 DEF GrantSeat, Active, Typed, TypeOK
    <3>4. Granted' \subseteq Granted \ {w}
      BY <2>10, <1>8 DEF GrantSeat
    <3> QED
      BY <3>1, <3>2, <3>3, <3>4
  <2>11. CASE WriteSettings(w)
    BY <2>11, <1>6, <1>7 DEF WriteSettings
  <2> QED
    BY <1>11, <2>1, <2>2, <2>3, <2>4, <2>5, <2>6, <2>7, <2>8, <2>9, <2>10, <2>11 DEF Step
<1>12. ASSUME NEW w \in Workers, Abort(w) PROVE Quiet
  BY <1>12, <1>6, <1>7 DEF Abort
<1>13. CASE Teacher \/ UNCHANGED vars
  <2>1. UNCHANGED <<status, pc, loc>>
    BY <1>13 DEF vars, Teacher, CreateInviteCode, ExpireInviteCode, RevokeInviteCode, ChangeCourse
  <2>2. Quiet
    BY <2>1 DEF Active, Granted
  <2> QED
    BY <2>2, <1>2
<1> QED
  BY <1>2, <1>3, <1>4, <1>10, <1>11, <1>12, <1>13 DEF Next

\* The course is overbooked by at most the other requests in flight, for every
\* interleaving, failure and change of settings.
THEOREM OverbookingBounded == Spec => []OverbookingBound
<1> DEFINE Inv == Typed /\ OverbookingBound
<1>1. Init => Inv
  <2> SUFFICES ASSUME Init, Unlimited \notin Capacities PROVE Overbooked(Active, Granted)
    BY TypedInit DEF OverbookingBound, Overbooked
  <2>1. Active = {} /\ Granted = {}
    BY DEF Init, Active, Granted
  <2>2. CapacityLimit \in Nat \ {0}
    <3>1. \E c \in Capacities : TRUE
      BY DEF Init
    <3> QED
      BY <3>1, LimitsAssumption
  <2> QED
    BY <2>1, <2>2, Countable, FS_EmptySet DEF Overbooked
<1>2. Inv /\ [Next]_vars => Inv'
  BY TypedNext, BoundedNext DEF OverbookingBound, Overbooked
<1> QED
  BY <1>1, <1>2, PTL DEF Spec

\* With one request at a time and a fixed capacity, the capacity is never
\* exceeded, whichever statement a request dies after.
THEOREM SerialCapacity ==
    ASSUME Cardinality(Workers) = 1, Capacities = {CapacityLimit}
    PROVE  Spec => []CapacityRespected
<1>1. TypeOK /\ OverbookingBound => CapacityRespected
  <2> SUFFICES ASSUME TypeOK, OverbookingBound PROVE CapacityRespected
    OBVIOUS
  <2>1. Active \in SUBSET Users /\ Granted \in SUBSET Workers
    BY DEF Active, Granted
  <2>2. Cardinality(Active) \in Nat /\ Cardinality(Granted) \in Nat
    BY <2>1, Countable
  <2>3. course.capacity = CapacityLimit
    BY DEF TypeOK, Course
  <2> QED
    BY <2>2, <2>3, LimitsAssumption DEF OverbookingBound, CapacityRespected
<1> QED
  BY <1>1, TypeCorrect, OverbookingBounded, PTL

-------------------------------------------------------------------------------
(* How far an invite code can be overused                                  *)

\* A step of w concerns its own redemption only, and ends it when it leads out
\* of the statements between validateInvite and IncrementUses.
LEMMA RedeemingMove ==
    ASSUME Typed, NEW w \in Workers, NEW label, NEW l, Hold(w, label, l),
           NEW i \in Invites
    PROVE  /\ Redeeming(i)' \ {w} \subseteq Redeeming(i)
           /\ l.invite # i \/ label \notin {"row", "seat", "write", "uses"}
                => Redeeming(i)' \subseteq Redeeming(i) \ {w}
<1>1. pc'[w] = label /\ loc'[w] = l
  BY DEF Hold, Typed, TypeOK
<1>2. \A x \in Workers \ {w} : pc'[x] = pc[x] /\ loc'[x] = loc[x]
  BY DEF Hold, Typed, TypeOK
<1> QED
  BY <1>1, <1>2 DEF Redeeming

\* The code is as it was, and no other worker is about to use it.
LEMMA IdleKeepsLimit ==
    ASSUME NEW uses \in Nat, NEW limit \in Nat, NEW R \in SUBSET Workers,
           uses + Cardinality(R) < limit + Cardinality(Workers),
           NEW Q, Q \subseteq R
    PROVE  uses + Cardinality(Q) < limit + Cardinality(Workers)
<1>1. Q \in SUBSET Workers
  OBVIOUS
<1>2. IsFiniteSet(R) /\ Cardinality(R) \in Nat /\ Cardinality(Q) \in Nat
  BY <1>1, Countable
<1>3. Cardinality(Q) <= Cardinality(R)
  BY <1>2, Counting
<1> QED
  BY <1>2, <1>3, Countable

\* A worker about to use the code counts its use.
LEMMA UseKeepsLimit ==
    ASSUME NEW uses \in Nat, NEW limit \in Nat, NEW R \in SUBSET Workers,
           uses + Cardinality(R) < limit + Cardinality(Workers),
           NEW w \in R, NEW Q, Q \subseteq R \ {w}
    PROVE  uses + 1 + Cardinality(Q) < limit + Cardinality(Workers)
<1>1. Q \in SUBSET Workers
  OBVIOUS
<1>2. IsFiniteSet(R) /\ Cardinality(R) \in Nat /\ Cardinality(Q) \in Nat
  BY <1>1, Countable
<1>3. Cardinality(Q) <= Cardinality(R) - 1
  BY <1>2, Counting
<1> QED
  BY <1>2, <1>3, Countable

\* The inductive invariant: the bound, and nobody uses a code not created yet.
WithinLimit(i) ==
    /\ invite[i].limit # Unlimited =>
          invite[i].uses + Cardinality(Redeeming(i)) < invite[i].limit + Cardinality(Workers)
    /\ invite[i].status = "absent" => Redeeming(i) = {}

LEMMA WithinLimitNext ==
    ASSUME Typed, Typed', [Next]_vars, NEW i \in Invites, WithinLimit(i)
    PROVE  WithinLimit(i)'
<1> DEFINE R == Redeeming(i)
           Same == invite'[i] = invite[i]
<1>1. /\ invite[i] \in Invite /\ invite'[i] \in Invite
      /\ R \in SUBSET Workers /\ R' \in SUBSET Workers
      /\ i # NoInvite
  BY InvitesAssumption DEF Typed, TypeOK, Redeeming
<1>2. /\ invite[i].uses \in Nat
      /\ invite[i].limit # Unlimited => invite[i].limit \in Nat \ {0}
  BY <1>1, LimitsAssumption DEF Invite
<1>3. ASSUME Same, R' \subseteq R PROVE WithinLimit(i)'
  <2>1. invite'[i].limit # Unlimited =>
            invite'[i].uses + Cardinality(R') < invite'[i].limit + Cardinality(Workers)
    BY <1>1, <1>2, <1>3, IdleKeepsLimit DEF WithinLimit
  <2>2. invite'[i].status = "absent" => R' = {}
    BY <1>3 DEF WithinLimit
  <2> QED
    BY <2>1, <2>2 DEF WithinLimit
<1>4. ASSUME NEW w \in Workers, Finish(w) PROVE R' \subseteq R
  BY <1>4, MovesAreHolds, RedeemingMove
<1>5. ASSUME NEW w \in Workers, NEW label, NEW l, Hold(w, label, l),
             label \notin {"row", "seat", "write", "uses"} \/ l.invite # i
      PROVE  R' \subseteq R \ {w}
  BY <1>5, RedeemingMove
<1>6. ASSUME NEW w \in Workers, NEW label, NEW l, Hold(w, label, l),
             pc[w] \in {"row", "seat", "write", "uses"}, l.invite = loc[w].invite
      PROVE  R' \subseteq R
  <2>1. CASE loc[w].invite = i
    <3>1. w \in R
      BY <1>6, <2>1 DEF Redeeming
    <3> QED
      BY <1>6, <3>1, RedeemingMove
  <2>2. CASE loc[w].invite # i
    BY <1>6, <2>2, RedeemingMove
  <2> QED
    BY <2>1, <2>2
<1>7. ASSUME NEW w \in Workers, NEW label, Goto(w, label),
             label \notin {"row", "seat", "write", "uses"}
      PROVE  R' \subseteq R \ {w}
  BY <1>7, MovesAreHolds, RedeemingMove
<1>8. ASSUME NEW w \in Workers, Begin(w) PROVE WithinLimit(i)'
  <2>1. Same
    BY <1>8 DEF Begin, BeginEnroll, BeginEnrollFromPayment, BeginUnenroll, BeginSettings, rows
  <2>2. R' \subseteq R
    <3>1. ASSUME NEW u \in Users, NEW j \in Invites \cup {NoInvite}, BeginEnroll(w, u, j)
          PROVE  R' \subseteq R
      <4>1. CASE j = NoInvite
        <5> DEFINE l == [Blank EXCEPT !.user = u, !.invite = j,
                                      !.capacity = course.capacity,
                                      !.waitlist = course.waitlist]
        <5>1. l.invite = NoInvite
          BY <4>1 DEF Blank
        <5>2. Hold(w, "row", l)
          BY <3>1, <4>1 DEF BeginEnroll
        <5> HIDE DEF l
        <5> QED
          BY <5>1, <5>2, <1>1, <1>5
      <4>2. CASE j # NoInvite
        <5>1. PICK l : Hold(w, "invite", l)
          BY <3>1, <4>2 DEF BeginEnroll
        <5> QED
          BY <5>1, <1>5
      <4> QED
        BY <4>1, <4>2
    <3>2. ASSUME NEW u \in Users, BeginEnrollFromPayment(w, u) PROVE R' \subseteq R
      <4> DEFINE l == [Blank EXCEPT !.user = u, !.capacity = course.capacity,
                                    !.waitlist = course.waitlist]
      <4>1. l.invite = NoInvite
        BY DEF Blank
      <4>2. Hold(w, "row", l)
        BY <3>2 DEF BeginEnrollFromPayment
      <4> HIDE DEF l
      <4> QED
        BY <4>1, <4>2, <1>1, <1>5
    <3>3. ASSUME NEW u \in Users, BeginUnenroll(w, u) PROVE R' \subseteq R
      <4>1. PICK l : Hold(w, "cancel", l)
        BY <3>3 DEF BeginUnenroll
      <4> QED
        BY <4>1, <1>5
    <3>4. ASSUME NEW p \in Patches, NEW c \in Capacities, NEW o \in OpenFlags,
                 NEW n \in WaitlistFlags, BeginSettings(w, p, c, o, n)
          PROVE  R' \subseteq R
      <4>1. PICK l : Hold(w, "settings", l)
        BY <3>4 DEF BeginSettings
      <4> QED
        BY <4>1, <1>5
    <3> QED
      BY <1>8, <3>1, <3>2, <3>3, <3>4 DEF Begin
  <2> QED
    BY <2>1, <2>2, <1>3
<1>9. ASSUME NEW w \in Workers, Step(w) PROVE WithinLimit(i)'
  <2>0. loc[w] \in Local /\ Prepared(w)
    BY DEF Typed, TypeOK, WorkersPrepared
  <2>1. CASE ReadInvite(w)
    <3>1. Same
      BY <2>1 DEF ReadInvite, rows
    <3>2. CASE Finish(w)
      BY <3>1, <3>2, <1>3, <1>4
    <3>3. CASE Usable(invite[loc[w].invite]) /\ Goto(w, "row")
      <4>1. Hold(w, "row", loc[w])
        BY <3>3, MovesAreHolds
      <4>2. CASE loc[w].invite = i
        <5>1. invite'[i].limit # Unlimited => invite'[i].uses < invite'[i].limit
          BY <3>1, <3>3, <4>2 DEF Usable
        <5>2. invite'[i].status # "absent"
          BY <3>1, <3>3, <4>2 DEF Usable
        <5>3. Cardinality(R') \in Nat /\ Cardinality(R') <= Cardinality(Workers)
          BY <1>1, Countable
        <5> QED
          BY <3>1, <5>1, <5>2, <5>3, <1>2, Countable DEF WithinLimit
      <4>3. CASE loc[w].invite # i
        BY <3>1, <4>1, <4>3, <1>3, <1>5
      <4> QED
        BY <4>2, <4>3
    <3> QED
      BY <2>1, <3>2, <3>3 DEF ReadInvite
  <2>2. CASE ReadRow(w)
    <3>1. Same
      BY <2>2 DEF ReadRow
    <3>2. CASE Finish(w)
      BY <3>1, <3>2, <1>3, <1>4
    <3>3. ASSUME NEW label, NEW l, Hold(w, label, l), l.invite = loc[w].invite
          PROVE  WithinLimit(i)'
      BY <2>2, <3>1, <3>3, <1>3, <1>6 DEF ReadRow
    <3>4. CASE Hold(w, "seat", [loc[w] EXCEPT !.row = status[loc[w].user]])
      <4>1. [loc[w] EXCEPT !.row = status[loc[w].user]].invite = loc[w].invite
        BY <2>0 DEF Local
      <4> QED
        BY <3>3, <3>4, <4>1
    <3>5. CASE Hold(w, "write", [loc[w] EXCEPT !.row = status[loc[w].user], !.seat = "active"])
      <4> DEFINE l == [loc[w] EXCEPT !.row = status[loc[w].user], !.seat = "active"]
      <4>1. l.invite = loc[w].invite
        BY <2>0 DEF Local
      <4>2. Hold(w, "write", l)
        BY <3>5
      <4> HIDE DEF l
      <4> QED
        BY <3>3, <4>1, <4>2
    <3> QED
      BY <2>2, <3>2, <3>4, <3>5 DEF ReadRow
  <2>3. CASE DecideSeat(w)
    <3>1. Same
      BY <2>3 DEF DecideSeat
    <3>2. PICK label, l : Hold(w, label, l) /\ (label = "idle" \/ l.invite = loc[w].invite)
      BY <2>0, <2>3, MovesAreHolds DEF DecideSeat, Local
    <3> QED
      BY <2>3, <3>1, <3>2, <1>3, <1>5, <1>6 DEF DecideSeat
  <2>4. CASE WriteSeat(w)
    <3>1. Same
      BY <2>4 DEF WriteSeat
    <3>2. PICK label, l : Hold(w, label, l) /\ (label = "idle" \/ l.invite = loc[w].invite)
      BY <2>4, MovesAreHolds DEF WriteSeat
    <3> QED
      BY <2>4, <3>1, <3>2, <1>3, <1>5, <1>6 DEF WriteSeat
  <2>5. CASE CountUse(w)
    <3>1. R' \subseteq R \ {w}
      BY <2>5, <1>7 DEF CountUse
    <3>2. CASE loc[w].invite = i
      <4>1. w \in R
        BY <2>5, <3>2 DEF CountUse, Redeeming
      <4>2. /\ invite'[i].uses = invite[i].uses + 1
            /\ invite'[i].limit = invite[i].limit
            /\ invite'[i].status = invite[i].status
        BY <2>5, <3>2, <1>1 DEF CountUse, Typed, TypeOK, Invite
      <4>3. invite'[i].limit # Unlimited =>
                invite'[i].uses + Cardinality(R') < invite'[i].limit + Cardinality(Workers)
        BY <3>1, <4>1, <4>2, <1>1, <1>2, UseKeepsLimit DEF WithinLimit
      <4> QED
        BY <4>1, <4>2, <4>3 DEF WithinLimit
    <3>3. CASE loc[w].invite # i
      <4>1. Same
        BY <2>5, <3>3 DEF CountUse, Typed, TypeOK
      <4> QED
        BY <3>1, <4>1, <1>3
    <3> QED
      BY <3>2, <3>3
  <2>6. CASE EmitSeat(w) \/ EmitActivated(w) \/ EmitCancelled(w) \/ CancelSeat(w)
             \/ CheckRoom(w) \/ GrantSeat(w) \/ WriteSettings(w)
    <3>1. Same
      BY <2>6 DEF EmitSeat, EmitActivated, EmitCancelled, CancelSeat, CheckRoom, GrantSeat,
                  WriteSettings, rows
    <3>2. \/ Finish(w)
          \/ \E label \in {"left", "course", "next", "granted"} : Goto(w, label)
      BY <2>6 DEF EmitSeat, EmitActivated, EmitCancelled, CancelSeat, CheckRoom, GrantSeat,
                  WriteSettings
    <3> QED
      BY <3>1, <3>2, <1>3, <1>4, <1>7
  <2>7. CASE ReadCourse(w) \/ ReadNext(w)
    <3>1. Same
      BY <2>7 DEF ReadCourse, ReadNext, rows
    <3>2. \/ Finish(w)
          \/ \E label \in {"next", "room", "grant"} : \E l : Hold(w, label, l)
      BY <2>7 DEF ReadCourse, ReadNext
    <3> QED
      BY <3>1, <3>2, <1>3, <1>4, <1>5
  <2> QED
    BY <1>9, <2>1, <2>2, <2>3, <2>4, <2>5, <2>6, <2>7 DEF Step
<1>10. ASSUME NEW w \in Workers, Abort(w) PROVE WithinLimit(i)'
  BY <1>10, <1>3, <1>4 DEF Abort
<1>11. ASSUME Teacher PROVE WithinLimit(i)'
  <2>0. R' = R
    BY <1>11 DEF Redeeming, Teacher, CreateInviteCode, ExpireInviteCode, RevokeInviteCode,
                 ChangeCourse
  <2>1. ASSUME NEW n \in UseLimits, CreateInviteCode(i, n) PROVE WithinLimit(i)'
    <3>1. R' = {}
      BY <2>0, <2>1 DEF WithinLimit, CreateInviteCode
    <3>2. invite'[i] = [status |-> "live", limit |-> n, uses |-> 0]
      BY <2>1 DEF CreateInviteCode, Typed, TypeOK
    <3> QED
      BY <3>1, <3>2, LimitsAssumption, FS_EmptySet, Countable DEF WithinLimit
  <2>2. ASSUME ExpireInviteCode(i) \/ RevokeInviteCode(i) PROVE WithinLimit(i)'
    <3>1. /\ invite'[i].uses = invite[i].uses
          /\ invite'[i].limit = invite[i].limit
          /\ invite'[i].status # "absent"
      BY <2>2, <1>1 DEF ExpireInviteCode, RevokeInviteCode, Typed, TypeOK, Invite
    <3> QED
      BY <2>0, <3>1 DEF WithinLimit
  <2>3. CASE Same
    BY <2>0, <2>3, <1>3
  <2> QED
    <3>1. ASSUME NEW j \in Invites, NEW n \in UseLimits, CreateInviteCode(j, n)
          PROVE  j = i \/ Same
      BY <3>1 DEF CreateInviteCode, Typed, TypeOK
    <3>2. ASSUME NEW j \in Invites, ExpireInviteCode(j) \/ RevokeInviteCode(j)
          PROVE  j = i \/ Same
      BY <3>2 DEF ExpireInviteCode, RevokeInviteCode, Typed, TypeOK
    <3> QED
      BY <1>11, <2>1, <2>2, <2>3, <3>1, <3>2 DEF Teacher, ChangeCourse
<1>12. CASE UNCHANGED vars
  <2>1. Same /\ R' = R
    BY <1>12 DEF vars, Redeeming
  <2> QED
    BY <2>1, <1>3
<1> QED
  BY <1>8, <1>9, <1>10, <1>11, <1>12 DEF Next

\* However requests interleave, a code is used at most max_uses times, plus
\* once for each other request in flight.
THEOREM InviteOvershootBounded == Spec => []InviteOvershootBound
<1> DEFINE Inv == Typed /\ \A i \in Invites : WithinLimit(i)
<1>1. Init => Inv
  <2> SUFFICES ASSUME Init, NEW i \in Invites PROVE WithinLimit(i)
    BY TypedInit
  <2>1. Redeeming(i) = {}
    BY DEF Init, Redeeming
  <2>2. invite[i].uses = 0 /\ invite[i].limit \in UseLimits
    BY DEF Init
  <2>3. Cardinality({}) = 0
    BY FS_EmptySet
  <2>4. invite[i].limit # Unlimited => invite[i].limit \in Nat \ {0}
    BY <2>2, LimitsAssumption
  <2> QED
    BY <2>1, <2>2, <2>3, <2>4, Countable DEF WithinLimit
<1>2. Inv /\ [Next]_vars => Inv'
  BY TypedNext, WithinLimitNext
<1>3. Inv => InviteOvershootBound
  BY DEF WithinLimit, InviteOvershootBound
<1> QED
  BY <1>1, <1>2, <1>3, PTL DEF Spec
-------------------------------------------------------------------------------
(* One request at a time: what is counted still holds when it is written,  *)
(* and every change of a row is reported                                   *)

\* The settings a request decides with are the course's, and the room it found is
\* there until it writes.
SeatsFit(w) ==
    /\ pc[w] \in {"invite", "row", "seat", "write", "room", "next", "grant"} =>
            loc[w].capacity = course.capacity
    /\ \/ pc[w] = "write" /\ loc[w].seat = "active"
       \/ pc[w] \in {"next", "grant"}
       => course.capacity = Unlimited \/ Cardinality(Active) < course.capacity

\* The events that tell a status.
EventsOf(s) == CASE s = "none"       -> {"none"}
                 [] s = "active"     -> {"enrolled", "activated"}
                 [] s = "waitlisted" -> {"waitlisted"}
                 [] s = "cancelled"  -> {"cancelled"}

Told(u) == lastEvent[u] \in EventsOf(status[u])

Reporting == {"uses", "event", "left", "granted"}

\* Only the learner whose row w has written, and not reported yet, is not told of.
Reported(w) ==
    /\ \A u \in Users : Told(u) \/ (pc[w] \in Reporting /\ u = loc[w].user)
    /\ pc[w] \in {"write", "uses", "event"} => loc[w].seat \in {"active", "waitlisted"}
    /\ pc[w] \in {"uses", "event"} => status[loc[w].user] = loc[w].seat
    /\ pc[w] = "left" => status[loc[w].user] = "cancelled"
    /\ pc[w] = "granted" => status[loc[w].user] = "active"

LEMMA OnlyWorker ==
    ASSUME Cardinality(Workers) = 1
    PROVE  \E w \in Workers : Workers = {w}
BY WorkersAssumption, FS_Singleton

\* A request goes on, and no row changes.
LEMMA FitsOn ==
    ASSUME Typed, NEW w \in Workers, NEW label, NEW l, Hold(w, label, l),
           UNCHANGED <<course, status>>,
           label \in {"invite", "row", "seat", "write", "room", "next", "grant"} =>
                l.capacity = course.capacity,
           (label = "write" /\ l.seat = "active") \/ label \in {"next", "grant"} =>
                course.capacity = Unlimited \/ Cardinality(Active) < course.capacity
    PROVE  SeatsFit(w)'
<1>1. pc'[w] = label /\ loc'[w] = l
  BY DEF Typed, TypeOK, Hold
<1>2. Active' = Active /\ course' = course
  BY DEF Active
<1> QED
  BY <1>1, <1>2 DEF SeatsFit

LEMMA FitsInit ==
    ASSUME NEW w, Workers = {w}, Init
    PROVE  SeatsFit(w)
BY DEF Init, SeatsFit

LEMMA FitsNext ==
    ASSUME Typed, NEW w, Workers = {w}, SeatsFit(w), [Next]_vars
    PROVE  SeatsFit(w)'
<1> DEFINE Reserved == course.capacity = Unlimited \/ Cardinality(Active) < course.capacity
           Counting0 == {"invite", "row", "seat", "write", "room", "next", "grant"}
<1>1. w \in Workers /\ loc[w] \in Local
  BY DEF Typed, TypeOK
<1>2. ASSUME NEW label, NEW l, Hold(w, label, l), label \notin Counting0 PROVE SeatsFit(w)'
  <2>1. pc'[w] = label
    BY <1>1, <1>2 DEF Hold, Typed, TypeOK
  <2> QED
    BY <1>2, <2>1 DEF SeatsFit
<1>3. ASSUME Finish(w) PROVE SeatsFit(w)'
  BY <1>1, <1>2, <1>3, MovesAreHolds
<1>4. ASSUME NEW label, Goto(w, label), label \notin Counting0 PROVE SeatsFit(w)'
  BY <1>1, <1>2, <1>4, MovesAreHolds
<1>5. ASSUME Begin(w) PROVE SeatsFit(w)'
  <2>1. ASSUME NEW u \in Users, NEW i \in Invites \cup {NoInvite}, BeginEnroll(w, u, i)
        PROVE  SeatsFit(w)'
    <3>1. PICK l : l = [Blank EXCEPT !.user = u, !.invite = i, !.capacity = course.capacity,
                                     !.waitlist = course.waitlist]
      OBVIOUS
    <3>2. l.capacity = course.capacity
      BY <3>1 DEF Blank
    <3>3. PICK label \in {"row", "invite"} : Hold(w, label, l) /\ UNCHANGED rows
      BY <2>1, <3>1 DEF BeginEnroll
    <3> QED
      BY <1>1, <3>2, <3>3, FitsOn DEF rows
  <2>2. ASSUME NEW u \in Users, BeginEnrollFromPayment(w, u) PROVE SeatsFit(w)'
    <3>1. PICK l : l = [Blank EXCEPT !.user = u, !.capacity = course.capacity,
                                     !.waitlist = course.waitlist]
      OBVIOUS
    <3>2. l.capacity = course.capacity
      BY <3>1 DEF Blank
    <3>3. Hold(w, "row", l) /\ UNCHANGED rows
      BY <2>2, <3>1 DEF BeginEnrollFromPayment
    <3> QED
      BY <1>1, <3>2, <3>3, FitsOn DEF rows
  <2>3. ASSUME NEW u \in Users, BeginUnenroll(w, u) PROVE SeatsFit(w)'
    BY <1>2, <2>3 DEF BeginUnenroll
  <2>4. ASSUME NEW p \in Patches, NEW c \in Capacities, NEW o \in OpenFlags,
               NEW n \in WaitlistFlags, BeginSettings(w, p, c, o, n)
        PROVE  SeatsFit(w)'
    BY <1>2, <2>4 DEF BeginSettings
  <2> QED
    BY <1>5, <2>1, <2>2, <2>3, <2>4 DEF Begin
<1>6. ASSUME Step(w) PROVE SeatsFit(w)'
  <2> DEFINE same == loc[w].capacity = course.capacity
  <2>1. ASSUME ReadInvite(w) PROVE SeatsFit(w)'
    <3>1. CASE Goto(w, "row")
      <4>1. Hold(w, "row", loc[w]) /\ loc[w].capacity = course.capacity /\ UNCHANGED rows
        BY <1>1, <2>1, <3>1, MovesAreHolds DEF ReadInvite, SeatsFit
      <4> QED
        BY <1>1, <4>1, FitsOn DEF rows
    <3> QED
      BY <1>3, <2>1, <3>1 DEF ReadInvite
  <2>2. ASSUME ReadRow(w) PROVE SeatsFit(w)'
    <3>1. PICK read : read = status[loc[w].user]
      OBVIOUS
    <3>2. loc[w].capacity = course.capacity /\ UNCHANGED <<course, status>>
      BY <2>2 DEF ReadRow, SeatsFit
    <3>3. CASE loc[w].capacity = Unlimited
               /\ Hold(w, "write", [loc[w] EXCEPT !.row = read, !.seat = "active"])
      <4>1. PICK l : l = [loc[w] EXCEPT !.row = read, !.seat = "active"]
        OBVIOUS
      <4>2. l.capacity = course.capacity
        BY <1>1, <3>2, <4>1 DEF Local
      <4> QED
        BY <1>1, <3>2, <3>3, <4>1, <4>2, FitsOn
    <3>4. CASE Hold(w, "seat", [loc[w] EXCEPT !.row = read])
      <4>1. PICK l : l = [loc[w] EXCEPT !.row = read]
        OBVIOUS
      <4>2. l.capacity = course.capacity
        BY <1>1, <3>2, <4>1 DEF Local
      <4> QED
        BY <1>1, <3>2, <3>4, <4>1, <4>2, FitsOn
    <3> QED
      BY <1>3, <2>2, <3>1, <3>3, <3>4 DEF ReadRow
  <2>3. ASSUME DecideSeat(w) PROVE SeatsFit(w)'
    <3>1. loc[w].capacity = course.capacity /\ UNCHANGED <<course, status>>
      BY <2>3 DEF DecideSeat, SeatsFit
    <3>2. ASSUME NEW s, Hold(w, "write", [loc[w] EXCEPT !.seat = s]),
                 s = "active" => Room(loc[w].capacity)
          PROVE  SeatsFit(w)'
      <4>1. PICK l : l = [loc[w] EXCEPT !.seat = s]
        OBVIOUS
      <4>2. l.capacity = course.capacity /\ l.seat = s
        BY <1>1, <3>1, <4>1 DEF Local
      <4> QED
        BY <1>1, <3>1, <3>2, <4>1, <4>2, FitsOn DEF Room
    <3> QED
      BY <1>3, <2>3, <3>2 DEF DecideSeat
  <2>4. ASSUME ReadCourse(w) PROVE SeatsFit(w)'
    <3>1. UNCHANGED <<course, status>>
      BY <2>4 DEF ReadCourse, rows
    <3>2. CASE Hold(w, IF course.capacity = Unlimited THEN "next" ELSE "room",
                    [loc[w] EXCEPT !.capacity = course.capacity])
      <4>1. PICK l : l = [loc[w] EXCEPT !.capacity = course.capacity]
        OBVIOUS
      <4>2. l.capacity = course.capacity
        BY <1>1, <4>1 DEF Local
      <4> QED
        BY <1>1, <3>1, <3>2, <4>1, <4>2, FitsOn
    <3> QED
      BY <1>3, <2>4, <3>2 DEF ReadCourse
  <2>5. ASSUME CheckRoom(w) PROVE SeatsFit(w)'
    <3>1. loc[w].capacity = course.capacity /\ UNCHANGED <<course, status>>
      BY <2>5 DEF CheckRoom, SeatsFit, rows
    <3>2. CASE Room(loc[w].capacity) /\ Goto(w, "next")
      <4>1. Hold(w, "next", loc[w])
        BY <1>1, <3>2, MovesAreHolds
      <4> QED
        BY <1>1, <3>1, <3>2, <4>1, FitsOn DEF Room
    <3> QED
      BY <1>3, <2>5, <3>2 DEF CheckRoom
  <2>6. ASSUME ReadNext(w) PROVE SeatsFit(w)'
    <3>1. /\ loc[w].capacity = course.capacity /\ UNCHANGED <<course, status>>
          /\ course.capacity = Unlimited \/ Cardinality(Active) < course.capacity
      BY <2>6 DEF ReadNext, SeatsFit, rows
    <3>2. ASSUME NEW u \in Oldest, Hold(w, "grant", [loc[w] EXCEPT !.user = u])
          PROVE  SeatsFit(w)'
      <4>1. PICK l : l = [loc[w] EXCEPT !.user = u]
        OBVIOUS
      <4>2. l.capacity = course.capacity
        BY <1>1, <3>1, <4>1 DEF Local
      <4> QED
        BY <1>1, <3>1, <3>2, <4>1, <4>2, FitsOn
    <3> QED
      BY <1>3, <2>6, <3>2 DEF ReadNext
  <2>7. ASSUME \/ WriteSeat(w) \/ CountUse(w) \/ EmitSeat(w) \/ CancelSeat(w)
               \/ EmitCancelled(w) \/ GrantSeat(w) \/ EmitActivated(w) \/ WriteSettings(w)
        PROVE  SeatsFit(w)'
    <3>1. \/ Finish(w)
          \/ \E label \in {"event", "uses", "left", "course", "granted"} : Goto(w, label)
      BY <2>7 DEF WriteSeat, CountUse, EmitSeat, CancelSeat, EmitCancelled, GrantSeat,
                  EmitActivated, WriteSettings
    <3> QED
      BY <1>3, <1>4, <3>1
  <2> QED
    BY <1>6, <2>1, <2>2, <2>3, <2>4, <2>5, <2>6, <2>7 DEF Step
<1>7. ASSUME Teacher \/ UNCHANGED vars PROVE SeatsFit(w)'
  <2>1. UNCHANGED <<status, pc, loc>> /\ course'.capacity = course.capacity
    BY <1>7 DEF vars, Teacher, CreateInviteCode, ExpireInviteCode, RevokeInviteCode,
                ChangeCourse, Typed, TypeOK, Course
  <2> QED
    BY <2>1 DEF SeatsFit, Active
<1> QED
  BY <1>1, <1>3, <1>5, <1>6, <1>7 DEF Next, Abort

\* A seat is given away only where there is room for it.
AdmissionStep ==
    course.capacity # Unlimited /\ Active' \ Active # {} =>
        Cardinality(Active') <= course.capacity

LEMMA AdmissionsNext ==
    ASSUME Typed, NEW w, Workers = {w}, SeatsFit(w), [Next]_vars
    PROVE  AdmissionStep \/ UNCHANGED vars
<1>1. CASE WriteSeat(w) \/ GrantSeat(w)
  <2>1. PICK u : u = loc[w].user
    OBVIOUS
  <2>2. status \in [Users -> Status] /\ w \in Workers
    BY DEF Typed, TypeOK
  <2>3. CASE \/ WriteSeat(w) /\ loc[w].seat = "active"
             \/ GrantSeat(w)
    <3>1. Active' \subseteq Active \cup {u}
      BY <2>1, <2>2, <2>3 DEF WriteSeat, GrantSeat, Active
    <3>2. course.capacity = Unlimited \/ Cardinality(Active) < course.capacity
      BY <2>3 DEF SeatsFit, WriteSeat, GrantSeat
    <3>3. IsFiniteSet(Active) /\ Cardinality(Active) \in Nat
      BY Countable DEF Active
    <3>4. /\ IsFiniteSet(Active \cup {u}) /\ Cardinality(Active \cup {u}) \in Nat
          /\ Cardinality(Active \cup {u}) <= Cardinality(Active) + 1
      BY <3>3, FS_AddElement, FS_CardinalityType
    <3>5. /\ Cardinality(Active') <= Cardinality(Active \cup {u})
          /\ Cardinality(Active') \in Nat
      BY <3>1, <3>4, FS_Subset, FS_CardinalityType
    <3>6. course.capacity # Unlimited => course.capacity \in Nat
      <4>1. course.capacity \in Capacities
        BY DEF Typed, TypeOK, Course
      <4>2. course.capacity \in (1 .. CapacityLimit) \cup {Unlimited}
        BY <4>1, LimitsAssumption
      <4> QED
        BY <4>2
    <3> QED
      BY <3>2, <3>3, <3>4, <3>5, <3>6 DEF AdmissionStep
  <2>4. CASE WriteSeat(w) /\ loc[w].seat # "active"
    <3>1. Active' \subseteq Active
      BY <2>2, <2>4 DEF WriteSeat, Active
    <3> QED
      BY <3>1 DEF AdmissionStep
  <2> QED
    BY <1>1, <2>3, <2>4
<1>2. CASE ~(WriteSeat(w) \/ GrantSeat(w))
  <2>1. Active' \subseteq Active
    <3>1. CASE CancelSeat(w)
      BY <3>1 DEF CancelSeat, Active, Typed, TypeOK
    <3>2. CASE ~CancelSeat(w)
      <4>1. status' = status
        BY <1>2, <3>2
        DEF Next, Begin, Step, Abort, Teacher, vars, rows, BeginEnroll, BeginEnrollFromPayment,
            BeginUnenroll, BeginSettings, ReadInvite, ReadRow, DecideSeat, CountUse, EmitSeat,
            EmitCancelled, ReadCourse, CheckRoom, ReadNext, EmitActivated, WriteSettings,
            CreateInviteCode, ExpireInviteCode, RevokeInviteCode, ChangeCourse
      <4> QED
        BY <4>1 DEF Active
    <3> QED
      BY <3>1, <3>2
  <2> QED
    BY <2>1 DEF AdmissionStep
<1> QED
  BY <1>1, <1>2

\* decideSeat and promoteWaitlist count, and Create and UpdateStatus write later
\* (enrollment.go:258, :277, :423, :129): with one request at a time, failing or
\* not, a learner gets a seat only while the course has one, under the settings of
\* that moment, for any number of learners, codes and capacities.
THEOREM SerialAdmissions ==
    ASSUME Cardinality(Workers) = 1
    PROVE  Spec => AdmissionsFit
<1>1. PICK w \in Workers : Workers = {w}
  BY OnlyWorker
<1>2. Init => Typed /\ SeatsFit(w)
  BY <1>1, TypedInit, FitsInit
<1>3. Typed /\ SeatsFit(w) /\ [Next]_vars => Typed' /\ SeatsFit(w)'
  BY <1>1, TypedNext, FitsNext
<1>4. Typed /\ SeatsFit(w) /\ [Next]_vars =>
        [course.capacity # Unlimited /\ Active' \ Active # {}
            => Cardinality(Active') <= course.capacity]_vars
  BY <1>1, AdmissionsNext DEF AdmissionStep
<1> QED
  BY <1>2, <1>3, <1>4, PTL DEF Spec, AdmissionsFit

\* No row changes, and no event is stored.
LEMMA NothingWritten ==
    ASSUME Typed, NEW w \in Workers, Reported(w), NEW label, NEW l, Hold(w, label, l),
           UNCHANGED <<status, lastEvent>>,
           pc[w] \notin Reporting, label \notin Reporting,
           label = "write" => l.seat \in {"active", "waitlisted"}
    PROVE  Reported(w)'
<1>1. pc'[w] = label /\ loc'[w] = l
  BY DEF Typed, TypeOK, Hold
<1>2. ASSUME NEW u \in Users PROVE Told(u)'
  BY DEF Reported, Told
<1>3. pc'[w] \notin {"uses", "event", "left", "granted"}
  BY <1>1 DEF Reporting
<1>4. pc'[w] = "write" => loc'[w].seat \in {"active", "waitlisted"}
  BY <1>1
<1> QED
  BY <1>2, <1>3, <1>4 DEF Reported

\* A row is written, and its event comes next.
LEMMA RowWritten ==
    ASSUME Typed, NEW w \in Workers, Reported(w), NEW label \in Reporting, Goto(w, label),
           pc[w] \notin Reporting, NEW s \in Status, UNCHANGED lastEvent,
           loc[w].user \in Users, status' = [status EXCEPT ![loc[w].user] = s],
           label \in {"uses", "event"} => s = loc[w].seat /\ s \in {"active", "waitlisted"},
           label = "left" => s = "cancelled",
           label = "granted" => s = "active"
    PROVE  Reported(w)'
<1>1. PICK u \in Users : u = loc[w].user
  OBVIOUS
<1>2. pc'[w] = label /\ loc'[w] = loc[w] /\ label # "write"
  BY DEF Typed, TypeOK, Goto, Reporting
<1>3. status'[u] = s /\ \A v \in Users \ {u} : status'[v] = status[v]
  BY <1>1 DEF Typed, TypeOK
<1>4. \A v \in Users \ {u} : Told(v)'
  BY <1>3 DEF Reported, Told
<1> QED
  BY <1>1, <1>2, <1>3, <1>4 DEF Reported

\* The event is stored.
LEMMA EventStored ==
    ASSUME Typed, NEW w \in Workers, Reported(w), NEW label, NEW l, Hold(w, label, l),
           pc[w] \in Reporting, label \notin Reporting, label # "write",
           NEW e, e \in EventsOf(status[loc[w].user]), UNCHANGED status,
           loc[w].user \in Users, lastEvent' = [lastEvent EXCEPT ![loc[w].user] = e]
    PROVE  Reported(w)'
<1>1. PICK u \in Users : u = loc[w].user
  OBVIOUS
<1>2. pc'[w] = label /\ label \notin {"uses", "event", "left", "granted", "write"}
  BY DEF Typed, TypeOK, Hold, Reporting
<1>3. lastEvent'[u] = e /\ \A v \in Users \ {u} : lastEvent'[v] = lastEvent[v]
  BY <1>1 DEF Typed, TypeOK
<1>4. ASSUME NEW v \in Users PROVE Told(v)'
  BY <1>1, <1>3 DEF Reported, Told
<1> QED
  BY <1>2, <1>4 DEF Reported

LEMMA ReportedInit ==
    ASSUME NEW w, Workers = {w}, Init
    PROVE  Reported(w)
<1>1. pc[w] = "idle"
  BY DEF Init
<1>2. \A u \in Users : Told(u)
  BY DEF Init, Told, EventsOf
<1> QED
  BY <1>1, <1>2 DEF Reported

LEMMA ReportedNext ==
    ASSUME Typed, NEW w, Workers = {w}, Failures = FALSE, Reported(w), [Next]_vars
    PROVE  Reported(w)'
<1>1. w \in Workers /\ loc[w] \in Local /\ Prepared(w)
  BY DEF Typed, TypeOK, WorkersPrepared
<1>2. ASSUME Begin(w) PROVE Reported(w)'
  <2>1. PICK label \in {"row", "invite", "cancel", "settings"} : \E l : Hold(w, label, l)
    BY <1>2 DEF Begin, BeginEnroll, BeginEnrollFromPayment, BeginUnenroll, BeginSettings
  <2>2. UNCHANGED <<status, lastEvent>> /\ pc[w] = "idle"
    BY <1>2 DEF Begin, BeginEnroll, BeginEnrollFromPayment, BeginUnenroll, BeginSettings, rows
  <2> QED
    BY <1>1, <2>1, <2>2, NothingWritten DEF Reporting
<1>3. ASSUME \/ ReadInvite(w) \/ DecideSeat(w) \/ ReadRow(w) \/ ReadCourse(w)
             \/ CheckRoom(w) \/ ReadNext(w) \/ WriteSettings(w)
      PROVE  Reported(w)'
  <2>1. UNCHANGED <<status, lastEvent>>
    BY <1>3 DEF ReadInvite, DecideSeat, ReadRow, ReadCourse, CheckRoom, ReadNext, WriteSettings,
                rows
  <2>2. pc[w] \notin Reporting
    BY <1>3 DEF ReadInvite, DecideSeat, ReadRow, ReadCourse, CheckRoom, ReadNext, WriteSettings,
                Reporting
  <2>3. \A s : [loc[w] EXCEPT !.seat = s].seat = s
    BY <1>1 DEF Local
  <2>4. \A r, s : [loc[w] EXCEPT !.row = r, !.seat = s].seat = s
    BY <1>1 DEF Local
  <2>5. \/ Finish(w)
        \/ \E label \in {"row", "next"} : Goto(w, label)
        \/ \E label \in {"seat", "next", "room", "grant"} : \E l : Hold(w, label, l)
        \/ \E s \in {"active", "waitlisted"} : Hold(w, "write", [loc[w] EXCEPT !.seat = s])
        \/ \E r : Hold(w, "write", [loc[w] EXCEPT !.row = r, !.seat = "active"])
    BY <1>3 DEF ReadInvite, DecideSeat, ReadRow, ReadCourse, CheckRoom, ReadNext, WriteSettings
  <2>6. \E label \in {"idle", "row", "next", "seat", "room", "grant", "write"} : \E l :
            Hold(w, label, l) /\ (label = "write" => l.seat \in {"active", "waitlisted"})
    <3>1. CASE Finish(w)
      BY <1>1, <3>1, MovesAreHolds
    <3>2. CASE \E label \in {"row", "next"} : Goto(w, label)
      BY <1>1, <3>2, MovesAreHolds
    <3>3. CASE \E label \in {"seat", "next", "room", "grant"} : \E l : Hold(w, label, l)
      BY <3>3
    <3>4. CASE \E s \in {"active", "waitlisted"} : Hold(w, "write", [loc[w] EXCEPT !.seat = s])
      BY <2>3, <3>4
    <3>5. CASE \E r : Hold(w, "write", [loc[w] EXCEPT !.row = r, !.seat = "active"])
      <4>1. PICK r : Hold(w, "write", [loc[w] EXCEPT !.row = r, !.seat = "active"])
        BY <3>5
      <4>2. PICK l : l = [loc[w] EXCEPT !.row = r, !.seat = "active"]
        OBVIOUS
      <4>3. l.seat = "active"
        BY <2>4, <4>2
      <4> QED
        BY <4>1, <4>2, <4>3
    <3> QED
      BY <2>5, <3>1, <3>2, <3>3, <3>4, <3>5
  <2> QED
    BY <1>1, <2>1, <2>2, <2>6, NothingWritten DEF Reporting
<1>4. ASSUME WriteSeat(w) PROVE Reported(w)'
  <2>1. /\ loc[w].user \in Users /\ loc[w].seat \in {"active", "waitlisted"}
        /\ pc[w] \notin Reporting
    BY <1>1, <1>4 DEF WriteSeat, Prepared, Reported, Reporting
  <2>2. CASE loc[w].row = "none" /\ status[loc[w].user] # "none"
    BY <1>1, <1>4, <2>1, <2>2, MovesAreHolds, NothingWritten DEF WriteSeat, Reporting
  <2>3. CASE ~(loc[w].row = "none" /\ status[loc[w].user] # "none")
    <3>1. PICK label \in {"uses", "event"} : Goto(w, label)
      BY <1>4, <2>3 DEF WriteSeat
    <3> QED
      BY <1>1, <1>4, <2>1, <2>3, <3>1, RowWritten DEF WriteSeat, Reporting, Status
  <2> QED
    BY <1>4, <2>2, <2>3 DEF WriteSeat
<1>5. ASSUME CancelSeat(w) \/ GrantSeat(w) PROVE Reported(w)'
  <2>1. /\ loc[w].user \in Users /\ pc[w] \notin Reporting /\ UNCHANGED lastEvent
    BY <1>1, <1>5 DEF CancelSeat, GrantSeat, Prepared, Reporting
  <2>2. PICK s \in Status, label \in {"left", "granted"} :
            /\ status' = [status EXCEPT ![loc[w].user] = s] /\ Goto(w, label)
            /\ label = "left" => s = "cancelled"
            /\ label = "granted" => s = "active"
    BY <1>5 DEF CancelSeat, GrantSeat, Status
  <2> QED
    BY <1>1, <2>1, <2>2, RowWritten DEF Reporting
<1>6. ASSUME CountUse(w) PROVE Reported(w)'
  <2>1. pc'[w] = "event" /\ loc' = loc /\ status' = status /\ lastEvent' = lastEvent
    BY <1>1, <1>6 DEF CountUse, Goto, Typed, TypeOK
  <2> QED
    BY <1>6, <2>1 DEF CountUse, Reported, Reporting, Told
<1>7. ASSUME EmitSeat(w) \/ EmitActivated(w) \/ EmitCancelled(w) PROVE Reported(w)'
  <2>1. loc[w].user \in Users /\ pc[w] \in Reporting /\ UNCHANGED status
    BY <1>1, <1>7 DEF EmitSeat, EmitActivated, EmitCancelled, Prepared, Reporting
  <2>2. PICK e : /\ e \in EventsOf(status[loc[w].user])
                 /\ lastEvent' = [lastEvent EXCEPT ![loc[w].user] = e]
    <3>1. CASE EmitSeat(w)
      <4>1. status[loc[w].user] = loc[w].seat /\ loc[w].seat \in {"active", "waitlisted"}
        BY <3>1 DEF EmitSeat, Reported
      <4>2. SeatEvent(loc[w].seat) \in EventsOf(status[loc[w].user])
        BY <4>1 DEF SeatEvent, EventsOf
      <4> QED
        BY <3>1, <4>2 DEF EmitSeat
    <3>2. CASE EmitActivated(w)
      BY <3>2 DEF EmitActivated, Reported, EventsOf
    <3>3. CASE EmitCancelled(w)
      BY <3>3 DEF EmitCancelled, Reported, EventsOf
    <3> QED
      BY <1>7, <3>1, <3>2, <3>3
  <2>3. PICK label \in {"idle", "course"} : \E l : Hold(w, label, l)
    BY <1>1, <1>7, MovesAreHolds DEF EmitSeat, EmitActivated, EmitCancelled
  <2> QED
    BY <1>1, <2>1, <2>2, <2>3, EventStored DEF Reporting
<1>8. ASSUME Teacher \/ UNCHANGED vars PROVE Reported(w)'
  <2>1. UNCHANGED <<status, lastEvent, pc, loc>>
    BY <1>8 DEF vars, Teacher, CreateInviteCode, ExpireInviteCode, RevokeInviteCode, ChangeCourse
  <2> QED
    BY <2>1 DEF Reported, Told, Reporting
<1> QED
  BY <1>1, <1>2, <1>3, <1>4, <1>5, <1>6, <1>7, <1>8 DEF Next, Abort, Step

\* A seat, a cancellation and a promotion are each written in one statement and
\* reported in another (enrollment.go:129, :137; :234, :237; :277, :280): with one
\* request at a time, none failing, the newest event of every learner tells the
\* status of their row, for any number of learners and codes and whatever the teacher
\* changes.
THEOREM SerialEvents ==
    ASSUME Cardinality(Workers) = 1, Failures = FALSE
    PROVE  Spec => []EventsTellStatus
<1>1. PICK w \in Workers : Workers = {w}
  BY OnlyWorker
<1>2. Init => Typed /\ Reported(w)
  BY <1>1, TypedInit, ReportedInit
<1>3. Typed /\ Reported(w) /\ [Next]_vars => Typed' /\ Reported(w)'
  BY <1>1, TypedNext, ReportedNext
<1>4. Typed /\ Reported(w) => EventsTellStatus
  BY <1>1 DEF Reported, Told, EventsOf, Reporting, EventsTellStatus, AtRest
<1> QED
  BY <1>2, <1>3, <1>4, PTL DEF Spec

-------------------------------------------------------------------------------
(* One request at a time keeps the seat book.  First, of lines: an order   *)
(* that goes one way puts a set of learners in at most one                 *)

\* A set of numbers has a least one.
LEMMA LeastNumber ==
    ASSUME NEW T \in SUBSET Nat, T # {}
    PROVE  \E n \in T : \A m \in T : n <= m
<1>1. PICK n \in T : \A m \in T : <<m, n>> \notin OpToRel(<, Nat)
  BY WFMin, NatLessThanWellFounded, Zenon
<1>2. \A m \in T : ~ (m < n)
  BY <1>1, Zenon DEF OpToRel
<1>3. ASSUME NEW m \in T PROVE n <= m
  BY <1>2
<1> QED
  BY <1>3

\* Who is earlier than another is not later too.
OneWay(W, before) == \A a, b \in W : <<a, b>> \in before => <<b, a>> \notin before

\* Nobody is in line twice.
LEMMA LineOnce ==
    ASSUME NEW W, IsFiniteSet(W), NEW before, OneWay(W, before),
           NEW q, IsLine(q, W, before),
           NEW m \in 1 .. Cardinality(W), NEW n \in 1 .. Cardinality(W), q[m] = q[n]
    PROVE  m = n
<1>1. Cardinality(W) \in Nat
  BY FS_CardinalityType
<1>2. q[m] \in W /\ q[n] \in W
  BY DEF IsLine
<1>3. <<q[m], q[m]>> \notin before
  BY <1>2 DEF OneWay
<1>4. ~(m < n) /\ ~(n < m)
  BY <1>3 DEF IsLine
<1> QED
  BY <1>1, <1>4

\* There is one way to line up.
LEMMA LineUnique ==
    ASSUME NEW W, IsFiniteSet(W), NEW before, OneWay(W, before),
           NEW p, IsLine(p, W, before), NEW q, IsLine(q, W, before)
    PROVE  p = q
<1> DEFINE D == {n \in 1 .. Cardinality(W) : p[n] # q[n]}
<1>1. Cardinality(W) \in Nat
  BY FS_CardinalityType
<1>2. p \in [1 .. Cardinality(W) -> W] /\ q \in [1 .. Cardinality(W) -> W]
  BY DEF IsLine
<1>3. SUFFICES ASSUME D # {} PROVE FALSE
  <2>1. ASSUME D = {} PROVE p = q
    <3>1. \A n \in 1 .. Cardinality(W) : p[n] = q[n]
      BY <2>1
    <3> HIDE DEF D
    <3>2. /\ p = [n \in 1 .. Cardinality(W) |-> p[n]]
          /\ q = [n \in 1 .. Cardinality(W) |-> q[n]]
      BY <1>2
    <3>3. [n \in 1 .. Cardinality(W) |-> p[n]] = [n \in 1 .. Cardinality(W) |-> q[n]]
      BY <3>1
    <3> QED
      BY <3>2, <3>3, Zenon
  <2> QED
    BY <2>1
<1>4. PICK k \in D : \A m \in D : k <= m
  <2>1. D \in SUBSET Nat
    BY <1>1
  <2> QED
    BY <1>3, <2>1, LeastNumber
<1>5. k \in 1 .. Cardinality(W) /\ p[k] # q[k] /\ p[k] \in W /\ q[k] \in W
  BY <1>2
<1>6. \A m \in 1 .. Cardinality(W) : m < k => p[m] = q[m]
  BY <1>1, <1>4
<1>7. PICK i \in 1 .. Cardinality(W) : p[i] = q[k]
  BY <1>5 DEF IsLine
<1>8. PICK j \in 1 .. Cardinality(W) : q[j] = p[k]
  BY <1>5 DEF IsLine
<1>9. k < i
  <2>1. i # k
    BY <1>5, <1>7
  <2>2. ~(i < k)
    <3> SUFFICES ASSUME i < k PROVE FALSE
      OBVIOUS
    <3>1. q[i] = q[k]
      BY <1>6, <1>7
    <3> QED
      BY <1>5, <2>1, <3>1, LineOnce
  <2> QED
    BY <1>1, <1>5, <2>1, <2>2
<1>10. k < j
  <2>1. j # k
    BY <1>5, <1>8
  <2>2. ~(j < k)
    <3> SUFFICES ASSUME j < k PROVE FALSE
      OBVIOUS
    <3>1. p[j] = p[k]
      BY <1>6, <1>8
    <3> QED
      BY <1>5, <2>1, <3>1, LineOnce
  <2> QED
    BY <1>1, <1>5, <2>1, <2>2
<1>11. <<p[k], q[k]>> \in before /\ <<q[k], p[k]>> \in before
  BY <1>5, <1>7, <1>8, <1>9, <1>10 DEF IsLine
<1> QED
  BY <1>5, <1>11 DEF OneWay

LEMMA LineIs ==
    ASSUME NEW W, IsFiniteSet(W), NEW before, OneWay(W, before),
           NEW q, IsLine(q, W, before)
    PROVE  Line(W, before) = q
<1>1. IsLine(Line(W, before), W, before)
  BY DEF Line, IsLine
<1> QED
  BY <1>1, LineUnique

\* Nobody in line.
LEMMA EmptyLine ==
    ASSUME NEW before
    PROVE  IsLine(<<>>, {}, before) /\ OneWay({}, before)
<1>1. Cardinality({}) = 0
  BY FS_EmptySet
<1> QED
  BY <1>1 DEF IsLine, OneWay

\* A learner joins at the end.
LEMMA LineJoined ==
    ASSUME NEW W, IsFiniteSet(W), NEW before, NEW q, IsLine(q, W, before),
           NEW u, u \notin W, NEW then,
           \A a, b \in W : <<a, b>> \in before => <<a, b>> \in then,
           \A a \in W : <<a, u>> \in then
    PROVE  IsLine(Append(q, u), W \cup {u}, then)
<1> DEFINE c == Cardinality(W)
           r == Append(q, u)
<1>1. c \in Nat /\ Cardinality(W \cup {u}) = c + 1
  BY FS_CardinalityType, FS_AddElement
<1> HIDE DEF c
<1>2. q \in [1 .. c -> W] /\ q \in Seq(W) /\ Len(q) = c
  BY <1>1 DEF IsLine, c
<1>3. /\ r \in [1 .. c + 1 -> W \cup {u}]
      /\ \A n \in 1 .. c : r[n] = q[n]
      /\ r[c + 1] = u
  <2>1. q \in Seq(W \cup {u}) /\ u \in W \cup {u}
    BY <1>1, <1>2
  <2>2. /\ r \in Seq(W \cup {u}) /\ Len(r) = c + 1
        /\ \A n \in 1 .. c : r[n] = q[n]
        /\ r[c + 1] = u
    BY <1>2, <2>1, AppendProperties
  <2> HIDE DEF r
  <2>3. r \in [1 .. Len(r) -> W \cup {u}]
    BY <2>2, LenProperties
  <2> QED
    BY <2>2, <2>3
<1> HIDE DEF r
<1>4. \A v \in W \cup {u} : \E n \in 1 .. c + 1 : r[n] = v
  BY <1>1, <1>3 DEF IsLine, c
<1>5. ASSUME NEW m \in 1 .. c + 1, NEW n \in 1 .. c + 1, m < n PROVE <<r[m], r[n]>> \in then
  <2>1. m \in 1 .. c /\ r[m] = q[m] /\ q[m] \in W
    BY <1>1, <1>2, <1>3, <1>5
  <2>2. CASE n = c + 1
    BY <1>3, <2>1, <2>2
  <2>3. CASE n \in 1 .. c
    BY <1>2, <1>3, <1>5, <2>1, <2>3 DEF IsLine, c
  <2> QED
    BY <1>1, <2>2, <2>3
<1> QED
  BY <1>1, <1>3, <1>4, <1>5 DEF IsLine, r

\* The line without its k-th.
Stepped(q, k) == [n \in 1 .. Len(q) - 1 |-> IF n < k THEN q[n] ELSE q[n + 1]]

LEMMA LineLeft ==
    ASSUME NEW W, IsFiniteSet(W), NEW before, OneWay(W, before), NEW q, IsLine(q, W, before),
           NEW k \in 1 .. Cardinality(W), NEW then,
           \A a, b \in W \ {q[k]} : <<a, b>> \in before => <<a, b>> \in then
    PROVE  IsLine(Stepped(q, k), W \ {q[k]}, then)
<1> DEFINE c == Cardinality(W)
           r == Stepped(q, k)
           V == W \ {q[k]}
<1>1. q[k] \in W
  BY DEF IsLine
<1>2. c \in Nat \ {0} /\ Cardinality(V) = c - 1 /\ k \in 1 .. c
  BY <1>1, FS_CardinalityType, FS_RemoveElement
<1>3. q \in [1 .. c -> W] /\ Len(q) = c
  BY <1>2 DEF IsLine
<1>4. \A m, n \in 1 .. c : q[m] = q[n] => m = n
  BY LineOnce
<1>5. \A m, n \in 1 .. c : m < n => <<q[m], q[n]>> \in before
  BY DEF IsLine
<1>6. \A v \in W : \E n \in 1 .. c : q[n] = v
  BY DEF IsLine
<1> HIDE DEF c, V
<1>7. r = [n \in 1 .. c - 1 |-> IF n < k THEN q[n] ELSE q[n + 1]]
  BY <1>3 DEF Stepped
<1> HIDE DEF r
<1>8. ASSUME NEW n \in 1 .. c - 1 PROVE r[n] \in V
  <2>1. CASE n < k
    BY <1>2, <1>3, <1>4, <1>7, <2>1 DEF V
  <2>2. CASE ~(n < k)
    <3>1. r[n] = q[n + 1] /\ n + 1 \in 1 .. c /\ n + 1 # k
      BY <1>2, <1>7, <2>2
    <3> QED
      BY <1>2, <1>3, <1>4, <3>1 DEF V
  <2> QED
    BY <2>1, <2>2
<1>9. ASSUME NEW v \in V PROVE \E n \in 1 .. c - 1 : r[n] = v
  <2>1. PICK n \in 1 .. c : q[n] = v
    BY <1>6 DEF V
  <2>2. n # k
    BY <2>1 DEF V
  <2>3. CASE n < k
    <3>1. n \in 1 .. c - 1 /\ r[n] = v
      BY <1>2, <1>7, <2>1, <2>3
    <3> QED
      BY <3>1
  <2>4. CASE k < n
    <3>1. n - 1 \in 1 .. c - 1 /\ ~(n - 1 < k) /\ (n - 1) + 1 = n
      BY <1>2, <2>4
    <3>2. r[n - 1] = v
      BY <1>7, <2>1, <3>1
    <3> QED
      BY <3>1, <3>2
  <2> QED
    BY <1>2, <2>2, <2>3, <2>4
<1>10. ASSUME NEW m \in 1 .. c - 1, NEW n \in 1 .. c - 1, m < n PROVE <<r[m], r[n]>> \in then
  <2>1. PICK i \in 1 .. c : r[m] = q[i] /\ i = (IF m < k THEN m ELSE m + 1)
    BY <1>2, <1>7
  <2>2. PICK j \in 1 .. c : r[n] = q[j] /\ j = (IF n < k THEN n ELSE n + 1)
    BY <1>2, <1>7
  <2>3. i < j
    BY <1>2, <1>10, <2>1, <2>2
  <2>4. r[m] \in V /\ r[n] \in V /\ <<r[m], r[n]>> \in before
    BY <1>5, <1>8, <2>1, <2>2, <2>3
  <2> QED
    BY <2>4 DEF V
<1> QED
  BY <1>2, <1>7, <1>8, <1>9, <1>10 DEF IsLine, V, r

\* Who is first in line, and the line behind them.
Firsts(W, before) == {u \in W : \A v \in W : <<v, u>> \notin before}

LEMMA FirstInLine ==
    ASSUME NEW W, IsFiniteSet(W), W # {}, NEW before, OneWay(W, before),
           NEW q, IsLine(q, W, before)
    PROVE  /\ Len(q) = Cardinality(W) /\ 1 \in 1 .. Len(q) /\ q # <<>>
           /\ q[1] \in W /\ Head(q) = q[1]
           /\ Firsts(W, before) = {q[1]}
           /\ Tail(q) = Stepped(q, 1)
           /\ IsLine(Tail(q), W \ {q[1]}, before)
<1>1. Cardinality(W) \in Nat /\ Cardinality(W) # 0
  BY FS_CardinalityType, FS_EmptySet
<1>2. q \in [1 .. Cardinality(W) -> W] /\ Len(q) = Cardinality(W) /\ q \in Seq(W)
  BY <1>1 DEF IsLine
<1>3. 1 \in 1 .. Cardinality(W) /\ q # <<>> /\ q[1] \in W
  BY <1>1, <1>2
<1>4. Head(q) = q[1] /\ Tail(q) = Stepped(q, 1)
  <2>1. Head(q) = q[1]
    BY <1>2, <1>3
  <2>2. Tail(q) = [n \in 1 .. Len(q) - 1 |-> q[n + 1]]
    <3>1. /\ Tail(q) \in Seq(W) /\ Len(Tail(q)) = Len(q) - 1
          /\ \A n \in 1 .. Len(Tail(q)) : Tail(q)[n] = q[n + 1]
      BY <1>2, <1>3, HeadTailProperties
    <3>2. PICK t \in Seq(W) : t = Tail(q)
      BY <3>1
    <3>3. t = [n \in 1 .. Len(t) |-> t[n]]
      <4>1. t \in [1 .. Len(t) -> W]
        BY LenProperties
      <4> QED
        BY <4>1
    <3>4. [n \in 1 .. Len(t) |-> t[n]] = [n \in 1 .. Len(q) - 1 |-> q[n + 1]]
      BY <3>1, <3>2
    <3> QED
      BY <3>2, <3>3, <3>4
  <2>3. \A n \in 1 .. Len(q) - 1 : ~(n < 1)
    BY <1>1, <1>2
  <2> QED
    BY <2>1, <2>2, <2>3 DEF Stepped
<1>5. IsLine(Tail(q), W \ {q[1]}, before)
  <2>1. \A a, b \in W \ {q[1]} : <<a, b>> \in before => <<a, b>> \in before
    OBVIOUS
  <2>2. IsLine(Stepped(q, 1), W \ {q[1]}, before)
    BY <1>3, <2>1, LineLeft
  <2> QED
    BY <1>4, <2>2
<1>6. ASSUME NEW v \in W PROVE <<v, q[1]>> \notin before
  <2>1. PICK m \in 1 .. Cardinality(W) : q[m] = v
    BY DEF IsLine
  <2>2. CASE m = 1
    BY <1>3, <2>1, <2>2 DEF OneWay
  <2>3. CASE 1 < m
    <3>1. <<q[1], q[m]>> \in before
      BY <1>3, <2>3 DEF IsLine
    <3> QED
      BY <1>3, <2>1, <3>1 DEF OneWay
  <2> QED
    BY <1>1, <2>2, <2>3
<1>7. ASSUME NEW u \in Firsts(W, before) PROVE u = q[1]
  <2>1. PICK m \in 1 .. Cardinality(W) : q[m] = u
    BY DEF IsLine, Firsts
  <2>2. ~(1 < m)
    <3> SUFFICES ASSUME 1 < m PROVE FALSE
      OBVIOUS
    <3>1. <<q[1], q[m]>> \in before
      BY <1>3 DEF IsLine
    <3> QED
      BY <1>3, <2>1, <3>1 DEF Firsts
  <2> QED
    BY <1>1, <2>1, <2>2
<1>8. Firsts(W, before) = {q[1]}
  BY <1>3, <1>6, <1>7 DEF Firsts
<1> QED
  BY <1>2, <1>3, <1>4, <1>5, <1>8

\* The seats and the queue a reader of the book sees.
ShownSeats(handing, A, q) == IF handing /\ q # <<>> THEN A \cup {q[1]} ELSE A
ShownQueue(handing, q)    == IF handing /\ q # <<>> THEN Tail(q) ELSE q

HeirsOf(handing, W, before) == IF handing THEN Firsts(W, before) ELSE {}

LEMMA Shown ==
    ASSUME NEW W, IsFiniteSet(W), NEW before, OneWay(W, before),
           NEW q, IsLine(q, W, before), NEW handing \in BOOLEAN, NEW A
    PROVE  /\ A \cup HeirsOf(handing, W, before) = ShownSeats(handing, A, q)
           /\ Line(W \ HeirsOf(handing, W, before), before) = ShownQueue(handing, q)
<1>1. ASSUME W = {} PROVE q = <<>>
  <2>1. Cardinality(W) = 0
    BY <1>1, FS_EmptySet
  <2> QED
    BY <2>1 DEF IsLine
<1>2. ASSUME ~(handing /\ q # <<>>)
      PROVE  HeirsOf(handing, W, before) = {} /\ W \ HeirsOf(handing, W, before) = W
  <2>1. CASE W = {}
    BY <2>1 DEF HeirsOf, Firsts
  <2>2. CASE W # {}
    BY <1>2, <2>2, FirstInLine DEF HeirsOf
  <2> QED
    BY <2>1, <2>2
<1>3. CASE ~(handing /\ q # <<>>)
  <2>1. Line(W, before) = q
    BY LineIs
  <2> QED
    BY <1>2, <1>3, <2>1 DEF ShownSeats, ShownQueue
<1>4. CASE handing /\ q # <<>>
  <2>1. HeirsOf(handing, W, before) = {q[1]} /\ IsLine(Tail(q), W \ {q[1]}, before)
    BY <1>1, <1>4, FirstInLine DEF HeirsOf
  <2>2. IsFiniteSet(W \ {q[1]}) /\ OneWay(W \ {q[1]}, before)
    BY FS_Subset DEF OneWay
  <2>3. Line(W \ {q[1]}, before) = Tail(q)
    BY <2>1, <2>2, LineIs
  <2> QED
    BY <1>4, <2>1, <2>3 DEF ShownSeats, ShownQueue
<1> QED
  BY <1>3, <1>4

-------------------------------------------------------------------------------
(* What the one request holds                                              *)

\* It has taken the time its row will be stamped with; it is handing a seat over.
Stamped(label, l) == label \in {"seat", "write"} /\ l.row = "none"
Handing(label, l) ==
    label \in {"left", "course", "room", "next", "grant"} /\ l.row = "active"

\* Those who wait are in line, and a time taken since is later than theirs.
InLine(w) ==
    /\ earlier \subseteq Waitlisted \X (Waitlisted \cup {w})
    /\ OneWay(Waitlisted, earlier)
    /\ \E q : IsLine(q, Waitlisted, earlier)
    /\ IF Stamped(pc[w], loc[w]) THEN \A v \in Waitlisted : <<v, w>> \in earlier
                                 ELSE \A v \in Waitlisted : <<v, w>> \notin earlier

\* What it has read and counted is still so.
AsRead(label, l) ==
    /\ label \in {"invite", "row", "seat"} => l.waitlist
    /\ label \in {"seat", "write"} =>
          l.row \in {"none", "cancelled"} /\ status[l.user] = l.row
    /\ label = "write" /\ l.seat = "waitlisted" => ~Room(CapacityLimit)
    /\ label = "cancel" => l.row \in {"active", "waitlisted"} /\ status[l.user] = l.row
    /\ label \in {"course", "room", "next", "grant"} => l.row = "active"
    /\ Handing(label, l) => Room(CapacityLimit)
    /\ label = "grant" => l.user \in Oldest

BookKept(w) == InLine(w) /\ AsRead(pc[w], loc[w])

\* What the book shows of a state whose line is q.
LEMMA BookShown ==
    ASSUME NEW w, Workers = {w}, OneWay(Waitlisted, earlier),
           NEW q, IsLine(q, Waitlisted, earlier)
    PROVE  /\ Seated = ShownSeats(Handing(pc[w], loc[w]), Active, q)
           /\ Queue = ShownQueue(Handing(pc[w], loc[w]), q)
<1>1. HandingOver = Handing(pc[w], loc[w]) /\ Handing(pc[w], loc[w]) \in BOOLEAN
  BY DEF HandingOver, Handing
<1>2. HeirToSeat = HeirsOf(Handing(pc[w], loc[w]), Waitlisted, earlier)
  BY <1>1 DEF HeirToSeat, HeirsOf, Firsts, Oldest
<1>3. IsFiniteSet(Waitlisted)
  BY Countable DEF Waitlisted
<1> QED
  BY <1>1, <1>2, <1>3, Shown DEF Seated, Queue

LEMMA BookShownNext ==
    ASSUME NEW w, Workers = {w}, OneWay(Waitlisted', earlier'),
           NEW q, IsLine(q, Waitlisted', earlier')
    PROVE  /\ Seated' = ShownSeats(Handing(pc'[w], loc'[w]), Active', q)
           /\ Queue' = ShownQueue(Handing(pc'[w], loc'[w]), q)
<1>1. HandingOver' = Handing(pc'[w], loc'[w]) /\ Handing(pc'[w], loc'[w]) \in BOOLEAN
  BY DEF HandingOver, Handing
<1>2. HeirToSeat' = HeirsOf(Handing(pc'[w], loc'[w]), Waitlisted', earlier')
  BY <1>1 DEF HeirToSeat, HeirsOf, Firsts, Oldest
<1>3. IsFiniteSet(Waitlisted')
  BY Countable DEF Waitlisted
<1> QED
  BY <1>1, <1>2, <1>3, Shown DEF Seated, Queue

\* A request goes on and no row changes.
LEMMA BookStays ==
    ASSUME Typed, NEW w, Workers = {w}, BookKept(w), NEW label, NEW l, Hold(w, label, l),
           status' = status, AsRead(label, l),
           \/ earlier' = earlier /\ (Stamped(label, l) <=> Stamped(pc[w], loc[w]))
           \/ /\ ~Stamped(pc[w], loc[w]) /\ Stamped(label, l)
              /\ earlier' = earlier \cup (Waitlisted \X {w}),
           (Handing(label, l) <=> Handing(pc[w], loc[w])) \/ Waitlisted = {}
    PROVE  BookKept(w)' /\ UNCHANGED Book!book
<1>1. w \in Workers /\ w \notin Waitlisted
  BY UsersAssumption DEF Waitlisted
<1>2. pc'[w] = label /\ loc'[w] = l
  BY <1>1 DEF Hold, Typed, TypeOK
<1>3. Active' = Active /\ Waitlisted' = Waitlisted
  BY DEF Active, Waitlisted
<1>4. \A a, b \in Waitlisted : <<a, b>> \in earlier' <=> <<a, b>> \in earlier
  BY <1>1
<1>5. PICK q : IsLine(q, Waitlisted, earlier)
  BY DEF BookKept, InLine
<1>6. IsLine(q, Waitlisted', earlier')
  BY <1>3, <1>4, <1>5 DEF IsLine
<1>7. OneWay(Waitlisted, earlier) /\ OneWay(Waitlisted', earlier')
  BY <1>3, <1>4 DEF BookKept, InLine, OneWay
<1>8. InLine(w)'
  <2>1. earlier' \subseteq Waitlisted' \X (Waitlisted' \cup {w})
    BY <1>3 DEF BookKept, InLine
  <2>2. IF Stamped(label, l) THEN \A v \in Waitlisted : <<v, w>> \in earlier'
                             ELSE \A v \in Waitlisted : <<v, w>> \notin earlier'
    BY DEF BookKept, InLine
  <2> QED
    BY <1>2, <1>3, <1>6, <1>7, <2>1, <2>2 DEF InLine
<1>9. AsRead(label, l)'
  <2>1. Oldest' = Oldest
    BY <1>3, <1>4 DEF Oldest
  <2>2. Room(CapacityLimit)' = Room(CapacityLimit)
    BY <1>3 DEF Room
  <2> QED
    BY <2>1, <2>2 DEF AsRead
<1>10. Seated' = Seated /\ Queue' = Queue
  <2>1. /\ Seated = ShownSeats(Handing(pc[w], loc[w]), Active, q)
        /\ Queue = ShownQueue(Handing(pc[w], loc[w]), q)
    BY <1>5, <1>7, BookShown
  <2>2. /\ Seated' = ShownSeats(Handing(label, l), Active, q)
        /\ Queue' = ShownQueue(Handing(label, l), q)
    BY <1>2, <1>3, <1>6, <1>7, BookShownNext
  <2>3. CASE Handing(label, l) <=> Handing(pc[w], loc[w])
    BY <2>1, <2>2, <2>3 DEF ShownSeats, ShownQueue
  <2>4. CASE Waitlisted = {}
    <3>1. q = <<>>
      <4>1. Cardinality(Waitlisted) = 0
        BY <2>4, FS_EmptySet
      <4> QED
        BY <1>5, <4>1 DEF IsLine
    <3> QED
      BY <2>1, <2>2, <3>1 DEF ShownSeats, ShownQueue
  <2> QED
    BY <2>3, <2>4
<1> QED
  BY <1>2, <1>8, <1>9, <1>10 DEF BookKept, Book!book

\* A learner leaves the line or was not in it: no time is kept of them, nor of w.
LEMMA LineWithout ==
    ASSUME Typed, NEW w, Workers = {w}, BookKept(w), NEW u \in Users,
           earlier' = Without({u, w}), Waitlisted' = Waitlisted \ {u},
           ~Stamped(pc'[w], loc'[w])
    PROVE  InLine(w)'
<1>1. w \notin Waitlisted /\ w \notin Waitlisted'
  BY UsersAssumption DEF Waitlisted
<1>2. \A a, b \in Waitlisted' : <<a, b>> \in earlier => <<a, b>> \in earlier'
  BY <1>1 DEF Without
<1>3. \A a, b : <<a, b>> \in earlier' => <<a, b>> \in earlier /\ a \notin {u, w} /\ b \notin {u, w}
  BY DEF Without
<1>4. earlier' \subseteq Waitlisted' \X Waitlisted'
  <2> SUFFICES ASSUME NEW p \in earlier' PROVE p \in Waitlisted' \X Waitlisted'
    OBVIOUS
  <2>1. p \in earlier /\ p[1] \notin {u, w} /\ p[2] \notin {u, w}
    BY DEF Without
  <2>2. p \in Waitlisted \X (Waitlisted \cup {w})
    BY <2>1 DEF BookKept, InLine
  <2> QED
    BY <2>1, <2>2
<1>5. OneWay(Waitlisted', earlier')
  BY <1>3 DEF BookKept, InLine, OneWay
<1>6. \E q : IsLine(q, Waitlisted', earlier')
  <2>1. PICK q : IsLine(q, Waitlisted, earlier)
    BY DEF BookKept, InLine
  <2>2. CASE u \notin Waitlisted
    <3>1. Waitlisted' = Waitlisted
      BY <2>2
    <3>2. IsLine(q, Waitlisted', earlier')
      BY <1>2, <2>1, <3>1 DEF IsLine
    <3> QED
      BY <3>2
  <2>3. CASE u \in Waitlisted
    <3>1. PICK k \in 1 .. Cardinality(Waitlisted) : q[k] = u
      BY <2>1, <2>3 DEF IsLine
    <3>2. IsFiniteSet(Waitlisted) /\ OneWay(Waitlisted, earlier)
      BY Countable DEF Waitlisted, BookKept, InLine
    <3>3. IsLine(Stepped(q, k), Waitlisted', earlier')
      BY <1>2, <2>1, <3>1, <3>2, LineLeft
    <3> QED
      BY <3>3
  <2> QED
    BY <2>2, <2>3
<1>7. \A v \in Waitlisted' : <<v, w>> \notin earlier'
  BY <1>3
<1> QED
  BY <1>4, <1>5, <1>6, <1>7 DEF InLine

\* Forgetting times in the ways the writes of a row do.
LEMMA TimesForgotten ==
    ASSUME NEW w, NEW u, NEW s, s # "waitlisted"
    PROVE  Restamped(w, u, s) = Without({u, w})
BY DEF Restamped

\* The book counts as its users do.
LEMMA BookCounts ==
    ASSUME NEW S
    PROVE  Book!Cardinality(S) = Cardinality(S)
BY DEF Cardinality, Book!Cardinality

\* Create and UpdateStatus(active): the learner joins the book and finds a seat.
LEMMA BookSeat ==
    ASSUME Typed, NEW w, Workers = {w}, BookKept(w), SeatsFit(w), Capacities = {CapacityLimit},
           WriteSeat(w), loc[w].seat = "active"
    PROVE  BookKept(w)' /\ Book!Next
<1>1. PICK u \in Users : u = loc[w].user
  BY DEF Typed, WorkersPrepared, Prepared, WriteSeat
<1>2. /\ w \in Workers /\ pc[w] = "write" /\ status[u] = loc[w].row
      /\ loc[w].row \in {"none", "cancelled"}
  BY <1>1 DEF BookKept, AsRead, WriteSeat
<1>3. /\ status' = [status EXCEPT ![u] = "active"]
      /\ earlier' = Without({u, w})
      /\ \E label \in {"event", "uses"} : Goto(w, label)
  BY <1>1, <1>2, TimesForgotten DEF WriteSeat
<1>4. pc'[w] \in {"event", "uses"} /\ loc'[w] = loc[w]
  BY <1>2, <1>3 DEF Goto, Typed, TypeOK
<1>5. /\ u \notin Active /\ u \notin Waitlisted
      /\ Active' = Active \cup {u} /\ Waitlisted' = Waitlisted
  BY <1>2, <1>3 DEF Active, Waitlisted, Typed, TypeOK
<1>6. InLine(w)'
  BY <1>3, <1>4, <1>5, LineWithout DEF Stamped
<1>7. AsRead(pc[w], loc[w])'
  BY <1>4 DEF AsRead, Handing
<1>8. PICK q : IsLine(q, Waitlisted, earlier)
  BY DEF BookKept, InLine
<1>9. OneWay(Waitlisted, earlier) /\ OneWay(Waitlisted', earlier')
  BY <1>6 DEF BookKept, InLine
<1>10. IsLine(q, Waitlisted', earlier')
  <2>1. w \notin Waitlisted
    BY UsersAssumption DEF Waitlisted
  <2>2. \A a, b \in Waitlisted : <<a, b>> \in earlier => <<a, b>> \in earlier'
    BY <1>3, <1>5, <2>1 DEF Without
  <2> QED
    BY <1>5, <1>8, <2>2 DEF IsLine
<1>11. Seated = Active /\ Queue = q
  BY <1>2, <1>8, <1>9, BookShown DEF ShownSeats, ShownQueue, Handing
<1>12. Seated' = Active \cup {u} /\ Queue' = q
  BY <1>4, <1>5, <1>9, <1>10, BookShownNext DEF ShownSeats, ShownQueue, Handing
<1>13. u \notin Book!Queued
  <2>1. Cardinality(Waitlisted) \in Nat
    BY Countable DEF Waitlisted
  <2>2. \A k \in 1 .. Len(q) : q[k] \in Waitlisted
    BY <1>8, <2>1 DEF IsLine
  <2> QED
    BY <1>5, <1>11, <2>2 DEF Book!Queued
<1>14. Cardinality(Active) < CapacityLimit
  <2>1. course.capacity = CapacityLimit /\ CapacityLimit # Unlimited
    BY LimitsAssumption DEF Typed, TypeOK, Course
  <2> QED
    BY <1>2, <2>1 DEF SeatsFit
<1>15. Book!Join(u)
  BY <1>5, <1>11, <1>12, <1>13, <1>14, BookCounts DEF Book!Join
<1> QED
  BY <1>6, <1>7, <1>15 DEF BookKept, Book!Next

\* The same when there is none: the learner joins at the end of the line, stamped
\* with the time taken before the count, or at the write.
LEMMA Lined ==
    ASSUME Typed, NEW w, Workers = {w}, BookKept(w), pc[w] = "write", NEW u \in Users,
           u = loc[w].user, u \notin Waitlisted
    PROVE  /\ Restamped(w, u, "waitlisted") \subseteq
                  (Waitlisted \cup {u}) \X (Waitlisted \cup {u})
           /\ \A a, b \in Waitlisted :
                  <<a, b>> \in Restamped(w, u, "waitlisted") <=> <<a, b>> \in earlier
           /\ \A a \in Waitlisted : <<a, u>> \in Restamped(w, u, "waitlisted")
           /\ \A a \in Waitlisted \cup {u} : <<u, a>> \notin Restamped(w, u, "waitlisted")
<1> DEFINE R == Restamped(w, u, "waitlisted")
           owner(h) == IF h = w THEN u ELSE h
<1>1. w \notin Waitlisted /\ w # u /\ w \notin Users
  BY UsersAssumption DEF Waitlisted
<1>2. /\ earlier \subseteq Waitlisted \X (Waitlisted \cup {w})
      /\ loc[w].row = "none" => \A v \in Waitlisted : <<v, w>> \in earlier
      /\ loc[w].row # "none" => \A v \in Waitlisted : <<v, w>> \notin earlier
  BY DEF BookKept, InLine, Stamped
<1>3. Without({u}) = earlier
  BY <1>1, <1>2 DEF Without
<1>4. CASE loc[w].row = "none"
  <2>1. R = {<<owner(p[1]), owner(p[2])>> : p \in earlier}
    BY <1>3, <1>4 DEF Restamped
  <2>2. ASSUME NEW a, NEW b
        PROVE  <<a, b>> \in R <=> \E c, d : <<c, d>> \in earlier /\ a = owner(c) /\ b = owner(d)
    <3>1. ASSUME <<a, b>> \in R
          PROVE  \E c, d : <<c, d>> \in earlier /\ a = owner(c) /\ b = owner(d)
      <4>1. PICK p \in earlier : <<a, b>> = <<owner(p[1]), owner(p[2])>>
        BY <2>1, <3>1
      <4>2. p = <<p[1], p[2]>>
        BY <1>2
      <4>3. <<p[1], p[2]>> \in earlier /\ a = owner(p[1]) /\ b = owner(p[2])
        BY <4>1, <4>2
      <4> QED
        BY <4>3
    <3>2. ASSUME NEW c, NEW d, <<c, d>> \in earlier, a = owner(c), b = owner(d)
          PROVE  <<a, b>> \in R
      <4>1. PICK p \in earlier : p = <<c, d>>
        BY <3>2
      <4>2. <<a, b>> = <<owner(p[1]), owner(p[2])>>
        BY <3>2, <4>1
      <4> QED
        BY <2>1, <4>2
    <3> QED
      BY <3>1, <3>2
  <2>3. R \subseteq (Waitlisted \cup {u}) \X (Waitlisted \cup {u})
    BY <1>2, <2>1
  <2>4. ASSUME NEW a \in Waitlisted, NEW b \in Waitlisted
        PROVE  <<a, b>> \in R <=> <<a, b>> \in earlier
    BY <1>1, <2>2
  <2>5. ASSUME NEW a \in Waitlisted PROVE <<a, u>> \in R
    <3>1. <<a, w>> \in earlier /\ a = owner(a) /\ u = owner(w)
      BY <1>1, <1>2, <1>4
    <3> QED
      BY <2>2, <3>1
  <2>6. ASSUME NEW a \in Waitlisted \cup {u} PROVE <<u, a>> \notin R
    <3> SUFFICES ASSUME <<u, a>> \in R PROVE FALSE
      OBVIOUS
    <3>1. PICK c, d : <<c, d>> \in earlier /\ u = owner(c)
      BY <2>2
    <3>2. c \in Waitlisted
      BY <1>2, <3>1
    <3> QED
      BY <1>1, <3>1, <3>2
  <2> QED
    BY <2>3, <2>4, <2>5, <2>6
<1>5. CASE loc[w].row # "none"
  <2>1. Holders \ {u} = Waitlisted
    BY <1>5 DEF Holders
  <2>2. R = earlier \cup (Waitlisted \X {u})
    BY <1>3, <1>5, <2>1 DEF Restamped
  <2>3. R \subseteq (Waitlisted \cup {u}) \X (Waitlisted \cup {u})
    <3>1. ASSUME NEW p \in earlier PROVE p \in Waitlisted \X Waitlisted
      <4>1. p \in Waitlisted \X (Waitlisted \cup {w})
        BY <1>2
      <4>2. p[2] # w
        BY <1>2, <1>5, <4>1
      <4> QED
        BY <4>1, <4>2
    <3> QED
      BY <2>2, <3>1
  <2>4. \A a, b \in Waitlisted : <<a, b>> \in R <=> <<a, b>> \in earlier
    BY <1>1, <2>2
  <2>5. \A a \in Waitlisted : <<a, u>> \in R
    BY <2>2
  <2>6. \A a : <<u, a>> \notin R
    BY <1>2, <2>2
  <2> QED
    BY <2>3, <2>4, <2>5, <2>6
<1> QED
  BY <1>4, <1>5

LEMMA BookWait ==
    ASSUME Typed, NEW w, Workers = {w}, BookKept(w), WriteSeat(w), loc[w].seat = "waitlisted"
    PROVE  BookKept(w)' /\ Book!Next
<1>1. PICK u \in Users : u = loc[w].user
  BY DEF Typed, WorkersPrepared, Prepared, WriteSeat
<1>2. /\ w \in Workers /\ pc[w] = "write" /\ status[u] = loc[w].row
      /\ loc[w].row \in {"none", "cancelled"} /\ ~Room(CapacityLimit)
  BY <1>1 DEF BookKept, AsRead, WriteSeat
<1>3. /\ status' = [status EXCEPT ![u] = "waitlisted"]
      /\ earlier' = Restamped(w, u, "waitlisted")
      /\ \E label \in {"event", "uses"} : Goto(w, label)
  BY <1>1, <1>2 DEF WriteSeat
<1>4. pc'[w] \in {"event", "uses"} /\ loc'[w] = loc[w]
  BY <1>2, <1>3 DEF Goto, Typed, TypeOK
<1>5. /\ u \notin Active /\ u \notin Waitlisted
      /\ Active' = Active /\ Waitlisted' = Waitlisted \cup {u}
  BY <1>2, <1>3 DEF Active, Waitlisted, Typed, TypeOK
<1>6. /\ earlier' \subseteq Waitlisted' \X Waitlisted'
      /\ \A a, b \in Waitlisted : <<a, b>> \in earlier' <=> <<a, b>> \in earlier
      /\ \A a \in Waitlisted : <<a, u>> \in earlier'
      /\ \A a \in Waitlisted' : <<u, a>> \notin earlier'
  BY <1>1, <1>2, <1>3, <1>5, Lined
<1>7. OneWay(Waitlisted, earlier) /\ OneWay(Waitlisted', earlier')
  BY <1>5, <1>6 DEF BookKept, InLine, OneWay
<1>8. PICK q : IsLine(q, Waitlisted, earlier)
  BY DEF BookKept, InLine
<1>9. IsLine(Append(q, u), Waitlisted', earlier')
  <2>1. IsFiniteSet(Waitlisted)
    BY Countable DEF Waitlisted
  <2>2. IsLine(Append(q, u), Waitlisted \cup {u}, earlier')
    BY <1>5, <1>6, <1>8, <2>1, LineJoined
  <2> QED
    BY <1>5, <2>2
<1>10. InLine(w)'
  <2>1. w \notin Waitlisted'
    BY UsersAssumption DEF Waitlisted
  <2>2. ~Stamped(pc'[w], loc'[w]) /\ \A v \in Waitlisted' : <<v, w>> \notin earlier'
    BY <1>4, <1>6, <2>1 DEF Stamped
  <2> QED
    BY <1>6, <1>7, <1>9, <2>2 DEF InLine
<1>11. AsRead(pc[w], loc[w])'
  BY <1>4 DEF AsRead, Handing
<1>12. Seated = Active /\ Queue = q
  BY <1>2, <1>7, <1>8, BookShown DEF ShownSeats, ShownQueue, Handing
<1>13. Seated' = Active /\ Queue' = Append(q, u)
  BY <1>4, <1>5, <1>7, <1>9, BookShownNext DEF ShownSeats, ShownQueue, Handing
<1>14. u \notin Book!Queued
  <2>1. Cardinality(Waitlisted) \in Nat
    BY Countable DEF Waitlisted
  <2>2. \A k \in 1 .. Len(q) : q[k] \in Waitlisted
    BY <1>8, <2>1 DEF IsLine
  <2> QED
    BY <1>5, <1>12, <2>2 DEF Book!Queued
<1>15. Cardinality(Active) >= CapacityLimit
  <2>1. Cardinality(Active) \in Nat
    BY Countable DEF Active
  <2> QED
    BY <1>2, <2>1, LimitsAssumption DEF Room
<1>16. Book!Join(u)
  BY <1>5, <1>12, <1>13, <1>14, <1>15, BookCounts DEF Book!Join
<1> QED
  BY <1>10, <1>11, <1>16 DEF BookKept, Book!Next

\* UpdateStatus(cancelled) of a seat: it goes to the first in line.
LEMMA BookLeave ==
    ASSUME Typed, NEW w, Workers = {w}, BookKept(w), CancelSeat(w), loc[w].row = "active",
           Cardinality(Active) <= CapacityLimit
    PROVE  BookKept(w)' /\ Book!Next
<1>1. PICK u \in Users : u = loc[w].user
  BY DEF Typed, WorkersPrepared, Prepared, CancelSeat
<1>2. w \in Workers /\ pc[w] = "cancel" /\ status[u] = "active"
  BY <1>1 DEF BookKept, AsRead, CancelSeat
<1>3. /\ status' = [status EXCEPT ![u] = "cancelled"]
      /\ earlier' = Without({u, w}) /\ Goto(w, "left")
  BY <1>1, TimesForgotten DEF CancelSeat
<1>4. pc'[w] = "left" /\ loc'[w] = loc[w]
  BY <1>2, <1>3 DEF Goto, Typed, TypeOK
<1>5. /\ u \in Active /\ u \notin Waitlisted
      /\ Active' = Active \ {u} /\ Waitlisted' = Waitlisted
  BY <1>2, <1>3 DEF Active, Waitlisted, Typed, TypeOK
<1>6. InLine(w)'
  BY <1>3, <1>4, <1>5, LineWithout DEF Stamped
<1>7. AsRead(pc[w], loc[w])'
  <2>1. IsFiniteSet(Active) /\ Cardinality(Active) \in Nat
    BY Countable DEF Active
  <2>2. Cardinality(Active') = Cardinality(Active) - 1
    BY <1>5, <2>1, FS_RemoveElement
  <2>3. Room(CapacityLimit)'
    BY <2>1, <2>2, LimitsAssumption DEF Room
  <2> QED
    BY <1>4, <2>3 DEF AsRead
<1>8. PICK q : IsLine(q, Waitlisted, earlier)
  BY DEF BookKept, InLine
<1>9. OneWay(Waitlisted, earlier) /\ OneWay(Waitlisted', earlier')
  BY <1>6 DEF BookKept, InLine
<1>10. IsLine(q, Waitlisted', earlier')
  <2>1. w \notin Waitlisted
    BY UsersAssumption DEF Waitlisted
  <2>2. \A a, b \in Waitlisted : <<a, b>> \in earlier => <<a, b>> \in earlier'
    BY <1>3, <1>5, <2>1 DEF Without
  <2> QED
    BY <1>5, <1>8, <2>2 DEF IsLine
<1>11. Seated = Active /\ Queue = q
  BY <1>2, <1>8, <1>9, BookShown DEF ShownSeats, ShownQueue, Handing
<1>12. /\ Seated' = ShownSeats(TRUE, Active \ {u}, q)
       /\ Queue' = ShownQueue(TRUE, q)
  <2>1. Handing(pc'[w], loc'[w]) = TRUE
    BY <1>4 DEF Handing
  <2> QED
    BY <1>5, <1>9, <1>10, <2>1, BookShownNext
<1>13. Book!LeaveSeat(u)
  <2>1. CASE q = <<>>
    BY <1>5, <1>11, <1>12, <2>1 DEF ShownSeats, ShownQueue, Book!LeaveSeat
  <2>2. CASE q # <<>>
    <3>1. Head(q) = q[1]
      <4>1. IsFiniteSet(Waitlisted)
        BY Countable DEF Waitlisted
      <4>2. Waitlisted # {}
        <5>1. Waitlisted = {} => Cardinality(Waitlisted) = 0
          BY FS_EmptySet
        <5> QED
          BY <1>8, <2>2, <5>1 DEF IsLine
      <4> QED
        BY <1>8, <1>9, <4>1, <4>2, FirstInLine
    <3> QED
      BY <1>5, <1>11, <1>12, <2>2, <3>1 DEF ShownSeats, ShownQueue, Book!LeaveSeat
  <2> QED
    BY <2>1, <2>2
<1> QED
  BY <1>6, <1>7, <1>13 DEF BookKept, Book!Next

\* The same of a place in the line: the others move up.
LEMMA BookLeaveLine ==
    ASSUME Typed, NEW w, Workers = {w}, BookKept(w), CancelSeat(w), loc[w].row = "waitlisted"
    PROVE  BookKept(w)' /\ Book!Next
<1>1. PICK u \in Users : u = loc[w].user
  BY DEF Typed, WorkersPrepared, Prepared, CancelSeat
<1>2. w \in Workers /\ pc[w] = "cancel" /\ status[u] = "waitlisted"
  BY <1>1 DEF BookKept, AsRead, CancelSeat
<1>3. /\ status' = [status EXCEPT ![u] = "cancelled"]
      /\ earlier' = Without({u, w}) /\ Goto(w, "left")
  BY <1>1, TimesForgotten DEF CancelSeat
<1>4. pc'[w] = "left" /\ loc'[w] = loc[w]
  BY <1>2, <1>3 DEF Goto, Typed, TypeOK
<1>5. /\ u \in Waitlisted /\ Active' = Active /\ Waitlisted' = Waitlisted \ {u}
  BY <1>2, <1>3 DEF Active, Waitlisted, Typed, TypeOK
<1>6. InLine(w)'
  BY <1>3, <1>4, <1>5, LineWithout DEF Stamped
<1>7. AsRead(pc[w], loc[w])'
  BY <1>4 DEF AsRead, Handing
<1>8. PICK q : IsLine(q, Waitlisted, earlier)
  BY DEF BookKept, InLine
<1>9. OneWay(Waitlisted, earlier) /\ OneWay(Waitlisted', earlier')
  BY <1>6 DEF BookKept, InLine
<1>10. PICK k \in 1 .. Cardinality(Waitlisted) : q[k] = u
  BY <1>5, <1>8 DEF IsLine
<1>11. IsFiniteSet(Waitlisted) /\ Len(q) = Cardinality(Waitlisted)
  <2>1. IsFiniteSet(Waitlisted) /\ Cardinality(Waitlisted) \in Nat
    BY Countable DEF Waitlisted
  <2> QED
    BY <1>8, <2>1 DEF IsLine
<1>12. IsLine(Stepped(q, k), Waitlisted', earlier')
  <2>1. w \notin Waitlisted
    BY UsersAssumption DEF Waitlisted
  <2>2. \A a, b \in Waitlisted \ {q[k]} : <<a, b>> \in earlier => <<a, b>> \in earlier'
    BY <1>3, <1>10, <2>1 DEF Without
  <2>3. IsLine(Stepped(q, k), Waitlisted \ {q[k]}, earlier')
    BY <1>8, <1>9, <1>10, <1>11, <2>2, LineLeft
  <2> QED
    BY <1>5, <1>10, <2>3
<1>13. Seated = Active /\ Queue = q
  BY <1>2, <1>8, <1>9, BookShown DEF ShownSeats, ShownQueue, Handing
<1>14. Seated' = Active /\ Queue' = Stepped(q, k)
  BY <1>4, <1>5, <1>9, <1>12, BookShownNext DEF ShownSeats, ShownQueue, Handing
<1>15. Book!LeaveQueue(k) /\ k \in 1 .. Len(Queue)
  BY <1>10, <1>11, <1>13, <1>14 DEF Book!LeaveQueue, Stepped
<1> QED
  BY <1>6, <1>7, <1>15 DEF BookKept, Book!Next

\* UpdateStatus(active) of the first in line, who had the seat in the book already.
LEMMA BookGrant ==
    ASSUME Typed, NEW w, Workers = {w}, BookKept(w), GrantSeat(w)
    PROVE  BookKept(w)' /\ UNCHANGED Book!book
<1>1. PICK u \in Users : u = loc[w].user
  BY DEF Typed, WorkersPrepared, Prepared, GrantSeat
<1>2. w \in Workers /\ pc[w] = "grant" /\ loc[w].row = "active" /\ u \in Oldest
  BY <1>1 DEF BookKept, AsRead, GrantSeat
<1>3. /\ status' = [status EXCEPT ![u] = "active"]
      /\ earlier' = Without({u, w}) /\ Goto(w, "granted")
  BY <1>1, TimesForgotten DEF GrantSeat
<1>4. pc'[w] = "granted" /\ loc'[w] = loc[w]
  BY <1>2, <1>3 DEF Goto, Typed, TypeOK
<1>5. /\ u \in Waitlisted /\ Active' = Active \cup {u} /\ Waitlisted' = Waitlisted \ {u}
  BY <1>2, <1>3 DEF Active, Waitlisted, Oldest, Typed, TypeOK
<1>6. InLine(w)'
  BY <1>3, <1>4, <1>5, LineWithout DEF Stamped
<1>7. AsRead(pc[w], loc[w])'
  BY <1>4 DEF AsRead, Handing
<1>8. PICK q : IsLine(q, Waitlisted, earlier)
  BY DEF BookKept, InLine
<1>9. OneWay(Waitlisted, earlier) /\ OneWay(Waitlisted', earlier')
  BY <1>6 DEF BookKept, InLine
<1>10. IsFiniteSet(Waitlisted)
  BY Countable DEF Waitlisted
<1>11. /\ Firsts(Waitlisted, earlier) = {q[1]} /\ q # <<>> /\ Tail(q) = Stepped(q, 1)
       /\ 1 \in 1 .. Cardinality(Waitlisted)
  BY <1>5, <1>8, <1>9, <1>10, FirstInLine
<1>12. u = q[1]
  BY <1>2, <1>11 DEF Oldest, Firsts
<1>13. IsLine(Tail(q), Waitlisted', earlier')
  <2>1. w \notin Waitlisted
    BY UsersAssumption DEF Waitlisted
  <2>2. \A a, b \in Waitlisted \ {q[1]} : <<a, b>> \in earlier => <<a, b>> \in earlier'
    BY <1>3, <1>12, <2>1 DEF Without
  <2>3. IsLine(Stepped(q, 1), Waitlisted \ {q[1]}, earlier')
    BY <1>8, <1>9, <1>10, <1>11, <2>2, LineLeft
  <2> QED
    BY <1>5, <1>11, <1>12, <2>3
<1>14. Seated = Active \cup {u} /\ Queue = Tail(q)
  BY <1>2, <1>8, <1>9, <1>11, <1>12, BookShown DEF ShownSeats, ShownQueue, Handing
<1>15. Seated' = Active \cup {u} /\ Queue' = Tail(q)
  BY <1>4, <1>5, <1>9, <1>13, BookShownNext DEF ShownSeats, ShownQueue, Handing
<1> QED
  BY <1>6, <1>7, <1>14, <1>15 DEF BookKept, Book!book

LEMMA BookBegin ==
    ASSUME Typed, NEW w, Workers = {w}, WaitlistFlags = {TRUE}, BookKept(w), Begin(w)
    PROVE  BookKept(w)' /\ UNCHANGED Book!book
<1>1. /\ w \in Workers /\ pc[w] = "idle" /\ UNCHANGED rows /\ course.waitlist
      /\ ~Stamped(pc[w], loc[w]) /\ ~Handing(pc[w], loc[w])
  BY DEF Begin, BeginEnroll, BeginEnrollFromPayment, BeginUnenroll, BeginSettings, Typed, TypeOK,
         Course, Stamped, Handing
<1>2. ASSUME NEW label, NEW l, Hold(w, label, l), AsRead(label, l),
             ~Stamped(label, l), ~Handing(label, l)
      PROVE  BookKept(w)' /\ UNCHANGED Book!book
  BY <1>1, <1>2, BookStays DEF rows
<1>3. ASSUME NEW u \in Users, NEW i \in Invites \cup {NoInvite}, BeginEnroll(w, u, i)
      PROVE  BookKept(w)' /\ UNCHANGED Book!book
  <2>1. PICK l : l = [Blank EXCEPT !.user = u, !.invite = i, !.capacity = course.capacity,
                                   !.waitlist = course.waitlist]
    OBVIOUS
  <2>2. l.waitlist
    BY <1>1, <2>1 DEF Blank
  <2>3. PICK label \in {"row", "invite"} : Hold(w, label, l)
    BY <1>3, <2>1 DEF BeginEnroll
  <2>4. AsRead(label, l) /\ ~Stamped(label, l) /\ ~Handing(label, l)
    BY <2>2 DEF AsRead, Stamped, Handing
  <2> QED
    BY <1>2, <2>3, <2>4
<1>4. ASSUME NEW u \in Users, BeginEnrollFromPayment(w, u)
      PROVE  BookKept(w)' /\ UNCHANGED Book!book
  <2>1. PICK l : l = [Blank EXCEPT !.user = u, !.capacity = course.capacity,
                                   !.waitlist = course.waitlist]
    OBVIOUS
  <2>2. l.waitlist
    BY <1>1, <2>1 DEF Blank
  <2>3. Hold(w, "row", l)
    BY <1>4, <2>1 DEF BeginEnrollFromPayment
  <2>4. AsRead("row", l) /\ ~Stamped("row", l) /\ ~Handing("row", l)
    BY <2>2 DEF AsRead, Stamped, Handing
  <2> QED
    BY <1>2, <2>3, <2>4
<1>5. ASSUME NEW u \in Users, BeginUnenroll(w, u)
      PROVE  BookKept(w)' /\ UNCHANGED Book!book
  <2>1. PICK l : l = [Blank EXCEPT !.user = u, !.row = status[u]]
    OBVIOUS
  <2>2. l.user = u /\ l.row = status[u] /\ status[u] \in {"active", "waitlisted"}
    BY <1>5, <2>1 DEF Blank, BeginUnenroll
  <2>3. Hold(w, "cancel", l)
    BY <1>5, <2>1 DEF BeginUnenroll
  <2>4. AsRead("cancel", l) /\ ~Stamped("cancel", l) /\ ~Handing("cancel", l)
    BY <2>2 DEF AsRead, Stamped, Handing
  <2> QED
    BY <1>2, <2>3, <2>4
<1>6. ASSUME NEW p \in Patches, NEW c \in Capacities, NEW o \in OpenFlags,
             NEW n \in WaitlistFlags, BeginSettings(w, p, c, o, n)
      PROVE  BookKept(w)' /\ UNCHANGED Book!book
  <2>1. PICK l : Hold(w, "settings", l)
    BY <1>6 DEF BeginSettings
  <2>2. AsRead("settings", l) /\ ~Stamped("settings", l) /\ ~Handing("settings", l)
    BY DEF AsRead, Stamped, Handing
  <2> QED
    BY <1>2, <2>1, <2>2
<1> QED
  BY <1>3, <1>4, <1>5, <1>6 DEF Begin

\* A statement that reads, counts a use or stores an event.
LEMMA BookStep ==
    ASSUME Typed, NEW w, Workers = {w}, Capacities = {CapacityLimit}, WaitlistFlags = {TRUE},
           "deleted" \notin CourseStatuses, BookKept(w),
           Step(w), ~WriteSeat(w), ~CancelSeat(w), ~GrantSeat(w)
    PROVE  BookKept(w)' /\ UNCHANGED Book!book
<1>1. w \in Workers /\ loc[w] \in Local /\ status' = status /\ CapacityLimit # Unlimited
  BY LimitsAssumption
  DEF Typed, TypeOK, rows, Step, ReadInvite, ReadRow, DecideSeat, CountUse, EmitSeat, EmitCancelled,
      ReadCourse, CheckRoom, ReadNext, EmitActivated, WriteSettings
<1>2. Prepared(w) /\ AsRead(pc[w], loc[w])
  BY <1>1 DEF Typed, WorkersPrepared, BookKept
<1>3. /\ AsRead("idle", Blank) /\ ~Stamped("idle", Blank) /\ ~Handing("idle", Blank)
      /\ Finish(w) => Hold(w, "idle", Blank)
  BY <1>1, MovesAreHolds DEF AsRead, Stamped, Handing
<1>4. ASSUME ReadInvite(w) PROVE BookKept(w)' /\ UNCHANGED Book!book
  <2>1. pc[w] = "invite" /\ earlier' = earlier
    BY <1>4 DEF ReadInvite, rows
  <2>2. ~Stamped(pc[w], loc[w]) /\ ~Handing(pc[w], loc[w])
    BY <2>1 DEF Stamped, Handing
  <2>3. AsRead("row", loc[w]) /\ ~Stamped("row", loc[w]) /\ ~Handing("row", loc[w])
    BY <1>2, <2>1 DEF AsRead, Stamped, Handing
  <2>4. Hold(w, "row", loc[w]) \/ Hold(w, "idle", Blank)
    BY <1>1, <1>3, <1>4, MovesAreHolds DEF ReadInvite
  <2> QED
    BY <1>1, <1>3, <2>1, <2>2, <2>3, <2>4, BookStays
<1>5. ASSUME ReadRow(w) PROVE BookKept(w)' /\ UNCHANGED Book!book
  <2>1. PICK read \in Status : read = status[loc[w].user]
    BY <1>2, <1>5 DEF ReadRow, Prepared, Typed, TypeOK
  <2>2. pc[w] = "row" /\ ~Stamped(pc[w], loc[w]) /\ ~Handing(pc[w], loc[w])
    BY <1>5 DEF ReadRow, Stamped, Handing
  <2>3. CASE read \in {"active", "waitlisted"}
    <3>1. Hold(w, "idle", Blank) /\ earlier' = earlier
      BY <1>3, <1>5, <2>1, <2>3 DEF ReadRow
    <3> QED
      BY <1>1, <1>3, <2>2, <3>1, BookStays
  <2>4. CASE read \in {"none", "cancelled"}
    <3>1. PICK l : l = [loc[w] EXCEPT !.row = read]
      OBVIOUS
    <3>2. l.row = read /\ l.waitlist = loc[w].waitlist /\ l.user = loc[w].user
      BY <1>1, <3>1 DEF Local
    <3>3. Hold(w, "seat", l)
      BY <1>1, <1>2, <1>5, <2>1, <2>4, <3>1 DEF ReadRow, Prepared
    <3>4. AsRead("seat", l) /\ ~Handing("seat", l) /\ (Stamped("seat", l) <=> read = "none")
      BY <1>2, <2>1, <2>2, <2>4, <3>2 DEF AsRead, Handing, Stamped
    <3>5. Holders = Waitlisted
      BY <2>2 DEF Holders
    <3>6. earlier' = IF read = "none" THEN earlier \cup (Waitlisted \X {w}) ELSE earlier
      BY <1>5, <2>1, <2>4, <3>5 DEF ReadRow
    <3>7. CASE read = "none"
      BY <1>1, <2>2, <3>3, <3>4, <3>6, <3>7, BookStays
    <3>8. CASE read = "cancelled"
      BY <1>1, <2>2, <3>3, <3>4, <3>6, <3>8, BookStays
    <3> QED
      BY <2>4, <3>7, <3>8
  <2> QED
    BY <2>3, <2>4 DEF Status
<1>6. ASSUME DecideSeat(w) PROVE BookKept(w)' /\ UNCHANGED Book!book
  <2>1. /\ pc[w] = "seat" /\ loc[w].capacity = CapacityLimit /\ loc[w].waitlist
        /\ ~Handing(pc[w], loc[w])
    BY <1>2, <1>6 DEF DecideSeat, Prepared, AsRead, Handing
  <2>2. PICK s \in {"active", "waitlisted"} :
            /\ Hold(w, "write", [loc[w] EXCEPT !.seat = s]) /\ earlier' = earlier
            /\ s = "waitlisted" => ~Room(CapacityLimit)
    BY <1>6, <2>1 DEF DecideSeat
  <2>3. PICK l : l = [loc[w] EXCEPT !.seat = s]
    OBVIOUS
  <2>4. l.row = loc[w].row /\ l.user = loc[w].user /\ l.seat = s
    BY <1>1, <2>3 DEF Local
  <2>5. /\ AsRead("write", l) /\ ~Handing("write", l)
        /\ Stamped("write", l) <=> Stamped(pc[w], loc[w])
    BY <1>2, <2>1, <2>2, <2>4 DEF AsRead, Handing, Stamped
  <2> QED
    BY <1>1, <2>1, <2>2, <2>3, <2>5, BookStays
<1>7. ASSUME CountUse(w) \/ EmitSeat(w) \/ EmitActivated(w) \/ WriteSettings(w)
      PROVE  BookKept(w)' /\ UNCHANGED Book!book
  <2>1. pc[w] \in {"uses", "event", "granted", "settings"} /\ earlier' = earlier
    BY <1>7 DEF CountUse, EmitSeat, EmitActivated, WriteSettings
  <2>2. ~Stamped(pc[w], loc[w]) /\ ~Handing(pc[w], loc[w])
    BY <2>1 DEF Stamped, Handing
  <2>3. AsRead("event", loc[w]) /\ ~Stamped("event", loc[w]) /\ ~Handing("event", loc[w])
    BY DEF AsRead, Stamped, Handing
  <2>4. Hold(w, "event", loc[w]) \/ Hold(w, "idle", Blank)
    BY <1>1, <1>3, <1>7, MovesAreHolds DEF CountUse, EmitSeat, EmitActivated, WriteSettings
  <2> QED
    BY <1>1, <1>3, <2>1, <2>2, <2>3, <2>4, BookStays
<1>8. ASSUME EmitCancelled(w) PROVE BookKept(w)' /\ UNCHANGED Book!book
  <2>1. pc[w] = "left" /\ earlier' = earlier /\ ~Stamped(pc[w], loc[w])
    BY <1>8 DEF EmitCancelled, Stamped
  <2>2. CASE loc[w].row = "active"
    <3>1. Hold(w, "course", loc[w])
      BY <1>1, <1>8, <2>2, MovesAreHolds DEF EmitCancelled
    <3>2. /\ AsRead("course", loc[w]) /\ ~Stamped("course", loc[w])
          /\ Handing("course", loc[w]) /\ Handing(pc[w], loc[w])
      BY <1>2, <2>1, <2>2 DEF AsRead, Stamped, Handing
    <3> QED
      BY <1>1, <2>1, <3>1, <3>2, BookStays
  <2>3. CASE loc[w].row # "active"
    <3>1. Hold(w, "idle", Blank) /\ ~Handing(pc[w], loc[w])
      BY <1>3, <1>8, <2>3 DEF EmitCancelled, Handing
    <3> QED
      BY <1>1, <1>3, <2>1, <3>1, BookStays
  <2> QED
    BY <2>2, <2>3
<1>9. ASSUME ReadCourse(w) PROVE BookKept(w)' /\ UNCHANGED Book!book
  <2>1. /\ pc[w] = "course" /\ loc[w].row = "active" /\ earlier' = earlier
        /\ Handing(pc[w], loc[w]) /\ ~Stamped(pc[w], loc[w])
    BY <1>2, <1>9 DEF ReadCourse, rows, AsRead, Stamped, Handing
  <2>2. course.status # "deleted" /\ course.waitlist /\ course.capacity = CapacityLimit
    BY DEF Typed, TypeOK, Course
  <2>3. PICK l : l = [loc[w] EXCEPT !.capacity = course.capacity]
    OBVIOUS
  <2>4. l.row = "active" /\ Hold(w, "room", l)
    BY <1>1, <1>9, <2>1, <2>2, <2>3 DEF Local, ReadCourse
  <2>5. AsRead("room", l) /\ Handing("room", l) /\ ~Stamped("room", l)
    BY <1>2, <2>1, <2>4 DEF AsRead, Stamped, Handing
  <2> QED
    BY <1>1, <2>1, <2>4, <2>5, BookStays
<1>10. ASSUME CheckRoom(w) PROVE BookKept(w)' /\ UNCHANGED Book!book
  <2>1. /\ pc[w] = "room" /\ loc[w].row = "active" /\ earlier' = earlier
        /\ Handing(pc[w], loc[w]) /\ ~Stamped(pc[w], loc[w]) /\ loc[w].capacity = CapacityLimit
    BY <1>2, <1>10 DEF CheckRoom, rows, AsRead, Stamped, Handing, Prepared
  <2>2. Hold(w, "next", loc[w])
    BY <1>1, <1>2, <1>10, <2>1, MovesAreHolds DEF CheckRoom, AsRead
  <2>3. AsRead("next", loc[w]) /\ Handing("next", loc[w]) /\ ~Stamped("next", loc[w])
    BY <1>2, <2>1 DEF AsRead, Stamped, Handing
  <2> QED
    BY <1>1, <2>1, <2>2, <2>3, BookStays
<1>11. ASSUME ReadNext(w) PROVE BookKept(w)' /\ UNCHANGED Book!book
  <2>1. /\ pc[w] = "next" /\ loc[w].row = "active" /\ earlier' = earlier
        /\ Handing(pc[w], loc[w]) /\ ~Stamped(pc[w], loc[w])
    BY <1>2, <1>11 DEF ReadNext, rows, AsRead, Stamped, Handing
  <2>2. CASE Waitlisted = {} /\ Finish(w)
    BY <1>1, <1>3, <2>1, <2>2, BookStays
  <2>3. ASSUME NEW u \in Oldest, Hold(w, "grant", [loc[w] EXCEPT !.user = u])
        PROVE  BookKept(w)' /\ UNCHANGED Book!book
    <3>1. PICK l : l = [loc[w] EXCEPT !.user = u]
      OBVIOUS
    <3>2. l.row = "active" /\ l.user = u
      BY <1>1, <2>1, <3>1 DEF Local
    <3>3. AsRead("grant", l) /\ Handing("grant", l) /\ ~Stamped("grant", l)
      BY <1>2, <2>1, <3>2 DEF AsRead, Stamped, Handing
    <3> QED
      BY <1>1, <2>1, <2>3, <3>1, <3>3, BookStays
  <2> QED
    BY <1>11, <2>2, <2>3 DEF ReadNext
<1> QED
  BY <1>4, <1>5, <1>6, <1>7, <1>8, <1>9, <1>10, <1>11 DEF Step

LEMMA BookNext ==
    ASSUME Typed, NEW w, Workers = {w}, Failures = FALSE, Capacities = {CapacityLimit},
           WaitlistFlags = {TRUE}, "deleted" \notin CourseStatuses,
           BookKept(w), SeatsFit(w), Reported(w), CapacityRespected, [Next]_vars
    PROVE  BookKept(w)' /\ [Book!Next]_(Book!book)
<1>1. CASE WriteSeat(w)
  <2>1. loc[w].seat \in {"active", "waitlisted"}
    BY <1>1 DEF WriteSeat, Reported
  <2> QED
    BY <1>1, <2>1, BookSeat, BookWait
<1>2. CASE CancelSeat(w)
  <2>1. loc[w].row \in {"active", "waitlisted"}
    BY <1>2 DEF CancelSeat, BookKept, AsRead
  <2>2. Cardinality(Active) <= CapacityLimit
    BY DEF CapacityRespected, Typed, TypeOK, Course
  <2> QED
    BY <1>2, <2>1, <2>2, BookLeave, BookLeaveLine
<1>3. CASE Teacher \/ UNCHANGED vars
  <2>1. UNCHANGED <<status, earlier, pc, loc>>
    BY <1>3 DEF vars, Teacher, CreateInviteCode, ExpireInviteCode, RevokeInviteCode, ChangeCourse
  <2>2. Active' = Active /\ Waitlisted' = Waitlisted
    BY <2>1 DEF Active, Waitlisted
  <2>3. BookKept(w)'
    BY <2>1, <2>2 DEF BookKept, InLine, AsRead, Oldest, Room
  <2>4. Seated' = Seated /\ Queue' = Queue
    BY <2>1, <2>2 DEF Seated, Queue, HeirToSeat, HandingOver, Oldest
  <2> QED
    BY <2>3, <2>4 DEF Book!book
<1> QED
  BY <1>1, <1>2, <1>3, BookGrant, BookBegin, BookStep DEF Next, Abort, Step

LEMMA BookInit ==
    ASSUME NEW w, Workers = {w}, Init
    PROVE  BookKept(w) /\ Book!Init
<1>1. pc[w] = "idle" /\ Active = {} /\ Waitlisted = {} /\ earlier = {}
  BY DEF Init, Active, Waitlisted
<1>2. IsLine(<<>>, Waitlisted, earlier) /\ OneWay(Waitlisted, earlier)
  BY <1>1, EmptyLine
<1>3. BookKept(w)
  BY <1>1, <1>2 DEF BookKept, InLine, AsRead, Stamped, Handing
<1>4. Seated = {} /\ Queue = <<>>
  BY <1>1, <1>2, BookShown DEF ShownSeats, ShownQueue
<1> QED
  BY <1>3, <1>4 DEF Book!Init

\* Unenroll gives a seat up in one statement and promoteWaitlist hands it on four
\* statements later (enrollment.go:234, :277), and the waitlist is ordered by times
\* taken before or at the write (:73, :114): with one request at a time, none failing,
\* a fixed capacity, the waitlist on and the course not deleted, the service keeps
\* the seat book, for any number of learners and codes: a seat given up goes to the
\* head of the line in the step it is given up in, and nobody overtakes.
THEOREM SeatBookImplemented ==
    ASSUME Cardinality(Workers) = 1, Failures = FALSE, Capacities = {CapacityLimit},
           WaitlistFlags = {TRUE}, "deleted" \notin CourseStatuses
    PROVE  Spec => ImplementsSeatBook
<1>1. PICK w \in Workers : Workers = {w}
  BY OnlyWorker
<1> DEFINE Inv == Typed /\ SeatsFit(w) /\ Reported(w) /\ BookKept(w)
<1>2. Init => Inv /\ Book!Init
  BY <1>1, TypedInit, FitsInit, ReportedInit, BookInit
<1>3. Inv /\ CapacityRespected /\ [Next]_vars => Inv' /\ [Book!Next]_(Book!book)
  BY <1>1, TypedNext, FitsNext, ReportedNext, BookNext
<1>4. Spec => []CapacityRespected
  BY SerialCapacity
<1> QED
  BY <1>2, <1>3, <1>4, PTL DEF Spec, ImplementsSeatBook, Book!Spec
===============================================================================
