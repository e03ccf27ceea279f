--------------------------- MODULE EnrollmentSerial ---------------------------
(***************************************************************************)
(* Enrollment when one request is served at a time and none dies: the      *)
(* service then keeps the promise of SeatBook.  Between CancelSeat and     *)
(* GrantSeat the seat that was left already belongs to the learner at the  *)
(* head of the queue, which is who promoteWaitlist is about to give it to. *)
(***************************************************************************)
EXTENDS Enrollment

\* A seat has been left and promoteWaitlist has not refilled it yet.
HandingOver == \E w \in Workers :
    pc[w] \in {"left", "course", "room", "next", "grant"} /\ loc[w].row = "active"

HeirToSeat == IF HandingOver THEN Oldest ELSE {}

\* q has each learner of W once, an earlier one before a later one.
IsLine(q, W, before) ==
    /\ q \in [1 .. Cardinality(W) -> W]
    /\ \A u \in W : \E n \in 1 .. Cardinality(W) : q[n] = u
    /\ \A m, n \in 1 .. Cardinality(W) : m < n => <<q[m], q[n]>> \in before

\* The rows of W as ORDER BY waitlisted_at lists them.
Line(W, before) ==
    CHOOSE q \in [1 .. Cardinality(W) -> W] : IsLine(q, W, before)

Seated == Active \cup HeirToSeat
Queue  == Line(Waitlisted \ HeirToSeat, earlier)

Book == INSTANCE SeatBook WITH
    Learners <- Users,
    Capacity <- CapacityLimit,
    seats    <- Seated,
    queue    <- Queue

\* One request at a time, the service implements the seat book: seats are never
\* overbooked, the waitlist is served in order of waitlisted_at, and a seat
\* given up goes to its head.
ImplementsSeatBook == Book!Spec
===============================================================================
