------------------------------- MODULE Payments -------------------------------
(***************************************************************************)
(* The orders of one priced course: PaymentService (internal/service/      *)
(* payment.go) over the orders, coupons and payment_webhook_events tables, *)
(* with what it needs of a buyer's enrollments row.                        *)
(*                                                                         *)
(* As in Enrollment, every request is a goroutine (a worker) whose SQL     *)
(* statements commit one by one and interleave with those of others.       *)
(* orders.UpdateStatus writes the whole row by id, from the copy the       *)
(* request read: it tests nothing of what the row holds by then.           *)
(*                                                                         *)
(* EnrollFromPayment is one action here: Enrollment has its statements.    *)
(* A request that ends on its first read changes nothing and is left out.  *)
(***************************************************************************)
EXTENDS Integers, FiniteSets

CONSTANTS
    Buyers,        \* learners who check out the course
    Orders,        \* order ids: the bound on how many orders are created
    Workers,       \* goroutines serving requests at the same time
    Keys,          \* values of the Idempotency-Key header
    Coupons,       \* ids of coupons an admin may create
    UseLimits,     \* values max_uses takes
    UsesBound,     \* an order is confirmed only while its coupon has fewer uses
    Unlimited,     \* NULL in max_uses
    Providers,     \* payment providers in use
    Outcomes,      \* order statuses that webhooks report
    SeatOutcomes,  \* what EnrollFromPayment may answer a buyer without a seat
    NoBuyer, NoOrder, NoKey, NoCoupon,
    Failures       \* whether a request may die between two statements

ASSUME OrdersAssumption == IsFiniteSet(Orders) /\ NoOrder \notin Orders
ASSUME NullsAssumption ==
    NoBuyer \notin Buyers /\ NoKey \notin Keys /\ NoCoupon \notin Coupons
ASSUME BoundsAssumption ==
    /\ UseLimits \subseteq (Nat \ {0}) \cup {Unlimited}
    /\ Unlimited \notin Int
    /\ UsesBound \in Nat
ASSUME OutcomesAssumption ==
    /\ Providers \subseteq {"manual", "stripe", "chapa"}
    /\ Outcomes \subseteq {"paid", "failed", "cancelled", "refunded"}
    /\ SeatOutcomes \subseteq {"active", "waitlisted", "refused"}
    /\ Failures \in BOOLEAN

VARIABLES
    orders,     \* the orders rows
    coupon,     \* the coupons rows
    recorded,   \* the payment_webhook_events rows
    enrolled,   \* enrollments.status of each buyer's row, "none" without a row
    pc,         \* the statement a worker runs next
    loc         \* what a worker has read and decided

tables == <<orders, coupon, recorded, enrolled>>
vars == <<orders, coupon, recorded, enrolled, pc, loc>>

OrderStatus == {"absent", "pending", "paid", "failed", "cancelled", "refunded"}
SeatStatus  == {"none", "active", "waitlisted", "cancelled"}

\* linked: enrollment_id is set.
Order == [status : OrderStatus, buyer : Buyers \cup {NoBuyer},
          key : Keys \cup {NoKey}, coupon : Coupons \cup {NoCoupon},
          provider : {"manual", "stripe", "chapa"}, linked : BOOLEAN]

Coupon == [status : {"absent", "live", "expired", "revoked"},
           limit : UseLimits, uses : Nat]

\* A provider reports each outcome of an order under one event_id.
Events == [order : Orders, outcome : Outcomes]

Label == {"idle", "check", "coupon", "create", "ref",
          "load", "use", "enroll", "write"}

\* draft: the order a checkout is composing; id: the order a request works on;
\* outcome: the status it will write; linked: the enrollment_id it will write.
Local == [draft : Order, id : Orders \cup {NoOrder},
          outcome : OrderStatus, linked : BOOLEAN]

NoRow == [status |-> "absent", buyer |-> NoBuyer, key |-> NoKey,
          coupon |-> NoCoupon, provider |-> "manual", linked |-> FALSE]

Blank == [draft |-> NoRow, id |-> NoOrder, outcome |-> "absent", linked |-> FALSE]

Absent == {o \in Orders : orders[o].status = "absent"}

Init ==
    /\ orders = [o \in Orders |-> NoRow]
    /\ coupon \in [Coupons -> [status : {"absent"}, limit : UseLimits, uses : {0}]]
    /\ recorded = {}
    /\ enrolled = [b \in Buyers |-> "none"]
    /\ pc = [w \in Workers |-> "idle"]
    /\ loc = [w \in Workers |-> Blank]

-------------------------------------------------------------------------------
(* What the handlers share                                                 *)

\* The goroutine returns; what it had read is gone.
Finish(w) ==
    /\ pc' = [pc EXCEPT ![w] = "idle"]
    /\ loc' = [loc EXCEPT ![w] = Blank]

Goto(w, label) == pc' = [pc EXCEPT ![w] = label] /\ UNCHANGED loc

\* Proceed to the statement named label, holding the local record l.
Hold(w, label, l) ==
    /\ pc' = [pc EXCEPT ![w] = label]
    /\ loc' = [loc EXCEPT ![w] = l]

\* What a request on order o holds once it has read the row.
Copy(o, outcome) ==
    [draft |-> NoRow, id |-> o, outcome |-> outcome, linked |-> orders[o].linked]

SettlingUncounted(o) == "enroll"
SettlingUnenrolled(o) == "write"

\* Where applyPaymentSuccess starts on a pending order.
Settling(o) == IF orders[o].coupon = NoCoupon THEN "enroll" ELSE "use"

-------------------------------------------------------------------------------
(* CreateCheckout                                                          *)

\* GetByIdempotencyKey: a replay ends here, with the order or with a Conflict.
\* Otherwise GetCourse: it is published, priced and not the buyer's own.
BeginCheckout(w, b, k, c, p) ==
    /\ pc[w] = "idle"
    /\ k # NoKey => \A o \in Orders : orders[o].key # k
    /\ Hold(w, "check",
            [Blank EXCEPT !.draft = [status |-> "pending", buyer |-> b, key |-> k,
                                     coupon |-> c, provider |-> p, linked |-> FALSE]])
    /\ UNCHANGED tables

\* HasActiveEnrollment: a place in the queue does not stop a purchase.
CheckEnrolled(w) ==
    /\ pc[w] = "check"
    /\ IF enrolled[loc[w].draft.buyer] = "active" THEN Finish(w)
       ELSE Goto(w, IF loc[w].draft.coupon = NoCoupon THEN "create" ELSE "coupon")
    /\ UNCHANGED tables

\* validateCoupon
Usable(c) == /\ c.status = "live"
             /\ c.limit # Unlimited => c.uses < c.limit

\* GetByCode and validateCoupon
ReadCoupon(w) ==
    /\ pc[w] = "coupon"
    /\ IF Usable(coupon[loc[w].draft.coupon]) THEN Goto(w, "create") ELSE Finish(w)
    /\ UNCHANGED tables

KeyTaken(k) == k # NoKey /\ \E o \in Orders : orders[o].key = k

\* orders.Create: the unique index refuses a key that is taken (Conflict).
\* When the ids of the bound are used up the insert fails as well.
CreateOrder(w) ==
    /\ pc[w] = "create"
    /\ IF KeyTaken(loc[w].draft.key) \/ Absent = {}
       THEN Finish(w) /\ UNCHANGED orders
       ELSE \E o \in Absent :
                /\ orders' = [orders EXCEPT ![o] = loc[w].draft]
                /\ Hold(w, "ref", [Blank EXCEPT !.id = o, !.outcome = "pending"])
    /\ UNCHANGED <<coupon, recorded, enrolled>>

\* What orders.UpdateStatus sets: status and enrollment_id.
Overwritten(w) == [orders[loc[w].id] EXCEPT !.status = loc[w].outcome,
                                            !.linked = loc[w].linked]

\* The provider's session id is saved with UpdateStatus: the row is written as
\* it was created, still pending, whatever has happened to it since.
SaveProviderRef(w) ==
    /\ pc[w] = "ref"
    /\ orders' = [orders EXCEPT ![loc[w].id] = Overwritten(w)]
    /\ Finish(w)
    /\ UNCHANGED <<coupon, recorded, enrolled>>

-------------------------------------------------------------------------------
(* ConfirmManual, HandleWebhook, Refund                                    *)

\* GetByID in ConfirmManual.  A confirmation that fails may be tried again, and
\* counts another use of the coupon each time: UsesBound caps the retries.
BeginConfirm(w, o) ==
    /\ pc[w] = "idle"
    /\ orders[o].status = "pending"
    /\ orders[o].provider = "manual"
    /\ orders[o].coupon # NoCoupon => coupon[orders[o].coupon].uses < UsesBound
    /\ Hold(w, Settling(o), Copy(o, "paid"))
    /\ UNCHANGED tables

\* webhooks.Record: the event of an existing order, recorded before anything is
\* done about it.  A duplicate delivery is answered with the order as it is.
RecordEvent(w, e) ==
    /\ pc[w] = "idle"
    /\ e \notin recorded
    /\ orders[e.order].status # "absent"
    /\ recorded' = recorded \cup {e}
    /\ Hold(w, "load", [Blank EXCEPT !.id = e.order, !.outcome = e.outcome])
    /\ UNCHANGED <<orders, coupon, enrolled>>

SourcesUnguarded(outcome) ==
    IF outcome = "paid" THEN {"pending"} ELSE {"pending", "paid"}

\* The statuses an outcome is applied to; on any other the webhook ends early,
\* with the order as it is or with an error.
Sources(outcome) == IF outcome = "refunded" THEN {"paid"} ELSE {"pending"}

\* GetByID in HandleWebhook, and the early returns of applyPaymentSuccess,
\* applyRefund, markFailed and markCancelled.
LoadOrder(w) ==
    LET o == loc[w].id
        out == loc[w].outcome
    IN
    /\ pc[w] = "load"
    /\ IF orders[o].status \in Sources(out)
       THEN Hold(w, IF out = "paid" THEN Settling(o) ELSE "write", Copy(o, out))
       ELSE Finish(w)
    /\ UNCHANGED tables

CountUseWithinLimit(w) ==
    LET c == orders[loc[w].id].coupon IN
    /\ pc[w] = "use"
    /\ IF Usable(coupon[c])
       THEN coupon' = [coupon EXCEPT ![c].uses = @ + 1] /\ Goto(w, "enroll")
       ELSE UNCHANGED coupon /\ Finish(w)
    /\ UNCHANGED <<orders, recorded, enrolled>>

CountUseBackwards(w) ==
    /\ pc[w] = "use"
    /\ coupon' = [coupon EXCEPT ![orders[loc[w].id].coupon].uses = @ - 1]
    /\ Goto(w, "enroll")
    /\ UNCHANGED <<orders, recorded, enrolled>>

\* coupons.IncrementUses in applyPaymentSuccess: max_uses is not tested again.
CountUse(w) ==
    /\ pc[w] = "use"
    /\ coupon' = [coupon EXCEPT ![orders[loc[w].id].coupon].uses = @ + 1]
    /\ Goto(w, "enroll")
    /\ UNCHANGED <<orders, recorded, enrolled>>

\* EnrollFromPayment: a seat or a place in the queue is kept; otherwise one is
\* taken, or refused (no seat and no waitlist, or a course unpublished by now).
EnrollBuyer(w) ==
    LET b == orders[loc[w].id].buyer IN
    /\ pc[w] = "enroll"
    /\ \/ /\ enrolled[b] \in {"active", "waitlisted"}
          /\ Hold(w, "write", [loc[w] EXCEPT !.linked = TRUE])
          /\ UNCHANGED enrolled
       \/ \E s \in SeatOutcomes \ {"refused"} :
          /\ enrolled[b] \in {"none", "cancelled"}
          /\ enrolled' = [enrolled EXCEPT ![b] = s]
          /\ Hold(w, "write", [loc[w] EXCEPT !.linked = TRUE])
       \/ /\ "refused" \in SeatOutcomes
          /\ Finish(w)
          /\ UNCHANGED enrolled
    /\ UNCHANGED <<orders, coupon, recorded>>

\* orders.UpdateStatus at the end of applyPaymentSuccess, applyRefund,
\* markFailed and markCancelled.
WriteStatus(w) ==
    /\ pc[w] = "write"
    /\ orders' = [orders EXCEPT ![loc[w].id] = Overwritten(w)]
    /\ Finish(w)
    /\ UNCHANGED <<coupon, recorded, enrolled>>

\* GetByID and GetCourse in Refund.  The enrollment is not touched.
BeginRefund(w, o) ==
    /\ pc[w] = "idle"
    /\ orders[o].status = "paid"
    /\ Hold(w, "write", Copy(o, "refunded"))
    /\ UNCHANGED tables

-------------------------------------------------------------------------------
(* Coupons, the buyer's enrollment, failures                               *)

CreateCoupon(c, limit) ==
    /\ coupon[c].status = "absent"
    /\ coupon' = [coupon EXCEPT ![c] = [status |-> "live", limit |-> limit, uses |-> 0]]
    /\ UNCHANGED <<orders, recorded, enrolled, pc, loc>>

\* valid_until passes.
ExpireCoupon(c) ==
    /\ coupon[c].status = "live"
    /\ coupon' = [coupon EXCEPT ![c].status = "expired"]
    /\ UNCHANGED <<orders, recorded, enrolled, pc, loc>>

\* UPDATE ... WHERE revoked_at IS NULL
RevokeCoupon(c) ==
    /\ coupon[c].status \in {"live", "expired"}
    /\ coupon' = [coupon EXCEPT ![c].status = "revoked"]
    /\ UNCHANGED <<orders, recorded, enrolled, pc, loc>>

\* Unenroll and promoteWaitlist, seen from the buyer's row.
ChangeEnrollment(b) ==
    /\ \/ /\ enrolled[b] \in {"active", "waitlisted"}
          /\ enrolled' = [enrolled EXCEPT ![b] = "cancelled"]
       \/ /\ enrolled[b] = "waitlisted"
          /\ enrolled' = [enrolled EXCEPT ![b] = "active"]
    /\ UNCHANGED <<orders, coupon, recorded, pc, loc>>

\* A statement or the provider fails, the client goes away or the process is
\* restarted: the request stops and leaves behind what it has written.
Abort(w) ==
    /\ Failures
    /\ pc[w] # "idle"
    /\ Finish(w)
    /\ UNCHANGED tables

\* A request in progress runs its next statement.
Step(w) ==
    \/ CheckEnrolled(w) \/ ReadCoupon(w) \/ CreateOrder(w) \/ SaveProviderRef(w)
    \/ LoadOrder(w) \/ CountUse(w) \/ EnrollBuyer(w) \/ WriteStatus(w)

Begin(w) ==
    \/ \E b \in Buyers, k \in Keys \cup {NoKey}, c \in Coupons \cup {NoCoupon},
          p \in Providers : BeginCheckout(w, b, k, c, p)
    \/ \E o \in Orders : BeginConfirm(w, o) \/ BeginRefund(w, o)
    \/ \E e \in Events : RecordEvent(w, e)

Environment ==
    \/ \E c \in Coupons, n \in UseLimits : CreateCoupon(c, n)
    \/ \E c \in Coupons : ExpireCoupon(c) \/ RevokeCoupon(c)
    \/ \E b \in Buyers : ChangeEnrollment(b)

Next ==
    \/ \E w \in Workers : Begin(w) \/ Step(w) \/ Abort(w)
    \/ Environment

Spec == Init /\ [][Next]_vars

-------------------------------------------------------------------------------
(* Properties                                                              *)

\* Every row and worker record has the shape the tables and the service's
\* structs give it.
TypeOK ==
    /\ orders \in [Orders -> Order]
    /\ coupon \in [Coupons -> Coupon]
    /\ recorded \subseteq Events
    /\ enrolled \in [Buyers -> SeatStatus]
    /\ pc \in [Workers -> Label]
    /\ loc \in [Workers -> Local]

\* An order that is paid, or was paid and refunded, links the enrollment it
\* bought, and that enrollment exists: applyPaymentSuccess enrolls first and
\* marks the order last, and no stale copy of the row undoes one without the
\* other.
PaidOrdersEnrolled ==
    \A o \in Orders : orders[o].status \in {"paid", "refunded"} =>
        orders[o].linked /\ enrolled[orders[o].buyer] # "none"

\* Orders bought with coupon c.
Redeemed(c) == {o \in Orders : /\ orders[o].coupon = c
                               /\ orders[o].status \in {"paid", "refunded"}}

\* No payment escapes uses_count: whatever interleaves or fails, the coupon has
\* counted at least the orders bought with it.
UsesCoverPayments == \A c \in Coupons : Cardinality(Redeemed(c)) <= coupon[c].uses

AtRest == \A w \in Workers : pc[w] = "idle"

\* When no request is in flight, an order whose payment a recorded event reports
\* is not waiting for payment any more: a duplicate may then be ignored.
RecordedEventsApplied ==
    AtRest => \A e \in recorded :
        e.outcome = "paid" => orders[e.order].status # "pending"

\* An order once marked paid stays paid, unless it is refunded.
PaidOrdersKept ==
    [][\A o \in Orders : orders[o].status = "paid" =>
          orders'[o].status \in {"paid", "refunded"}]_vars
===============================================================================
