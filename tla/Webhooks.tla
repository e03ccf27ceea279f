------------------------------- MODULE Webhooks -------------------------------
(***************************************************************************)
(* What payment providers report of an order, and what becomes of it:      *)
(* ParseWebhook of the three adapters (internal/payment) and HandleWebhook *)
(* (internal/service/payment.go:187) over payment_webhook_events.          *)
(*                                                                         *)
(* Payments takes it that each outcome of an order comes under one         *)
(* event_id; here is where those ids come from.  Enrolling the buyer and   *)
(* counting the coupon are there, not here, and a refusal of either counts *)
(* as a failure.  A report whose signature or JSON is refused changes      *)
(* nothing and is left out.                                                *)
(***************************************************************************)
EXTENDS Requests

CONSTANTS
    PaidOrders,    \* ids of orders that wait for payment
    Routes,        \* providers named by the routes that reports come to
    Wordings,      \* how providers word what has happened
    EventIds,      \* ids and references the providers give
    ReportsBound   \* bound: different reports that are sent

ASSUME WebhooksAssumption == ReportsBound \in Nat /\ "" \notin EventIds

VARIABLES
    status,    \* status of the orders rows
    events,    \* the payment_webhook_events rows: <<provider, event_id>>
    reports,   \* history: the reports sent so far
    due        \* history: the status of each order if every report counts

webhookTables == <<status, events>>
webhookHistory == <<reports, due>>
webhookVars == <<requests, webhookTables, webhookHistory>>

\* parseOrderStatus, for manual and chapa
OrderStatusOf ==
    [paid |-> "paid", success |-> "paid", completed |-> "paid",
     failed |-> "failed", refunded |-> "refunded",
     cancelled |-> "cancelled", canceled |-> "cancelled"]

\* Event type and payment_status of a Stripe event: a checkout that is completed
\* but not paid for counts as failed.
StripeStatusOf ==
    [completed_paid |-> "paid", completed_unpaid |-> "failed",
     succeeded |-> "paid", charge_refunded |-> "refunded"]

\* For: a provider nobody knows is served by the manual adapter.
Adapter(p) == IF p \in {"manual", "stripe", "chapa"} THEN p ELSE "manual"

\* to: the provider of the route; id: event_id, the id of the Stripe event or
\* Chapa's reference; says: the status as the provider words it.
Report == [to : Routes, id : EventIds \cup {""}, order : PaidOrders, says : Wordings]

Wording(r) == IF Adapter(r.to) = "stripe" THEN StripeStatusOf ELSE OrderStatusOf

\* Only Chapa does without an id.
Parses(r) ==
    /\ r.says \in DOMAIN Wording(r)
    /\ r.id = "" => Adapter(r.to) = "chapa"

Outcome(r) == Wording(r)[r.says]

\* As if the id made for Chapa named the order only.
EventIdOfOrder(r) ==
    <<Adapter(r.to), IF r.id = "" THEN <<r.order>> ELSE <<r.id>>>>

\* The event_id of a report, made from order and status when there is none.
EventId(r) ==
    <<Adapter(r.to), IF r.id = "" THEN <<r.order, r.says>> ELSE <<r.id>>>>

WebhooksInit ==
    /\ RequestsInit
    /\ status = [o \in PaidOrders |-> "pending"]
    /\ events = {}
    /\ reports = {}
    /\ due = [o \in PaidOrders |-> "pending"]

-------------------------------------------------------------------------------
(* The providers                                                           *)

\* An id is given to one event, a reference to one order, and a report may be
\* repeated at any time.
MaySend(r) ==
    /\ Cardinality(reports \cup {r}) <= ReportsBound
    /\ \A s \in reports :
        Adapter(s.to) = Adapter(r.to) /\ s.id = r.id /\ r.id # "" =>
            /\ s.order = r.order
            /\ Adapter(r.to) # "chapa" => s.says = r.says

\* The report came before, by a route of the same adapter.
CameBefore(r) ==
    \E s \in reports : /\ Adapter(s.to) = Adapter(r.to)
                       /\ s.id = r.id /\ s.order = r.order /\ s.says = r.says

\* Chapa has used the reference for another outcome of the order before.
Overheard(r) ==
    \E s \in reports : /\ Adapter(s.to) = Adapter(r.to)
                       /\ s.id = r.id /\ r.id # ""
                       /\ Outcome(s) # Outcome(r)

\* What may become of an order.
Courses == {<<"pending", "paid">>, <<"pending", "failed">>,
            <<"pending", "cancelled">>, <<"paid", "refunded">>}

Due(before, outcome) == IF <<before, outcome>> \in Courses THEN outcome ELSE before

-------------------------------------------------------------------------------
(* HandleWebhook                                                           *)

\* ParseWebhook and webhooks.Record, which tells a repetition by its event_id
RecordReport(w, r) ==
    /\ Idle(w)
    /\ MaySend(r) /\ Parses(r)
    /\ reports' = reports \cup {r}
    /\ due' = IF CameBefore(r) \/ Overheard(r) THEN due
              ELSE [due EXCEPT ![r.order] = Due(@, Outcome(r))]
    /\ IF EventId(r) \in events
       THEN UNCHANGED <<requests, events>>
       ELSE /\ events' = events \cup {EventId(r)}
            /\ Hold(w, "report.load", [order |-> r.order, outcome |-> Outcome(r)])
    /\ UNCHANGED status

\* orders.GetByID and the early returns of applyPaymentSuccess, applyRefund,
\* markFailed and markCancelled
LoadReported(w) ==
    /\ At(w, "report.load")
    /\ IF status[loc[w].order] = (IF loc[w].outcome = "refunded" THEN "paid" ELSE "pending")
       THEN Goto(w, "report.write")
       ELSE Finish(w)
    /\ UNCHANGED <<webhookTables, webhookHistory>>

\* orders.UpdateStatus
WriteReported(w) ==
    /\ At(w, "report.write")
    /\ status' = [status EXCEPT ![loc[w].order] = loc[w].outcome]
    /\ Finish(w)
    /\ UNCHANGED <<events, webhookHistory>>

AbortWebhook(w) == Abort(w) /\ UNCHANGED <<webhookTables, webhookHistory>>

WebhooksNext == \E w \in setting.workers :
    \/ \E r \in Report : RecordReport(w, r)
    \/ LoadReported(w) \/ WriteReported(w) \/ AbortWebhook(w)

WebhooksSpec == WebhooksInit /\ [][WebhooksNext]_webhookVars

-------------------------------------------------------------------------------
(* Properties                                                              *)

\* The rows have their columns' types, and a worker holds the order and what was
\* reported of it.
WebhooksTypeOK ==
    /\ status \in [PaidOrders -> {"pending", "paid", "failed", "cancelled", "refunded"}]
    /\ events \subseteq {EventId(r) : r \in Report}
    /\ reports \subseteq Report
    /\ \A w \in setting.workers :
        \/ pc[w] = "idle" /\ loc[w] = Nothing
        \/ /\ pc[w] \in {"report.load", "report.write"}
           /\ loc[w].order \in PaidOrders
           /\ loc[w].outcome \in {"paid", "failed", "cancelled", "refunded"}

\* An order has no status that no provider has reported, and ids keep apart what
\* was reported (payment.go:206, :210): of reports that arrive one at a time and do
\* not fail, repeated, reworded or too early, an order is as if each had been
\* applied when it first came.  A refund that came before its payment is answered
\* with an error, and its repetition does not count.  Nor does what is reported
\* under a reference of Chapa's (chapa.go:56) that has told another outcome: the
\* reference names the payment, so its refund is taken for a repetition.
ReportsApplied ==
    /\ \A o \in PaidOrders : status[o] # "pending" =>
        \E r \in reports : r.order = o /\ Outcome(r) = status[o]
    /\ Calm /\ Quiet => status = due
===============================================================================
