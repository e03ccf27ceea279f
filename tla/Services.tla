------------------------------- MODULE Services -------------------------------
(***************************************************************************)
(* Ten components that share nothing but how requests run: a behaviour     *)
(* picks a component and a setting for it, and only that component gets    *)
(* requests.                                                               *)
(***************************************************************************)
EXTENDS Accounts, Organizations, LiveSessions, Media, RateLimiter, Pricing,
        Webhooks, Inbox, Access, Lifecycle

CONSTANT SettingsOf  \* per component, the settings it is studied in

VARIABLE service     \* the component of this behaviour

ServicesInit ==
    /\ service \in DOMAIN SettingsOf
    /\ AccountsInit /\ OrganizationsInit /\ LiveSessionsInit
    /\ MediaInit /\ RateLimiterInit /\ PricingInit /\ WebhooksInit
    /\ InboxInit /\ AccessInit /\ LifecycleInit
    /\ setting \in SettingsOf[service]

ServicesNext ==
    /\ UNCHANGED service
    /\ \/ /\ service = "accounts" /\ AccountsNext
          /\ UNCHANGED <<organizationTables, liveTables, mediaTables, limiterTables,
                         pricingTables, webhookTables, webhookHistory, inboxTables,
                         accessTables, held, had, lifecycleTables>>
       \/ /\ service = "organizations" /\ OrganizationsNext
          /\ UNCHANGED <<accountTables, liveTables, mediaTables, limiterTables,
                         pricingTables, webhookTables, webhookHistory, inboxTables,
                         accessTables, held, had, lifecycleTables>>
       \/ /\ service = "live" /\ LiveSessionsNext
          /\ UNCHANGED <<accountTables, organizationTables, mediaTables,
                         limiterTables, pricingTables, webhookTables, webhookHistory,
                         inboxTables, accessTables, held, had, lifecycleTables>>
       \/ /\ service = "media" /\ MediaNext
          /\ UNCHANGED <<accountTables, organizationTables, liveTables,
                         limiterTables, pricingTables, webhookTables, webhookHistory,
                         inboxTables, accessTables, held, had, lifecycleTables>>
       \/ /\ service = "limiter" /\ RateLimiterNext
          /\ UNCHANGED <<accountTables, organizationTables, liveTables, mediaTables,
                         pricingTables, webhookTables, webhookHistory, inboxTables,
                         accessTables, held, had, lifecycleTables>>
       \/ /\ service = "pricing" /\ PricingNext
          /\ UNCHANGED <<accountTables, organizationTables, liveTables, mediaTables,
                         limiterTables, webhookTables, webhookHistory, inboxTables,
                         accessTables, held, had, lifecycleTables>>
       \/ /\ service = "webhooks" /\ WebhooksNext
          /\ UNCHANGED <<accountTables, organizationTables, liveTables, mediaTables,
                         limiterTables, pricingTables, inboxTables, accessTables,
                         held, had, lifecycleTables>>
       \/ /\ service = "inbox" /\ InboxNext
          /\ UNCHANGED <<accountTables, organizationTables, liveTables, mediaTables,
                         limiterTables, pricingTables, webhookTables, webhookHistory,
                         accessTables, held, had, lifecycleTables>>
       \/ /\ service = "access" /\ AccessNext
          /\ UNCHANGED <<accountTables, organizationTables, liveTables, mediaTables,
                         limiterTables, pricingTables, webhookTables, webhookHistory,
                         inboxTables, lifecycleTables>>
       \/ /\ service = "process" /\ LifecycleNext
          /\ UNCHANGED <<accountTables, organizationTables, liveTables, mediaTables,
                         limiterTables, pricingTables, webhookTables, webhookHistory,
                         inboxTables, accessTables, held, had>>

ServicesSpec ==
    /\ ServicesInit
    /\ [][ServicesNext]_<<service, requests, accountTables, organizationTables, liveTables,
                          mediaTables, limiterTables, pricingTables, webhookTables,
                          webhookHistory, inboxTables, accessTables, held, had,
                          lifecycleTables>>

-------------------------------------------------------------------------------
(* Properties                                                              *)

\* Each component's type invariant says what its own requests hold.
ServicesTypeOK ==
    /\ service = "accounts"      => AccountsTypeOK
    /\ service = "organizations" => OrganizationsTypeOK
    /\ service = "live"          => LiveSessionsTypeOK
    /\ service = "media"         => MediaTypeOK
    /\ service = "limiter"       => RateLimiterTypeOK
    /\ service = "pricing"       => PricingTypeOK
    /\ service = "webhooks"      => WebhooksTypeOK
    /\ service = "inbox"         => InboxTypeOK
    /\ service = "access"        => AccessTypeOK
    /\ service = "process"       => LifecycleTypeOK

\* What an order costs and what becomes of it: AmountsAddUp of the amounts a
\* checkout computes (payment.go:73), ReportsApplied of what providers report of
\* it (payment.go:206).
BillingSound == AmountsAddUp /\ ReportsApplied
===============================================================================
