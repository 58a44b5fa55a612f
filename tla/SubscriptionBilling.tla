-------------------------- MODULE SubscriptionBilling --------------------------
(***************************************************************************)
(* One student's hifz subscription: Stripe's subscription and its          *)
(* invoices, the mirror row, the packages its invoices grant, the tier     *)
(* changes scheduled for renewal, the immediate upgrades billed by a       *)
(* proration invoice, and the webhook handlers that keep them in step.     *)
(*                                                                         *)
(* A handler's database and Stripe calls are its steps.  An upgrade's      *)
(* Stripe call carries an idempotency key made of the target plan, so all  *)
(* requests for one plan share one proration invoice, named by the plan.   *)
(***************************************************************************)
EXTENDS BillingEvents

CONSTANTS
    Cycle,      \* the monthly invoices
    Unusable,   \* those the handler refuses for good: not in USD, no payment intent
    Plan,
    Sessions,   \* the sessions a month of each plan
    FirstPlan,
    Upgrade,    \* requests for an immediate upgrade
    Change,     \* requests for a tier change at renewal
    Target      \* the plan each request asks for

Invoice == Cycle \cup Plan
Asked == Upgrade \cup Change

ASSUME BillingAssumption ==
    /\ Cycle \cap Plan = {} /\ Upgrade \cap Change = {}
    /\ Unusable \subseteq Cycle
    /\ Sessions \in [Plan -> Nat \ {0}]
    /\ Target \in [Asked -> Plan]
    /\ FirstPlan \in Plan
    /\ None \notin Plan \cup Asked

VARIABLES
    stripe,     \* Stripe: the subscription's status and plan
    invoice,    \* Stripe: the invoices
    mirror,     \* subscriptions: status, plan_id, last_event_at
    package,    \* student_packages by the invoice in billing_cycle_key
    payment,    \* payments of the monthly invoices
    change,     \* pending_tier_changes.status
    intent,     \* pending_upgrade_grants: status, delta, stripe_invoice_id
    request     \* where the route of each request stands

subscriptionVars == <<stripe, invoice, mirror, package, payment, change, intent, request>>
tierState == <<change, intent, request>>

NoMirror == [status |-> "absent", plan |-> None, last |-> 0]
NoPackage == [status |-> "none", credits |-> 0]
NoIntent == [status |-> "none", delta |-> 0, invoice |-> None]

\* The subscription exists with its mirror, or is still to be created.
SubscriptionInit ==
    /\ LET status == IF <<"create">> \in agenda THEN "none" ELSE "active" IN
         /\ stripe = [status |-> status, plan |-> FirstPlan]
         /\ mirror = IF status = "none" THEN NoMirror
                      ELSE [status |-> status, plan |-> FirstPlan, last |-> 0]
    /\ invoice = [i \in Invoice |-> IF i \in Cycle THEN "open" ELSE "none"]
    /\ package = [i \in Invoice |-> NoPackage]
    /\ payment = [i \in Cycle |-> "none"]
    /\ change = [c \in Change |-> "none"]
    /\ intent = [u \in Upgrade |-> NoIntent]
    /\ request = [a \in Asked |-> "idle"]

InvoiceEvent(type, i) == [type |-> type, about |-> i, status |-> "none", ref |-> None]
Snapshot(status, plan) == [type |-> "lifecycle", about |-> None, status |-> status, ref |-> plan]

----------------------------------------------------------------------------
(* Stripe and the customer. *)

CreateSubscription ==
    /\ Happens(<<"create">>)
    /\ stripe' = [stripe EXCEPT !.status = "active"]
    /\ Emit(<<Snapshot("active", FirstPlan)>>)
    /\ UNCHANGED <<acked, work, faults, invoice, mirror, package, payment, tierState>>

PayInvoice(i) ==
    /\ invoice[i] = "open"
    /\ stripe.status \notin {"none", "canceled"}
    /\ Happens(<<"pay", i>>)
    /\ invoice' = [invoice EXCEPT ![i] = "paid"]
    /\ IF stripe.status = "past_due"
         THEN /\ stripe' = [stripe EXCEPT !.status = "active"]
              /\ Emit(<<InvoiceEvent("invoice.paid", i), Snapshot("active", stripe.plan)>>)
         ELSE Emit(<<InvoiceEvent("invoice.paid", i)>>) /\ UNCHANGED stripe
    /\ UNCHANGED <<acked, work, faults, mirror, package, payment, tierState>>

DeclineInvoice(i) ==
    /\ invoice[i] = "open"
    /\ stripe.status = "active"
    /\ Happens(<<"decline", i>>)
    /\ stripe' = [stripe EXCEPT !.status = "past_due"]
    /\ Emit(<<InvoiceEvent("invoice.payment_failed", i), Snapshot("past_due", stripe.plan)>>)
    /\ UNCHANGED <<acked, work, faults, invoice, mirror, package, payment, tierState>>

\* A full refund; a partial one changes nothing but a log line.
RefundInvoice(i) ==
    /\ invoice[i] = "paid"
    /\ Happens(<<"refund", i>>)
    /\ invoice' = [invoice EXCEPT ![i] = "refunded"]
    /\ Emit(<<InvoiceEvent("charge.refunded", i)>>)
    /\ UNCHANGED <<acked, work, faults, stripe, mirror, package, payment, tierState>>

\* Another change of the subscription at Stripe (its period, a payment method).
TouchSubscription ==
    /\ stripe.status \notin {"none", "canceled"}
    /\ Happens(<<"touch">>)
    /\ Emit(<<Snapshot(stripe.status, stripe.plan)>>)
    /\ UNCHANGED <<acked, work, faults, subscriptionVars>>

----------------------------------------------------------------------------
(* invoice.paid *)

\* An invoice no redelivery can make good is marked failed and answered 200.
RefuseInvoice(w) ==
    /\ At(w, "resolve")
    /\ About(w) \in Unusable
    /\ Finish(w, "failed")
    /\ UNCHANGED subscriptionVars

\* resolveSubscription: the mirror, or Stripe's subscription to create it from.
ResolveSubscription(w) ==
    /\ At(w, "resolve")
    /\ About(w) \notin Unusable
    /\ IF mirror = NoMirror
         THEN GotoWith(w, "insert", stripe.plan, None)
         ELSE GotoWith(w, IF About(w) \in Cycle THEN "tier" ELSE "lookup", mirror.plan, None)
    /\ UNCHANGED <<sent, acked, row, faults, agenda, subscriptionVars>>

\* The insert, or the row of the delivery that won the race.
CreateMirrorOnDemand(w) ==
    /\ At(w, "insert")
    /\ mirror' = IF mirror = NoMirror
                   THEN [status |-> "active", plan |-> work[w].plan, last |-> work[w].event]
                   ELSE mirror
    /\ Goto(w, IF About(w) \in Cycle THEN "tier" ELSE "lookup")
    /\ UNCHANGED <<sent, acked, row, faults, agenda, stripe, invoice, package, payment, tierState>>

\* resolvePendingTierChange: at most one change is pending.
ResolvePendingTierChange(w) ==
    /\ At(w, "tier")
    /\ \/ \E c \in Change : change[c] = "pending" /\ GotoWith(w, "grant", Target[c], c)
       \/ /\ \A c \in Change : change[c] # "pending"
          /\ Goto(w, "grant")
    /\ UNCHANGED <<sent, acked, row, faults, agenda, subscriptionVars>>

\* Mutant: the cycle key is not looked at.
GrantCycle_NoKey(w) ==
    LET i == About(w) IN
    /\ At(w, "grant")
    /\ package' = [package EXCEPT ![i] = [status |-> "active", credits |-> Sessions[work[w].plan]]]
    /\ payment' = [payment EXCEPT ![i] = IF @ = "none" THEN "succeeded" ELSE @]
    /\ Goto(w, IF work[w].ref = None THEN "mark" ELSE "switch")
    /\ UNCHANGED <<sent, acked, row, faults, agenda, stripe, invoice, mirror, tierState>>

\* grant_subscription_cycle: the payment and the package, once per cycle key.
GrantCycle(w) ==
    LET i == About(w) IN
    /\ At(w, "grant")
    /\ IF package[i] = NoPackage
         THEN /\ package' = [package EXCEPT ![i] =
                     [status |-> "active", credits |-> Sessions[work[w].plan]]]
              /\ payment' = [payment EXCEPT ![i] = IF @ = "none" THEN "succeeded" ELSE @]
         ELSE UNCHANGED <<package, payment>>
    /\ Goto(w, IF work[w].ref = None THEN "mark" ELSE "switch")
    /\ UNCHANGED <<sent, acked, row, faults, agenda, stripe, invoice, mirror, tierState>>

\* finalizePendingTierChange, its first write.
SwitchPlan(w) ==
    /\ At(w, "switch")
    /\ mirror' = [mirror EXCEPT !.plan = work[w].plan]
    /\ Goto(w, "apply")
    /\ UNCHANGED <<sent, acked, row, faults, agenda, stripe, invoice, package, payment, tierState>>

\* ... and its second, which only finds a change that is still pending.
ApplyChange(w) ==
    /\ At(w, "apply")
    /\ change' = [change EXCEPT ![work[w].ref] = IF @ = "pending" THEN "applied" ELSE @]
    /\ Goto(w, "mark")
    /\ UNCHANGED <<sent, acked, row, faults, agenda, stripe, invoice, mirror, package, payment,
                   intent, request>>

----------------------------------------------------------------------------
(* invoice.paid for a proration invoice: applyImmediateUpgradeGrant *)

\* Mutant: by invoice id only.
LookupIntent_ById(w) ==
    /\ At(w, "lookup")
    /\ \/ \E u \in Upgrade : /\ intent[u].status = "pending" /\ intent[u].invoice = About(w)
                             /\ GotoWith(w, "delta", Target[u], u)
       \/ /\ \A u \in Upgrade : intent[u].status # "pending" \/ intent[u].invoice # About(w)
          /\ Goto(w, "mark")
    /\ UNCHANGED <<sent, acked, row, faults, agenda, subscriptionVars>>

\* By invoice id, else the newest pending intent: at most one is pending.
LookupIntent(w) ==
    /\ At(w, "lookup")
    /\ \/ \E u \in Upgrade : intent[u].status = "pending" /\ GotoWith(w, "delta", Target[u], u)
       \/ /\ \A u \in Upgrade : intent[u].status # "pending"
          /\ Goto(w, "mark")
    /\ UNCHANGED <<sent, acked, row, faults, agenda, subscriptionVars>>

\* grant_hifz_cycle_credits, which refuses a plan the mirror is not on.
GrantDelta(w) ==
    LET i == About(w) IN
    /\ At(w, "delta")
    /\ mirror.plan = work[w].plan
    /\ package' = IF package[i] = NoPackage
                    THEN [package EXCEPT ![i] = [status |-> "active",
                                                 credits |-> intent[work[w].ref].delta]]
                    ELSE package
    /\ Goto(w, "consume")
    /\ UNCHANGED <<sent, acked, row, faults, agenda, stripe, invoice, mirror, payment, tierState>>

PlanMismatch(w) ==
    /\ At(w, "delta")
    /\ mirror.plan # work[w].plan
    /\ Throw(w)
    /\ UNCHANGED <<faults, subscriptionVars>>

ConsumeIntent(w) ==
    /\ At(w, "consume")
    /\ intent' = [intent EXCEPT ![work[w].ref].status = IF @ = "pending" THEN "applied" ELSE @]
    /\ Goto(w, "mark")
    /\ UNCHANGED <<sent, acked, row, faults, agenda, stripe, invoice, mirror, package, payment,
                   change, request>>

----------------------------------------------------------------------------
(* invoice.payment_failed *)

ReadRecencyFloor(w) ==
    /\ At(w, "floor")
    /\ Goto(w, IF mirror # NoMirror /\ work[w].event >= mirror.last THEN "pastdue" ELSE "mark")
    /\ UNCHANGED <<sent, acked, row, faults, agenda, subscriptionVars>>

\* The update names the row only: the floor is not read again.
WritePastDue(w) ==
    /\ At(w, "pastdue")
    /\ mirror' = [mirror EXCEPT !.status = "past_due", !.last = work[w].event]
    /\ Goto(w, "mark")
    /\ UNCHANGED <<sent, acked, row, faults, agenda, stripe, invoice, package, payment, tierState>>

\* Neither call's error is looked at: the event is processed and nothing changed.
PastDueLost(w) ==
    /\ At(w, "floor") \/ At(w, "pastdue")
    /\ Fault
    /\ Goto(w, "mark")
    /\ UNCHANGED <<sent, acked, row, agenda, subscriptionVars>>

----------------------------------------------------------------------------
(* customer.subscription.created, updated and deleted: upsertMirror *)

ReadMirror(w) ==
    /\ At(w, "read")
    /\ \/ mirror = NoMirror /\ Goto(w, "create")
       \/ mirror # NoMirror
              /\ Goto(w, IF work[w].event >= mirror.last THEN "patch" ELSE "reject")
    /\ UNCHANGED <<sent, acked, row, faults, agenda, subscriptionVars>>

SnapshotOf(w) ==
    LET e == work[w].event IN [status |-> sent[e].status, plan |-> sent[e].ref, last |-> e]

\* Mutant: the update trusts what was read.
PatchMirror_NoFloor(w) ==
    /\ At(w, "patch")
    /\ mirror' = SnapshotOf(w)
    /\ Goto(w, "mark")
    /\ UNCHANGED <<sent, acked, row, faults, agenda, stripe, invoice, package, payment, tierState>>

\* The update repeats the floor in its WHERE; a lost race writes nothing.
PatchMirror(w) ==
    /\ At(w, "patch")
    /\ IF mirror.last <= work[w].event
         THEN mirror' = SnapshotOf(w) /\ Goto(w, "mark")
         ELSE Goto(w, "reject") /\ UNCHANGED mirror
    /\ UNCHANGED <<sent, acked, row, faults, agenda, stripe, invoice, package, payment, tierState>>

\* The insert, or the unique row of another delivery: its error is no retry.
CreateMirror(w) ==
    /\ At(w, "create")
    /\ IF mirror = NoMirror
         THEN mirror' = SnapshotOf(w) /\ Goto(w, "mark")
         ELSE Goto(w, "reject") /\ UNCHANGED mirror
    /\ UNCHANGED <<sent, acked, row, faults, agenda, stripe, invoice, package, payment, tierState>>

\* upsertMirror never throws: a database error is a null like a stale event.
UpsertFails(w) ==
    /\ At(w, "read") \/ At(w, "patch") \/ At(w, "create")
    /\ Fault
    /\ Goto(w, "reject")
    /\ UNCHANGED <<sent, acked, row, agenda, subscriptionVars>>

----------------------------------------------------------------------------
(* charge.refunded: revokeAndCancelOnSubscriptionRefund *)

\* Mutant: only an active package is a grant to refund.
FindRefundedGrant_Active(w) ==
    /\ At(w, "find")
    /\ Goto(w, IF About(w) \in Cycle /\ package[About(w)].status = "active" THEN "flip" ELSE "mark")
    /\ UNCHANGED <<sent, acked, row, faults, agenda, subscriptionVars>>

\* Only a monthly grant carries the payment intent of its charge.
FindRefundedGrant(w) ==
    /\ At(w, "find")
    /\ Goto(w, IF About(w) \in Cycle /\ package[About(w)] # NoPackage THEN "flip" ELSE "mark")
    /\ UNCHANGED <<sent, acked, row, faults, agenda, subscriptionVars>>

FlipPayment(w) ==
    /\ At(w, "flip")
    /\ payment' = [payment EXCEPT ![About(w)] = "refunded"]
    /\ Goto(w, "revoke")
    /\ UNCHANGED <<sent, acked, row, faults, agenda, stripe, invoice, mirror, package, tierState>>

RevokePackages(w) ==
    /\ At(w, "revoke")
    /\ package' = [i \in Invoice |->
                      [package[i] EXCEPT !.status = IF @ = "active" THEN "cancelled" ELSE @]]
    /\ Goto(w, "cancel")
    /\ UNCHANGED <<sent, acked, row, faults, agenda, stripe, invoice, mirror, payment, tierState>>

\* Already cancelled at Stripe counts as done.
CancelAtStripe(w) ==
    /\ At(w, "cancel")
    /\ stripe' = [stripe EXCEPT !.status = "canceled"]
    /\ Emit(IF stripe.status = "canceled" THEN <<>> ELSE <<Snapshot("canceled", stripe.plan)>>)
    /\ Goto(w, "close")
    /\ UNCHANGED <<acked, faults, agenda, invoice, mirror, package, payment, tierState>>

CloseMirror(w) ==
    /\ At(w, "close")
    /\ mirror' = [mirror EXCEPT !.status = "canceled"]
    /\ Goto(w, "mark")
    /\ UNCHANGED <<sent, acked, row, faults, agenda, stripe, invoice, package, payment, tierState>>

----------------------------------------------------------------------------
(* The student's routes.  A route that dies, or whose write fails, stops. *)

RouteGoto(a, pc) == request' = [request EXCEPT ![a] = pc]

StopRequest(a) ==
    /\ request[a] \notin {"idle", "done", "stopped"}
    /\ Fault
    /\ RouteGoto(a, "stopped")
    /\ UNCHANGED <<sent, acked, row, work, agenda, stripe, invoice, mirror, package, payment,
                   change, intent>>

\* schedule-tier-change, and upgrade-tier for what is no upgrade:
\* scheduleRenewalChange cancels what is pending ...
ScheduleChange(c) ==
    /\ Happens(<<"schedule", c>>)
    /\ mirror # NoMirror /\ mirror.status # "canceled" /\ mirror.plan # Target[c]
    /\ change' = [d \in Change |-> IF change[d] = "pending" THEN "cancelled" ELSE change[d]]
    /\ RouteGoto(c, "insert")
    /\ UNCHANGED <<sent, acked, row, work, faults, stripe, invoice, mirror, package, payment, intent>>

\* ... and inserts; the unique index refuses a second pending change.
InsertChange(c) ==
    /\ request[c] = "insert"
    /\ IF \E d \in Change : change[d] = "pending"
         THEN RouteGoto(c, "stopped") /\ UNCHANGED change
         ELSE RouteGoto(c, "done") /\ change' = [change EXCEPT ![c] = "pending"]
    /\ UNCHANGED <<sent, acked, row, work, faults, agenda, stripe, invoice, mirror, package,
                   payment, intent>>

\* upgrade-tier: more sessions, counted from the plan the mirror is on now.
StartUpgrade(u) ==
    /\ Happens(<<"upgrade", u>>)
    /\ mirror # NoMirror /\ mirror.status # "canceled"
    /\ Sessions[Target[u]] > Sessions[mirror.plan]
    /\ intent' = [intent EXCEPT ![u].delta = Sessions[Target[u]] - Sessions[mirror.plan]]
    /\ RouteGoto(u, "supersede")
    /\ UNCHANGED <<sent, acked, row, work, faults, stripe, invoice, mirror, package, payment, change>>

\* recordPendingUpgradeGrant cancels what is pending ...
CancelStaleIntents(u) ==
    /\ request[u] = "supersede"
    /\ intent' = [v \in Upgrade |->
           [intent[v] EXCEPT !.status = IF @ = "pending" THEN "cancelled" ELSE @]]
    /\ RouteGoto(u, "record")
    /\ UNCHANGED <<sent, acked, row, work, faults, agenda, stripe, invoice, mirror, package,
                   payment, change>>

\* ... and records the intent; the unique index refuses a second pending one.
RecordIntent(u) ==
    /\ request[u] = "record"
    /\ IF \E v \in Upgrade : intent[v].status = "pending"
         THEN RouteGoto(u, "stopped") /\ UNCHANGED intent
         ELSE RouteGoto(u, "stripe") /\ intent' = [intent EXCEPT ![u].status = "pending"]
    /\ UNCHANGED <<sent, acked, row, work, faults, agenda, stripe, invoice, mirror, package,
                   payment, change>>

\* subscriptions.update with always_invoice; a repetition gets the first answer.
\* Stripe may refuse, and the answer may be lost.
UpdateStripe(u) ==
    LET p == Target[u]
        carriedOut ==
            IF invoice[p] = "none"
              THEN /\ stripe' = [stripe EXCEPT !.plan = p]
                   /\ invoice' = [invoice EXCEPT ![p] = "open"]
                   /\ Emit(<<Snapshot(stripe.status, p)>>)
              ELSE UNCHANGED <<stripe, invoice, sent, row>>
    IN
    /\ request[u] = "stripe"
    /\ \/ /\ stripe.status # "canceled"
          /\ carriedOut
          /\ RouteGoto(u, "sync")
          /\ UNCHANGED faults
       \/ /\ stripe.status # "canceled"
          /\ Fault
          /\ carriedOut
          /\ RouteGoto(u, "undo")
       \/ /\ \/ stripe.status = "canceled" /\ UNCHANGED faults
             \/ Fault
          /\ RouteGoto(u, "undo")
          /\ UNCHANGED <<stripe, invoice, sent, row>>
    /\ UNCHANGED <<acked, work, agenda, mirror, package, payment, change, intent>>

CancelIntent(u) ==
    /\ request[u] = "undo"
    /\ intent' = [intent EXCEPT ![u].status = IF @ = "pending" THEN "cancelled" ELSE @]
    /\ RouteGoto(u, "stopped")
    /\ UNCHANGED <<sent, acked, row, work, faults, agenda, stripe, invoice, mirror, package,
                   payment, change>>

SyncPlan(u) ==
    /\ request[u] = "sync"
    /\ mirror' = [mirror EXCEPT !.plan = Target[u]]
    /\ RouteGoto(u, "attach")
    /\ UNCHANGED <<sent, acked, row, work, faults, agenda, stripe, invoice, package, payment,
                   change, intent>>

\* A failure to attach is only logged.
AttachInvoice(u) ==
    /\ request[u] = "attach"
    /\ \/ /\ intent' = [intent EXCEPT ![u].invoice =
                           IF intent[u].status = "pending" THEN Target[u] ELSE @]
          /\ UNCHANGED faults
       \/ Fault /\ UNCHANGED intent
    /\ RouteGoto(u, "done")
    /\ UNCHANGED <<sent, acked, row, work, agenda, stripe, invoice, mirror, package, payment, change>>
=============================================================================
