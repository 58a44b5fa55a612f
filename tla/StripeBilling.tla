---------------------------- MODULE StripeBilling ----------------------------
(***************************************************************************)
(* The Stripe webhook route in front of its handlers: the subscription and *)
(* the single sessions of one student share the event ledger, the workers  *)
(* and the faults.                                                         *)
(***************************************************************************)
EXTENDS SubscriptionBilling, SingleSessions

CONSTANTS
    Agendas,    \* what may happen: each behaviour draws one of these sets
    MaxEvents   \* bound: the events one agenda can make Stripe emit; more
                \* than these would be delivered without fairness

\* Stripe's ids say what they are ids of.
ASSUME IdAssumption == Invoice \cap Charge = {}

vars == <<eventVars, subscriptionVars, singleVars>>

Init ==
    /\ agenda \in Agendas
    /\ EventsInit
    /\ SubscriptionInit
    /\ SingleInit

\* The handler of an event, by the first thing it does.
Handler(type) ==
    CASE type = "invoice.paid" -> "resolve"
      [] type = "invoice.payment_failed" -> "floor"
      [] type = "lifecycle" -> "read"
      [] type = "pi" -> "sentinel"
      [] type = "charge.refunded" -> "walk"

Dispatch(e) ==
    /\ e \in Event
    /\ \E w \in Worker : Deliver(w, e, Handler(sent[e].type))
    /\ UNCHANGED <<subscriptionVars, singleVars>>

SubscriptionStep(w) ==
    \/ RefuseInvoice(w) \/ ResolveSubscription(w) \/ CreateMirrorOnDemand(w)
    \/ ResolvePendingTierChange(w) \/ GrantCycle(w) \/ SwitchPlan(w) \/ ApplyChange(w)
    \/ LookupIntent(w) \/ GrantDelta(w) \/ PlanMismatch(w) \/ ConsumeIntent(w)
    \/ ReadRecencyFloor(w) \/ WritePastDue(w)
    \/ ReadMirror(w) \/ PatchMirror(w) \/ CreateMirror(w)
    \/ FindRefundedGrant(w) \/ FlipPayment(w) \/ RevokePackages(w) \/ CancelAtStripe(w)
    \/ CloseMirror(w)

SingleStep(w) ==
    \/ ReadSentinel(w) \/ ReadPriorPayment(w) \/ DeleteStaleSentinel(w) \/ ClaimSentinel(w)
    \/ RecordPayment(w) \/ Materialize(w) \/ ReleaseSentinel(w)
    \/ FinalizeRefund(w) \/ FinalizeRaises(w) \/ ReconcileExternal(w)

HandlerStep(w) ==
    \/ SubscriptionStep(w) /\ UNCHANGED singleVars
    \/ SingleStep(w) /\ UNCHANGED subscriptionVars
    \/ Answer(w) /\ UNCHANGED <<subscriptionVars, singleVars>>

\* The student's tier routes and the administrator's action, once begun.
RouteStep(a) ==
    /\ \/ a \in Change /\ InsertChange(a)
       \/ a \in Upgrade /\ \/ CancelStaleIntents(a) \/ RecordIntent(a) \/ UpdateStripe(a)
                           \/ CancelIntent(a) \/ SyncPlan(a) \/ AttachInvoice(a)
    /\ UNCHANGED singleVars

AdminStep(r) ==
    /\ CreateStripeRefund(r) \/ ReleaseRefund(r)
    /\ UNCHANGED subscriptionVars

\* What Stripe, the student, the teacher and the administrator start.
SubscriptionHappening ==
    \/ CreateSubscription \/ TouchSubscription
    \/ \E i \in Invoice : PayInvoice(i) \/ DeclineInvoice(i) \/ RefundInvoice(i)
    \/ \E c \in Change : ScheduleChange(c)
    \/ \E u \in Upgrade : StartUpgrade(u)

SingleHappening ==
    \E k \in Charge :
        \/ Charged(k) \/ ChargedAgain(k) \/ DashboardRefund(k)
        \/ \E status \in {"completed", "cancelled"} : EndBooking(k, status)
        \/ \E r \in RefundRequest : ReserveRefund(r, k)

Failure ==
    \/ /\ \/ \E w \in Worker : PastDueLost(w) \/ UpsertFails(w)
          \/ \E a \in Asked : StopRequest(a)
       /\ UNCHANGED singleVars
    \/ /\ \/ \E w \in Worker : PaymentCallFails(w)
          \/ \E r \in RefundRequest : StopAdmin(r)
       /\ UNCHANGED subscriptionVars
    \/ /\ \E w \in Worker : Interrupted(w) \/ AnswerHalfway(w)
       /\ UNCHANGED <<subscriptionVars, singleVars>>

Next ==
    \/ SubscriptionHappening /\ UNCHANGED singleVars
    \/ SingleHappening /\ UNCHANGED subscriptionVars
    \/ \E a \in Asked : RouteStep(a)
    \/ \E r \in RefundRequest : AdminStep(r)
    \/ \E e \in Event : Dispatch(e) \/ (Duplicate(e) /\ UNCHANGED <<subscriptionVars, singleVars>>)
    \/ \E w \in Worker : HandlerStep(w)
    \/ Failure

Spec == Init /\ [][Next]_vars

\* A handler, a route or an action that has begun goes on, unless it is
\* interrupted; Stripe delivers an event again as long as no delivery of it was
\* answered 200.
FairSpec ==
    /\ Spec
    /\ \A w \in Worker : WF_vars(HandlerStep(w))
    /\ WF_vars((\E a \in Asked : RouteStep(a)) \/ (\E r \in RefundRequest : AdminStep(r)))
    /\ \A e \in 1..MaxEvents : SF_vars(e \notin acked /\ Dispatch(e))

----------------------------------------------------------------------------
(* What the variables hold. *)

Status == {"none", "active", "past_due", "canceled"}
RefundedBy == RefundRequest \cup {"dashboard", None}

EventRecord ==
    [type : {"invoice.paid", "invoice.payment_failed", "lifecycle", "pi", "charge.refunded"},
     about : Invoice \cup Charge \cup {None}, status : Status, ref : Plan \cup RefundedBy]

Pc == {"idle", "resolve", "insert", "tier", "grant", "switch", "apply", "lookup", "delta",
       "consume", "floor", "pastdue", "read", "patch", "create", "find", "flip", "revoke",
       "cancel", "close", "sentinel", "prior", "unclaim", "claim", "record", "book", "release",
       "walk", "mark", "reject"}

Invocation == [event : Nat, pc : Pc, plan : Plan \cup {None}, ref : Nat \cup Asked \cup {None}]

\* The ledger of events and the invocations
LedgerOK ==
    /\ sent \in Seq(EventRecord)
    /\ row \in [Event -> {"absent", "received", "failed"} \cup Terminal]
    /\ acked \subseteq Event
    /\ work \in [Worker -> Invocation]
    /\ \A w \in Worker : work[w].pc # "idle" => work[w].event \in Event
    /\ faults \in 0..MaxFaults

SubscriptionOK ==
    /\ stripe \in [status : Status, plan : Plan]
    /\ invoice \in [Invoice -> {"none", "open", "paid", "refunded"}]
    /\ mirror = NoMirror \/ mirror \in [status : Status, plan : Plan, last : Nat]
    /\ package \in [Invoice -> [status : {"none", "active", "cancelled"}, credits : Nat]]
    /\ payment \in [Cycle -> {"none", "succeeded", "refunded"}]
    /\ change \in [Change -> {"none", "pending", "applied", "cancelled"}]
    /\ intent \in [Upgrade -> [status : {"none", "pending", "applied", "cancelled"},
                               delta : Nat, invoice : Plan \cup {None}]]
    /\ request \in [Asked -> {"idle", "insert", "supersede", "record", "stripe", "undo", "sync",
                              "attach", "done", "stopped"}]

SingleOK ==
    /\ charge \in [Charge -> [status : {"none", "succeeded", "refunded"}, by : RefundedBy]]
    /\ sentinel \in [Charge -> Nat]
    /\ record \in [Charge -> [status : {"none", "succeeded"}, booking : Nat]]
    /\ booking \in Seq([charge : Charge, status : {"live", "completed", "cancelled"}])
    /\ refund \in [RefundRequest -> [status : {"none", "pending", "succeeded", "released"},
                                     charge : Charge \cup {None}]]
    /\ admin \in [RefundRequest -> {"idle", "stripe", "release", "done", "stopped"}]

BillingTypeOK == LedgerOK /\ SubscriptionOK /\ SingleOK

----------------------------------------------------------------------------
(* The subscription. *)

\* What a grant may be worth: the sessions of a plan, or what it has over another
GrantSize == {Sessions[p] - less : p \in Plan, less \in {0} \cup {Sessions[q] : q \in Plan}}

\* The invoices of the subscription and the packages they grant keep the
\* promise of Entitlement: whatever is delivered twice, late or out of order,
\* a paid invoice grants once, no package comes back once it is revoked, and
\* every monthly invoice the handler accepts is granted in the end.
EntitlementOf == INSTANCE Entitlement WITH
    Owed <- Cycle \ Unusable,
    Size <- GrantSize,
    paid <- {i \in Invoice : invoice[i] \in {"paid", "refunded"}},
    returned <- {i \in Invoice : invoice[i] = "refunded"},
    held <- package

KeepsEntitlement == EntitlementOf!EntitlementSpec

\* A refund of an invoice already granted goes all the way, even when its
\* handler dies halfway: the package is revoked and Stripe bills no more.
RefundSticks ==
    [](\A i \in Cycle : invoice[i] = "refunded" => package[i] # NoPackage) =>
        <>[](\A i \in Cycle : invoice[i] = "refunded" =>
                package[i].status = "cancelled" /\ stripe.status = "canceled")

\* The mirror goes back to an older event only when a failed payment, whose
\* update does not repeat the floor, overtakes a newer one.
MirrorMovesOn ==
    [][mirror'.last < mirror.last => mirror'.status = "past_due"]_vars

\* While no call fails, an upgrade the route completed grants its credits once
\* its proration invoice is paid, in whatever order the route's last writes, the
\* snapshots of the subscription and the invoice come.
UpgradeDelivered ==
    <>[](\A u \in Upgrade :
            ~CallsMayFail /\ request[u] = "done" /\ invoice[Target[u]] = "paid"
                => package[Target[u]] # NoPackage)

\* upgrade-tier/route.ts: "A declined/abandoned proration invoice therefore
\* never yields credits."
DeclinedNeverGranted ==
    \A u \in Upgrade :
        intent[u].status = "applied" => invoice[Target[u]] \in {"paid", "refunded"}

----------------------------------------------------------------------------
(* The single sessions. *)

\* A payment intent makes at most one booking, however many of its events and
\* deliveries are handled at once, and the payment points at it.
OneBookingPerCharge ==
    /\ \A a, b \in DOMAIN booking : booking[a].charge = booking[b].charge => a = b
    /\ \A k \in Charge : Linked(k) => BookingOf(k).charge = k


\* A refund carried out at Stripe ends the booking and its request, unless its
\* answer was lost and the request released.
RefundReachesBooking ==
    <>[](\A k \in Charge :
            LET r == charge[k].by IN
            r \in RefundRequest =>
                \/ refund[r].status = "released"
                \/ refund[r].status = "succeeded" /\ BookingOf(k).status # "live")
=============================================================================
