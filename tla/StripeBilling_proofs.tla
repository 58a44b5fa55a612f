------------------------ MODULE StripeBilling_proofs ------------------------
(***************************************************************************)
(* The webhook route, for any number of events, deliveries, invocations,   *)
(* plans, invoices and charges: what a handler read many steps ago is      *)
(* still enough for the writes it does now.                                *)
(***************************************************************************)
EXTENDS StripeBilling, FiniteSums, SequenceTheorems

-----------------------------------------------------------------------------
(* The inductive invariant.                                                *)

\* What the creation of an event says for ever after.
MessageSound(m) ==
    /\ m.type = "invoice.paid" => m.about \in Invoice /\ invoice[m.about] \in {"paid", "refunded"}
    /\ m.type = "lifecycle" => m.ref \in Plan
    /\ m.type = "pi" => m.about \in Charge
    /\ m.type = "charge.refunded" /\ m.about \in Invoice => invoice[m.about] = "refunded"

EventsSound == \A n \in Event : MessageSound(sent[n])

\* The steps of each handler
PaidPc   == {"resolve", "insert", "tier", "grant", "switch", "apply", "lookup", "delta", "consume"}
MirrorPc == {"read", "patch", "create"}
IntentPc == {"sentinel", "prior", "unclaim", "claim", "record", "book", "release"}
RevokePc == {"flip", "revoke", "cancel", "close"}

\* The steps that are reached only past a mirror that exists
MirroredPc == {"tier", "grant", "switch", "apply", "lookup", "delta", "consume", "pastdue",
               "patch"} \cup RevokePc

\* What an invocation knows of its event and carries from its reads.
WorkSound(w) ==
    /\ work[w].pc = "idle" => work[w] = Idle
    /\ work[w].pc \in PaidPc => sent[work[w].event].type = "invoice.paid"
    /\ work[w].pc \in MirrorPc => sent[work[w].event].type = "lifecycle"
    /\ work[w].pc \in IntentPc => sent[work[w].event].type = "pi"
    /\ work[w].pc \in RevokePc \cup {"walk", "find"} =>
          sent[work[w].event].type = "charge.refunded"
    /\ work[w].pc \in RevokePc => sent[work[w].event].about \in Cycle
    /\ work[w].pc \in MirroredPc => mirror # NoMirror
    /\ work[w].pc \in {"insert", "tier", "grant", "switch", "delta"} => work[w].plan \in Plan
    /\ work[w].pc \in {"insert", "tier"} => work[w].ref = None
    /\ work[w].pc = "grant" => work[w].ref \in Change \cup {None}
    /\ work[w].pc \in {"switch", "apply"} => work[w].ref \in Change
    /\ work[w].pc \in {"delta", "consume"} =>
          work[w].ref \in Upgrade /\ request[work[w].ref] # "idle"

\* Upgrades start from a mirror that exists, and packages come after it.
UpgradeSound(u) ==
    /\ intent[u].status # "none" => request[u] # "idle"
    /\ request[u] # "idle" => mirror # NoMirror /\ intent[u].delta \in GrantSize

PackageSound(i) == package[i] # NoPackage => mirror # NoMirror

TiersSound ==
    /\ \A u \in Upgrade : UpgradeSound(u)
    /\ \A i \in Invoice : PackageSound(i)

\* Charges and bookings point at each other, and a refund that was begun at one.
LinksSound ==
    /\ \A k \in Charge : Linked(k) =>
          record[k].booking \in DOMAIN booking /\ BookingOf(k).charge = k
    /\ \A b \in DOMAIN booking : record[booking[b].charge].booking = b
    /\ \A r \in RefundRequest : admin[r] # "idle" => refund[r].charge \in Charge

BillingInv ==
    /\ BillingTypeOK
    /\ EventsSound /\ TiersSound /\ LinksSound
    /\ \A w \in Worker : WorkSound(w)

\* Nothing is there at first but, perhaps, the subscription and its mirror.
LEMMA BillingInvInit == Init => BillingInv
<1> SUFFICES ASSUME Init PROVE BillingInv
    OBVIOUS
<1>1. LedgerOK
    <2>1. sent = <<>> /\ row = <<>> /\ acked = {} /\ work = [w \in Worker |-> Idle]
        BY DEF Init, EventsInit
    <2>2. sent \in Seq(EventRecord) /\ row \in Seq({"absent"}) /\ Len(sent) = 0 /\ Len(row) = 0
        BY <2>1, EmptySeq
    <2>3. Event = {} /\ row \in [Event -> {"absent"}]
        BY <2>2, LenProperties DEF Event
    <2>4. Idle \in Invocation /\ \A w \in Worker : work[w].pc = "idle"
        BY <2>1 DEF Idle, Invocation, Pc
    <2>5. faults \in 0..MaxFaults
        BY FaultAssumption DEF Init, EventsInit
    <2> QED
        BY <2>1, <2>2, <2>3, <2>4, <2>5 DEF LedgerOK
<1>2. SubscriptionOK /\ TiersSound
    BY BillingAssumption
    DEF Init, SubscriptionInit, SubscriptionOK, Status, NoMirror, NoPackage, NoIntent, Invoice,
        Asked, TiersSound, UpgradeSound, PackageSound
<1>3. SingleOK /\ LinksSound
    <2>1. booking = <<>> /\ DOMAIN booking = {}
        BY EmptySeq DEF Init, SingleInit
    <2>2. booking \in Seq([charge : Charge, status : {"live", "completed", "cancelled"}])
        BY <2>1, EmptySeq
    <2> QED
        BY <2>1, <2>2 DEF Init, SingleInit, SingleOK, LinksSound, Linked, RefundedBy
<1>4. EventsSound
    BY EmptySeq DEF Init, EventsInit, EventsSound, Event
<1>5. \A w \in Worker : WorkSound(w)
    BY DEF Init, EventsInit, Idle, WorkSound, PaidPc, MirrorPc, IntentPc, RevokePc, MirroredPc
<1> QED
    BY <1>1, <1>2, <1>3, <1>4, <1>5 DEF BillingInv, BillingTypeOK

-----------------------------------------------------------------------------
(* The subscription.                                                       *)

\* Paid invoices stay paid, refunded ones refunded; the mirror does not go, and a
\* request once made stays made.
PaidStays ==
    \A i \in Invoice :
        /\ invoice[i] \in {"paid", "refunded"} => invoice'[i] \in {"paid", "refunded"}
        /\ invoice[i] = "refunded" => invoice'[i] = "refunded"

RecordsStay ==
    /\ mirror # NoMirror => mirror' # NoMirror
    /\ \A u \in Upgrade : request[u] # "idle" => request'[u] # "idle"

SubscriptionKept == SubscriptionOK' /\ TiersSound' /\ PaidStays /\ RecordsStay

Mirror == [status : Status, plan : Plan, last : Nat]

LEMMA SubscriptionUnchanged ==
    ASSUME SubscriptionOK, TiersSound, UNCHANGED subscriptionVars
    PROVE  SubscriptionKept
BY DEF SubscriptionOK, TiersSound, UpgradeSound, PackageSound, subscriptionVars, PaidStays,
       RecordsStay, SubscriptionKept

\* A step that writes nothing but the mirror
LEMMA MirrorWritten ==
    ASSUME SubscriptionOK, TiersSound, mirror' \in Mirror,
           UNCHANGED <<stripe, invoice, package, payment, tierState>>
    PROVE  SubscriptionKept
<1>1. mirror' # NoMirror
    BY DEF Mirror, NoMirror, Status
<1>2. SubscriptionOK'
    BY DEF SubscriptionOK, Mirror, tierState
<1>3. TiersSound'
    BY <1>1 DEF TiersSound, UpgradeSound, PackageSound, tierState
<1> QED
    BY <1>1, <1>2, <1>3 DEF PaidStays, RecordsStay, SubscriptionKept, tierState

\* What Stripe and the customer do to the subscription
LEMMA HappeningKeepsSubscription ==
    ASSUME SubscriptionOK, TiersSound, SubscriptionHappening
    PROVE  SubscriptionKept
<1> USE DEF Status, tierState
<1>1. ASSUME CreateSubscription \/ TouchSubscription
      PROVE  SubscriptionKept
    <2>1. stripe' \in [status : Status, plan : Plan]
          /\ UNCHANGED <<invoice, mirror, package, payment, tierState>>
        BY <1>1 DEF CreateSubscription, TouchSubscription, SubscriptionOK, subscriptionVars
    <2> QED
        BY <2>1 DEF SubscriptionOK, TiersSound, UpgradeSound, PackageSound, PaidStays, RecordsStay,
                    SubscriptionKept
<1>2. ASSUME NEW i \in Invoice, PayInvoice(i) \/ DeclineInvoice(i) \/ RefundInvoice(i)
      PROVE  SubscriptionKept
    <2>1. /\ stripe' \in [status : Status, plan : Plan]
          /\ invoice' = invoice \/ \E s \in {"paid", "refunded"} :
                invoice[i] \in {"open", "paid"} /\ invoice' = [invoice EXCEPT ![i] = s]
          /\ UNCHANGED <<mirror, package, payment, tierState>>
        BY <1>2 DEF PayInvoice, DeclineInvoice, RefundInvoice, SubscriptionOK
    <2>2. PaidStays /\ invoice' \in [Invoice -> {"none", "open", "paid", "refunded"}]
        BY <2>1 DEF SubscriptionOK, PaidStays
    <2> QED
        BY <2>1, <2>2 DEF SubscriptionOK, TiersSound, UpgradeSound, PackageSound, RecordsStay,
                          SubscriptionKept
<1>3. ASSUME NEW c \in Change, ScheduleChange(c) PROVE SubscriptionKept
    <2>1. /\ change' \in [Change -> {"none", "pending", "applied", "cancelled"}]
          /\ request' = [request EXCEPT ![c] = "insert"]
          /\ UNCHANGED <<stripe, invoice, mirror, package, payment, intent>>
        BY <1>3 DEF ScheduleChange, RouteGoto, SubscriptionOK
    <2>2. \A u \in Upgrade : request'[u] = request[u]
        BY <2>1, BillingAssumption DEF SubscriptionOK, Asked
    <2> QED
        BY <2>1, <2>2 DEF SubscriptionOK, TiersSound, UpgradeSound, PackageSound, PaidStays,
                          RecordsStay, SubscriptionKept
<1>4. ASSUME NEW u \in Upgrade, StartUpgrade(u) PROVE SubscriptionKept
    <2>1. Target[u] \in Plan /\ mirror \in Mirror /\ mirror # NoMirror
        BY <1>4, BillingAssumption DEF StartUpgrade, SubscriptionOK, Mirror, Asked
    <2>2. PICK n \in Nat : n = Sessions[Target[u]] - Sessions[mirror.plan] /\ n \in GrantSize
        BY <1>4, <2>1, BillingAssumption DEF StartUpgrade, GrantSize, Mirror
    <2>3. /\ intent' = [intent EXCEPT ![u].delta = n]
          /\ request' = [request EXCEPT ![u] = "supersede"]
          /\ UNCHANGED <<stripe, invoice, mirror, package, payment, change>>
        BY <1>4, <2>2 DEF StartUpgrade, RouteGoto
    <2>4. SubscriptionOK'
        BY <2>2, <2>3 DEF SubscriptionOK
    <2>5. TiersSound'
        BY <2>1, <2>2, <2>3 DEF SubscriptionOK, TiersSound, UpgradeSound, PackageSound, Asked
    <2> QED
        BY <2>3, <2>4, <2>5 DEF PaidStays, RecordsStay, SubscriptionKept
<1> QED
    BY <1>1, <1>2, <1>3, <1>4 DEF SubscriptionHappening

\* A step of a request, once begun, keeps what the upgrades hold.
LEMMA RequestMoves ==
    ASSUME SubscriptionOK, TiersSound, SubscriptionOK', RecordsStay, PaidStays, UNCHANGED package,
           \A u \in Upgrade :
               /\ request'[u] = "idle" <=> request[u] = "idle"
               /\ intent'[u].delta = intent[u].delta
               /\ intent'[u].status # "none" => intent[u].status # "none" \/ request[u] # "idle"
    PROVE  SubscriptionKept
BY DEF TiersSound, UpgradeSound, PackageSound, RecordsStay, SubscriptionKept

\* What a request's routes do to the subscription
LEMMA RouteKeepsSubscription ==
    ASSUME SubscriptionOK, TiersSound, NEW a \in Asked, RouteStep(a)
    PROVE  SubscriptionKept
<1>1. ASSUME a \in Change, InsertChange(a) PROVE SubscriptionKept
    <2>1. /\ change' \in [Change -> {"none", "pending", "applied", "cancelled"}]
          /\ \E pc \in {"stopped", "done"} : request' = [request EXCEPT ![a] = pc]
          /\ UNCHANGED <<stripe, invoice, mirror, package, payment, intent>>
        BY <1>1 DEF InsertChange, RouteGoto, SubscriptionOK
    <2>2. SubscriptionOK' /\ RecordsStay /\ PaidStays
        BY <2>1 DEF SubscriptionOK, RecordsStay, PaidStays
    <2>3. \A u \in Upgrade : request'[u] = request[u]
        BY <1>1, <2>1, BillingAssumption DEF SubscriptionOK, Asked
    <2> QED
        BY <2>1, <2>2, <2>3, RequestMoves
<1>2. ASSUME a \in Upgrade, CancelStaleIntents(a) PROVE SubscriptionKept
    <2>1. /\ intent' = [v \in Upgrade |->
                  [intent[v] EXCEPT !.status = IF @ = "pending" THEN "cancelled" ELSE @]]
          /\ request' = [request EXCEPT ![a] = "record"] /\ request[a] # "idle"
          /\ UNCHANGED <<stripe, invoice, mirror, package, payment, change>>
        BY <1>2 DEF CancelStaleIntents, RouteGoto
    <2>2. SubscriptionOK' /\ RecordsStay /\ PaidStays
        BY <2>1 DEF SubscriptionOK, RecordsStay, PaidStays
    <2>3. \A u \in Upgrade :
              /\ request'[u] = "idle" <=> request[u] = "idle"
              /\ intent'[u].delta = intent[u].delta
              /\ intent'[u].status # "none" => intent[u].status # "none"
        BY <2>1 DEF SubscriptionOK, Asked
    <2> QED
        BY <2>1, <2>2, <2>3, RequestMoves
<1>3. ASSUME a \in Upgrade, RecordIntent(a) \/ CancelIntent(a) \/ AttachInvoice(a)
      PROVE  SubscriptionKept
    <2> DEFINE Intent == [status : {"none", "pending", "applied", "cancelled"},
                          delta : Nat, invoice : Plan \cup {None}]
    <2>1. PICK n \in Intent, pc \in {"stopped", "stripe", "done"} :
              /\ intent' = [intent EXCEPT ![a] = n] /\ n.delta = intent[a].delta
              /\ request' = [request EXCEPT ![a] = pc] /\ request[a] # "idle"
        <3>1. intent[a] \in Intent /\ Target[a] \in Plan /\ intent = [intent EXCEPT ![a] = @]
            BY <1>3, BillingAssumption DEF SubscriptionOK, Asked
        <3>2. CASE RecordIntent(a)
            <4>1. CASE \E v \in Upgrade : intent[v].status = "pending"
                BY <3>1, <3>2, <4>1 DEF RecordIntent, RouteGoto
            <4>2. CASE ~\E v \in Upgrade : intent[v].status = "pending"
                <5> DEFINE m == [intent[a] EXCEPT !.status = "pending"]
                <5>1. m \in Intent /\ m.delta = intent[a].delta /\ intent' = [intent EXCEPT ![a] = m]
                    BY <3>1, <3>2, <4>2 DEF RecordIntent
                <5> QED
                    BY <3>2, <4>2, <5>1 DEF RecordIntent, RouteGoto
            <4> QED
                BY <4>1, <4>2
        <3>3. CASE CancelIntent(a)
            <4> DEFINE m == [intent[a] EXCEPT !.status = IF @ = "pending" THEN "cancelled" ELSE @]
            <4>1. m \in Intent /\ m.delta = intent[a].delta /\ intent' = [intent EXCEPT ![a] = m]
                BY <3>1, <3>3 DEF CancelIntent
            <4> QED
                BY <3>3, <4>1 DEF CancelIntent, RouteGoto
        <3>4. CASE AttachInvoice(a)
            <4> DEFINE m == [intent[a] EXCEPT !.invoice =
                                IF intent[a].status = "pending" THEN Target[a] ELSE @]
            <4>1. m \in Intent /\ m.delta = intent[a].delta
                BY <3>1
            <4>2. intent' = [intent EXCEPT ![a] = m] \/ intent' = intent
                BY <3>1, <3>4 DEF AttachInvoice
            <4> HIDE DEF m
            <4> QED
                BY <3>1, <3>4, <4>1, <4>2 DEF AttachInvoice, RouteGoto
        <3> QED
            BY <1>3, <3>2, <3>3, <3>4
    <2>2. UNCHANGED <<stripe, invoice, mirror, package, payment, change>>
        BY <1>3 DEF RecordIntent, CancelIntent, AttachInvoice
    <2>3. SubscriptionOK' /\ RecordsStay /\ PaidStays
        BY <1>3, <2>1, <2>2 DEF SubscriptionOK, RecordsStay, PaidStays
    <2>4. \A u \in Upgrade :
              /\ request'[u] = "idle" <=> request[u] = "idle"
              /\ intent'[u].delta = intent[u].delta
              /\ intent'[u].status # "none" => intent[u].status # "none" \/ request[u] # "idle"
        BY <1>3, <2>1 DEF SubscriptionOK, Asked
    <2> QED
        BY <2>2, <2>3, <2>4, RequestMoves
<1>4. ASSUME a \in Upgrade, UpdateStripe(a) PROVE SubscriptionKept
    <2>1. /\ \/ UNCHANGED <<stripe, invoice>>
             \/ /\ invoice[Target[a]] = "none"
                /\ stripe' = [stripe EXCEPT !.plan = Target[a]]
                /\ invoice' = [invoice EXCEPT ![Target[a]] = "open"]
          /\ \E pc \in {"sync", "undo"} : request' = [request EXCEPT ![a] = pc]
          /\ request[a] # "idle"
          /\ UNCHANGED <<mirror, package, payment, change, intent>>
        BY <1>4 DEF UpdateStripe, RouteGoto
    <2>2. Target[a] \in Plan /\ Target[a] \in Invoice
        BY BillingAssumption DEF Invoice
    <2>4. /\ stripe' \in [status : Status, plan : Plan]
          /\ invoice' \in [Invoice -> {"none", "open", "paid", "refunded"}]
          /\ PaidStays
        BY <2>1, <2>2 DEF SubscriptionOK, PaidStays
    <2>5. SubscriptionOK' /\ RecordsStay
        BY <2>1, <2>4 DEF SubscriptionOK, RecordsStay
    <2>3. \A u \in Upgrade : request'[u] = "idle" <=> request[u] = "idle"
        BY <2>1 DEF SubscriptionOK, Asked
    <2> QED
        BY <2>1, <2>3, <2>4, <2>5, RequestMoves
<1>5. ASSUME a \in Upgrade, SyncPlan(a) PROVE SubscriptionKept
    <2>1. /\ mirror' = [mirror EXCEPT !.plan = Target[a]] /\ Target[a] \in Plan
          /\ request' = [request EXCEPT ![a] = "attach"] /\ request[a] # "idle"
          /\ UNCHANGED <<stripe, invoice, package, payment, change, intent>>
        BY <1>5, BillingAssumption DEF SyncPlan, RouteGoto
    <2>2. mirror \in Mirror
        BY <1>5, <2>1 DEF TiersSound, UpgradeSound, SubscriptionOK, Mirror
    <2>3. mirror' \in Mirror /\ mirror' # NoMirror
        BY <2>1, <2>2 DEF Mirror, NoMirror, Status
    <2>4. SubscriptionOK' /\ RecordsStay /\ PaidStays
        BY <2>1, <2>3 DEF SubscriptionOK, RecordsStay, PaidStays, Mirror
    <2>5. \A u \in Upgrade : request'[u] = "idle" <=> request[u] = "idle"
        BY <2>1 DEF SubscriptionOK, Asked
    <2> QED
        BY <2>1, <2>4, <2>5, RequestMoves
<1> QED
    BY <1>1, <1>2, <1>3, <1>4, <1>5 DEF RouteStep

LEMMA StopKeepsSubscription ==
    ASSUME SubscriptionOK, TiersSound, NEW a \in Asked, StopRequest(a)
    PROVE  SubscriptionKept
<1>1. /\ request' = [request EXCEPT ![a] = "stopped"] /\ request[a] # "idle"
      /\ UNCHANGED <<stripe, invoice, mirror, package, payment, change, intent>>
    BY DEF StopRequest, RouteGoto
<1>2. SubscriptionOK' /\ RecordsStay /\ PaidStays
    BY <1>1 DEF SubscriptionOK, RecordsStay, PaidStays
<1>3. \A u \in Upgrade : request'[u] = "idle" <=> request[u] = "idle"
    BY <1>1 DEF SubscriptionOK, Asked
<1> QED
    BY <1>1, <1>2, <1>3, RequestMoves

\* What a step of a handler knows of the event it handles
LEMMA AtEvent ==
    ASSUME BillingInv, NEW w \in Worker, work[w].pc # "idle"
    PROVE  /\ work[w].event \in Event /\ work[w].event \in Nat
           /\ sent[work[w].event] \in EventRecord
           /\ MessageSound(sent[work[w].event])
<1>1. sent \in Seq(EventRecord) /\ work[w].event \in Event
    BY DEF BillingInv, BillingTypeOK, LedgerOK
<1> QED
    BY <1>1, LenProperties, ElementOfSeq DEF Event, BillingInv, EventsSound

\* The handlers' writes to the mirror
LEMMA MirrorStepKeeps ==
    ASSUME BillingInv, NEW w \in Worker,
           \/ CreateMirrorOnDemand(w) \/ SwitchPlan(w) \/ WritePastDue(w)
           \/ PatchMirror(w) \/ CreateMirror(w) \/ CloseMirror(w)
    PROVE  SubscriptionKept
<1>1. SubscriptionOK /\ TiersSound /\ WorkSound(w)
    BY DEF BillingInv, BillingTypeOK
<1>2. UNCHANGED <<stripe, invoice, package, payment, tierState>>
    BY DEF CreateMirrorOnDemand, SwitchPlan, WritePastDue, PatchMirror, CreateMirror, CloseMirror
<1>3. PICK e : e = work[w].event
    OBVIOUS
<1>4. e \in Nat /\ e \in Event /\ sent[e] \in EventRecord /\ MessageSound(sent[e])
    BY <1>3, AtEvent DEF CreateMirrorOnDemand, SwitchPlan, WritePastDue, PatchMirror, CreateMirror,
                         CloseMirror, At
<1>5. mirror = NoMirror \/ mirror \in Mirror
    BY <1>1 DEF SubscriptionOK, Mirror
<1> USE DEF At
<1>6. CASE CreateMirrorOnDemand(w)
    <2>1. work[w].plan \in Plan
        BY <1>1, <1>6 DEF CreateMirrorOnDemand, WorkSound
    <2>2. mirror' \in Mirror
        BY <1>3, <1>4, <1>5, <1>6, <2>1 DEF CreateMirrorOnDemand, Mirror, Status
    <2> QED
        BY <1>1, <1>2, <2>2, MirrorWritten
<1>7. CASE SwitchPlan(w)
    <2>1. work[w].plan \in Plan /\ mirror \in Mirror
        BY <1>1, <1>5, <1>7 DEF SwitchPlan, WorkSound, MirroredPc
    <2>2. mirror' \in Mirror
        BY <1>7, <2>1 DEF SwitchPlan, Mirror
    <2> QED
        BY <1>1, <1>2, <2>2, MirrorWritten
<1>8. CASE WritePastDue(w)
    <2>1. mirror \in Mirror
        BY <1>1, <1>5, <1>8 DEF WritePastDue, WorkSound, MirroredPc
    <2>2. mirror' \in Mirror
        BY <1>3, <1>4, <1>8, <2>1 DEF WritePastDue, Mirror, Status
    <2> QED
        BY <1>1, <1>2, <2>2, MirrorWritten
<1>9. CASE CloseMirror(w)
    <2>1. mirror \in Mirror
        BY <1>1, <1>5, <1>9 DEF CloseMirror, WorkSound, MirroredPc, RevokePc
    <2>2. mirror' \in Mirror
        BY <1>9, <2>1 DEF CloseMirror, Mirror, Status
    <2> QED
        BY <1>1, <1>2, <2>2, MirrorWritten
<1>10. CASE PatchMirror(w) \/ CreateMirror(w)
    <2>1. sent[e].type = "lifecycle"
        BY <1>1, <1>3, <1>10 DEF PatchMirror, CreateMirror, WorkSound, MirrorPc
    <2>2. SnapshotOf(w) \in Mirror
        BY <1>3, <1>4, <2>1 DEF SnapshotOf, Mirror, EventRecord, MessageSound
    <2>3. mirror' \in Mirror \/ mirror' = mirror
        BY <1>10, <2>2 DEF PatchMirror, CreateMirror
    <2> QED
        BY <1>1, <1>2, <1>5, <2>3, MirrorWritten, SubscriptionUnchanged
        DEF subscriptionVars, tierState
<1> QED
    BY <1>6, <1>7, <1>8, <1>9, <1>10

\* The handlers' writes to packages and payments
LEMMA PackageStepKeeps ==
    ASSUME BillingInv, NEW w \in Worker,
           GrantCycle(w) \/ GrantDelta(w) \/ FlipPayment(w) \/ RevokePackages(w)
    PROVE  SubscriptionKept
<1>1. SubscriptionOK /\ TiersSound /\ WorkSound(w)
    BY DEF BillingInv, BillingTypeOK
<1>2. mirror # NoMirror /\ UNCHANGED <<stripe, invoice, mirror, tierState>>
    BY <1>1 DEF GrantCycle, GrantDelta, FlipPayment, RevokePackages, At, WorkSound, MirroredPc,
                RevokePc
<1>3. SUFFICES /\ package' \in [Invoice -> [status : {"none", "active", "cancelled"}, credits : Nat]]
               /\ payment' \in [Cycle -> {"none", "succeeded", "refunded"}]
    BY <1>1, <1>2 DEF SubscriptionOK, TiersSound, UpgradeSound, PackageSound, tierState, PaidStays,
                      RecordsStay, SubscriptionKept
<1>4. CASE GrantCycle(w)
    <2>1. PICK n \in Nat : n = Sessions[work[w].plan]
        BY <1>1, <1>4, BillingAssumption DEF GrantCycle, At, WorkSound
    <2> QED
        BY <1>1, <1>4, <2>1 DEF GrantCycle, SubscriptionOK
<1>5. CASE GrantDelta(w)
    <2>1. PICK n \in Nat : n = intent[work[w].ref].delta
        BY <1>1, <1>5 DEF GrantDelta, At, WorkSound, SubscriptionOK
    <2> QED
        BY <1>1, <1>5, <2>1 DEF GrantDelta, SubscriptionOK
<1>6. CASE FlipPayment(w)
    BY <1>1, <1>6 DEF FlipPayment, SubscriptionOK
<1>7. CASE RevokePackages(w)
    BY <1>1, <1>7 DEF RevokePackages, SubscriptionOK
<1> QED
    BY <1>4, <1>5, <1>6, <1>7

\* The handlers' other writes
LEMMA TierStepKeeps ==
    ASSUME BillingInv, NEW w \in Worker, ApplyChange(w) \/ ConsumeIntent(w) \/ CancelAtStripe(w)
    PROVE  SubscriptionKept
<1>1. SubscriptionOK /\ TiersSound /\ WorkSound(w)
    BY DEF BillingInv, BillingTypeOK
<1>2. CASE ApplyChange(w)
    <2>1. /\ change' \in [Change -> {"none", "pending", "applied", "cancelled"}]
          /\ UNCHANGED <<stripe, invoice, mirror, package, payment, intent, request>>
        BY <1>1, <1>2 DEF ApplyChange, SubscriptionOK
    <2> QED
        BY <1>1, <2>1, RequestMoves DEF SubscriptionOK, RecordsStay, PaidStays
<1>3. CASE ConsumeIntent(w)
    <2>1. PICK u \in Upgrade : u = work[w].ref
        BY <1>1, <1>3 DEF ConsumeIntent, At, WorkSound
    <2>2. /\ intent' = [intent EXCEPT ![u].status = IF @ = "pending" THEN "applied" ELSE @]
          /\ UNCHANGED <<stripe, invoice, mirror, package, payment, change, request>>
        BY <1>3, <2>1 DEF ConsumeIntent
    <2>3. SubscriptionOK' /\ RecordsStay /\ PaidStays
        BY <1>1, <2>2 DEF SubscriptionOK, RecordsStay, PaidStays
    <2>4. \A v \in Upgrade :
              /\ intent'[v].delta = intent[v].delta
              /\ intent'[v].status # "none" => intent[v].status # "none"
        BY <1>1, <2>2 DEF SubscriptionOK
    <2> QED
        BY <1>1, <2>2, <2>3, <2>4, RequestMoves
<1>4. CASE CancelAtStripe(w)
    <2>1. /\ stripe' \in [status : Status, plan : Plan]
          /\ UNCHANGED <<invoice, mirror, package, payment, tierState>>
        BY <1>1, <1>4 DEF CancelAtStripe, SubscriptionOK, Status
    <2> QED
        BY <1>1, <2>1, RequestMoves DEF SubscriptionOK, RecordsStay, PaidStays, tierState
<1> QED
    BY <1>2, <1>3, <1>4

\* No step of a handler breaks what the subscription holds.
LEMMA StepKeepsSubscription ==
    ASSUME BillingInv, NEW w \in Worker, SubscriptionStep(w)
    PROVE  SubscriptionKept
<1>1. CASE \/ RefuseInvoice(w) \/ ResolveSubscription(w) \/ ResolvePendingTierChange(w)
           \/ LookupIntent(w) \/ PlanMismatch(w) \/ ReadRecencyFloor(w) \/ ReadMirror(w)
           \/ FindRefundedGrant(w)
    <2>1. UNCHANGED subscriptionVars
        BY <1>1 DEF RefuseInvoice, ResolveSubscription, ResolvePendingTierChange, LookupIntent,
                    PlanMismatch, ReadRecencyFloor, ReadMirror, FindRefundedGrant
    <2> QED
        BY <2>1, SubscriptionUnchanged DEF BillingInv, BillingTypeOK
<1> QED
    BY <1>1, MirrorStepKeeps, PackageStepKeeps, TierStepKeeps DEF SubscriptionStep

-----------------------------------------------------------------------------
(* The events.                                                             *)

RowStatus == {"absent", "received", "failed"} \cup Terminal

\* Events come after those that were there, which stay as they were.
EventsKept ==
    /\ sent' \in Seq(EventRecord)
    /\ row' \in [Event' -> RowStatus]
    /\ EventsSound'
    /\ \A n \in Event : n \in Event' /\ sent'[n] = sent[n]

\* A sound message stays sound.
LEMMA StaysSound ==
    ASSUME PaidStays, NEW m, MessageSound(m)
    PROVE  MessageSound(m)'
BY DEF PaidStays, MessageSound

\* A step that emits nothing
LEMMA NothingEmitted ==
    ASSUME LedgerOK, EventsSound, PaidStays, UNCHANGED sent, row' \in [Event -> RowStatus]
    PROVE  EventsKept
<1>1. Event' = Event
    BY DEF Event
<1>2. ASSUME NEW n \in Event' PROVE MessageSound(sent[n])'
    <2>1. PICK m : m = sent[n]
        OBVIOUS
    <2> QED
        BY <1>1, <2>1, StaysSound DEF EventsSound
<1> QED
    BY <1>1, <1>2 DEF EventsKept, LedgerOK, EventsSound

\* A step that emits one event or several
LEMMA Emitted ==
    ASSUME LedgerOK, EventsSound, PaidStays, NEW es \in Seq(EventRecord), Emit(es),
           \A j \in 1..Len(es) : MessageSound(es[j])'
    PROVE  EventsKept
<1>1. /\ Len(sent) \in Nat /\ Event = 1..Len(sent) /\ sent \in Seq(EventRecord)
      /\ Len(es) \in Nat /\ DOMAIN es = 1..Len(es)
    BY LenProperties DEF LedgerOK, Event
<1>2. /\ sent' \in Seq(EventRecord) /\ Len(sent') = Len(sent) + Len(es)
      /\ \A i \in 1..(Len(sent) + Len(es)) :
            sent'[i] = IF i <= Len(sent) THEN sent[i] ELSE es[i - Len(sent)]
    BY <1>1, ConcatProperties DEF Emit
<1>3. Event' = 1..(Len(sent) + Len(es))
    BY <1>1, <1>2, LenProperties DEF Event
<1>4. \A n \in Event : n \in Event' /\ sent'[n] = sent[n]
    BY <1>1, <1>2, <1>3
<1>5. row' \in [Event' -> RowStatus]
    <2>0. PICK new : new = [i \in 1..Len(es) |-> "absent"]
        OBVIOUS
    <2>1. row \in [1..Len(sent) -> RowStatus]
        BY <1>1 DEF LedgerOK, RowStatus
    <2>2. row \in Seq(RowStatus) /\ Len(row) = Len(sent)
        BY <1>1, <2>1
    <2>3. new \in Seq(RowStatus) /\ Len(new) = Len(es)
        BY <1>1, <2>0 DEF RowStatus
    <2>4. row' = row \o new
        BY <1>1, <2>0 DEF Emit
    <2>5. row \o new \in Seq(RowStatus) /\ Len(row \o new) = Len(row) + Len(new)
        BY <2>2, <2>3, ConcatProperties
    <2>6. row' \in Seq(RowStatus) /\ Len(row') = Len(sent) + Len(es)
        BY <2>2, <2>3, <2>4, <2>5
    <2> QED
        BY <1>3, <2>6, LenProperties
<1>6. ASSUME NEW n \in Event' PROVE MessageSound(sent[n])'
    <2>1. CASE n <= Len(sent)
        <3>1. n \in Event /\ sent'[n] = sent[n]
            BY <1>1, <1>2, <1>3, <2>1
        <3>2. PICK m : m = sent[n] /\ MessageSound(m)
            BY <3>1 DEF EventsSound
        <3>3. MessageSound(m)'
            BY <3>2, StaysSound
        <3> QED
            BY <3>1, <3>2, <3>3
    <2>2. CASE n > Len(sent)
        <3>1. n - Len(sent) \in 1..Len(es) /\ sent'[n] = es[n - Len(sent)]
            BY <1>1, <1>2, <1>3, <2>2
        <3>2. PICK j \in 1..Len(es) : j = n - Len(sent)
            BY <3>1
        <3>3. MessageSound(es[j])'
            OBVIOUS
        <3> QED
            BY <3>1, <3>2, <3>3
    <2> QED
        BY <1>1, <1>3, <2>1, <2>2
<1> QED
    BY <1>2, <1>4, <1>5, <1>6 DEF EventsKept, EventsSound

LEMMA OneEmitted ==
    ASSUME LedgerOK, EventsSound, PaidStays, NEW m \in EventRecord, Emit(<<m>>), MessageSound(m)'
    PROVE  EventsKept
<1>1. PICK es : es = <<m>>
    OBVIOUS
<1>2. es \in Seq(EventRecord) /\ Len(es) = 1 /\ es[1] = m
    BY <1>1
<1>3. Emit(es)
    BY <1>1
<1>4. ASSUME NEW j \in 1..Len(es) PROVE MessageSound(es[j])'
    <2>1. es[j] = m
        BY <1>2
    <2> QED
        BY <2>1
<1> QED
    BY <1>2, <1>3, <1>4, Emitted

LEMMA TwoEmitted ==
    ASSUME LedgerOK, EventsSound, PaidStays, NEW m \in EventRecord, NEW n \in EventRecord,
           Emit(<<m, n>>), MessageSound(m)', MessageSound(n)'
    PROVE  EventsKept
<1>1. PICK es : es = <<m, n>>
    OBVIOUS
<1>2. es \in Seq(EventRecord) /\ Len(es) = 2 /\ es[1] = m /\ es[2] = n
    BY <1>1
<1>3. Emit(es)
    BY <1>1
<1>4. ASSUME NEW j \in 1..Len(es) PROVE MessageSound(es[j])'
    <2>1. es[j] = m \/ es[j] = n
        BY <1>2
    <2> QED
        BY <2>1
<1> QED
    BY <1>2, <1>3, <1>4, Emitted

LEMMA LedgerUnchanged ==
    ASSUME BillingInv, PaidStays, UNCHANGED <<sent, row>>
    PROVE  EventsKept
BY NothingEmitted DEF BillingInv, BillingTypeOK, LedgerOK, RowStatus

\* The messages, and what makes each of them sound
LEMMA SnapshotSound ==
    ASSUME NEW status \in Status, NEW p \in Plan, NEW m, m = Snapshot(status, p)
    PROVE  m \in EventRecord /\ MessageSound(m)'
BY DEF Snapshot, EventRecord, MessageSound, RefundedBy

LEMMA InvoiceEventSound ==
    ASSUME NEW i \in Invoice, NEW m,
           \/ m = InvoiceEvent("invoice.paid", i) /\ invoice'[i] \in {"paid", "refunded"}
           \/ m = InvoiceEvent("invoice.payment_failed", i)
           \/ m = InvoiceEvent("charge.refunded", i) /\ invoice'[i] = "refunded"
    PROVE  m \in EventRecord /\ MessageSound(m)'
BY DEF InvoiceEvent, EventRecord, MessageSound, RefundedBy, Status

LEMMA ChargeEventSound ==
    ASSUME NEW k \in Charge, NEW r \in RefundedBy, NEW m, m = PaymentEvent(k) \/ m = RefundEvent(k, r)
    PROVE  m \in EventRecord /\ MessageSound(m)'
BY IdAssumption DEF PaymentEvent, RefundEvent, EventRecord, MessageSound, RefundedBy, Status

LEMMA HappeningKeepsEvents ==
    ASSUME BillingInv, SubscriptionHappening
    PROVE  EventsKept
<1>1. LedgerOK /\ SubscriptionOK /\ TiersSound /\ EventsSound
    BY DEF BillingInv, BillingTypeOK
<1>2. PaidStays
    BY <1>1, HappeningKeepsSubscription DEF SubscriptionKept
<1>3. PICK p \in Plan : p = stripe.plan
    BY <1>1 DEF SubscriptionOK
<1>4. CASE CreateSubscription
    <2>1. PICK m : m = Snapshot("active", FirstPlan)
        OBVIOUS
    <2>2. m \in EventRecord /\ MessageSound(m)'
        BY <2>1, SnapshotSound, BillingAssumption DEF Status
    <2> QED
        BY <1>1, <1>2, <1>4, <2>1, <2>2, OneEmitted DEF CreateSubscription
<1>5. CASE TouchSubscription
    <2>1. PICK m : m = Snapshot(stripe.status, stripe.plan)
        OBVIOUS
    <2>2. stripe.status \in Status
        BY <1>1 DEF SubscriptionOK
    <2>3. m \in EventRecord /\ MessageSound(m)'
        BY <1>3, <2>1, <2>2, SnapshotSound
    <2> QED
        BY <1>1, <1>2, <1>5, <2>1, <2>3, OneEmitted DEF TouchSubscription
<1>6. ASSUME NEW i \in Invoice, PayInvoice(i) PROVE EventsKept
    <2>1. PICK m : m = InvoiceEvent("invoice.paid", i)
        OBVIOUS
    <2>2. invoice'[i] = "paid"
        BY <1>1, <1>6 DEF PayInvoice, SubscriptionOK
    <2>3. m \in EventRecord /\ MessageSound(m)'
        BY <2>1, <2>2, InvoiceEventSound
    <2>4. PICK n : n = Snapshot("active", stripe.plan)
        OBVIOUS
    <2>5. n \in EventRecord /\ MessageSound(n)'
        BY <1>3, <2>4, SnapshotSound DEF Status
    <2>6. Emit(<<m, n>>) \/ Emit(<<m>>)
        BY <1>6, <2>1, <2>4 DEF PayInvoice
    <2> QED
        BY <1>1, <1>2, <2>3, <2>5, <2>6, OneEmitted, TwoEmitted
<1>7. ASSUME NEW i \in Invoice, DeclineInvoice(i) PROVE EventsKept
    <2>1. PICK m, n : /\ m = InvoiceEvent("invoice.payment_failed", i)
                      /\ n = Snapshot("past_due", stripe.plan)
        OBVIOUS
    <2>2. m \in EventRecord /\ MessageSound(m)'
        BY <2>1, InvoiceEventSound
    <2>3. n \in EventRecord /\ MessageSound(n)'
        BY <1>3, <2>1, SnapshotSound DEF Status
    <2>4. Emit(<<m, n>>)
        BY <1>7, <2>1 DEF DeclineInvoice
    <2> QED
        BY <1>1, <1>2, <2>2, <2>3, <2>4, TwoEmitted
<1>8. ASSUME NEW i \in Invoice, RefundInvoice(i) PROVE EventsKept
    <2>1. PICK m : m = InvoiceEvent("charge.refunded", i)
        OBVIOUS
    <2>2. invoice'[i] = "refunded"
        BY <1>1, <1>8 DEF RefundInvoice, SubscriptionOK
    <2>3. m \in EventRecord /\ MessageSound(m)'
        BY <2>1, <2>2, InvoiceEventSound
    <2>4. Emit(<<m>>)
        BY <1>8, <2>1 DEF RefundInvoice
    <2> QED
        BY <1>1, <1>2, <2>3, <2>4, OneEmitted
<1>9. ASSUME NEW c \in Change, ScheduleChange(c) PROVE EventsKept
    BY <1>2, <1>9, LedgerUnchanged DEF ScheduleChange
<1>10. ASSUME NEW u \in Upgrade, StartUpgrade(u) PROVE EventsKept
    BY <1>2, <1>10, LedgerUnchanged DEF StartUpgrade
<1> QED
    BY <1>4, <1>5, <1>6, <1>7, <1>8, <1>9, <1>10 DEF SubscriptionHappening

LEMMA RouteKeepsEvents ==
    ASSUME BillingInv, NEW a \in Asked, RouteStep(a)
    PROVE  EventsKept
<1>1. LedgerOK /\ SubscriptionOK /\ TiersSound /\ EventsSound
    BY DEF BillingInv, BillingTypeOK
<1>2. PaidStays
    BY <1>1, RouteKeepsSubscription DEF SubscriptionKept
<1>3. CASE a \in Change /\ InsertChange(a)
    BY <1>2, <1>3, LedgerUnchanged DEF InsertChange
<1>4. CASE a \in Upgrade /\ (CancelStaleIntents(a) \/ RecordIntent(a) \/ CancelIntent(a)
                                \/ SyncPlan(a) \/ AttachInvoice(a))
    BY <1>2, <1>4, LedgerUnchanged
    DEF CancelStaleIntents, RecordIntent, CancelIntent, SyncPlan, AttachInvoice
<1>5. CASE a \in Upgrade /\ UpdateStripe(a)
    <2>1. PICK m : m = Snapshot(stripe.status, Target[a])
        OBVIOUS
    <2>2. stripe.status \in Status /\ Target[a] \in Plan
        BY <1>1, BillingAssumption DEF SubscriptionOK
    <2>3. m \in EventRecord /\ MessageSound(m)'
        BY <2>1, <2>2, SnapshotSound
    <2>4. Emit(<<m>>) \/ UNCHANGED <<sent, row>>
        BY <1>5, <2>1 DEF UpdateStripe
    <2> QED
        BY <1>1, <1>2, <2>3, <2>4, OneEmitted, LedgerUnchanged
<1> QED
    BY <1>3, <1>4, <1>5 DEF RouteStep

\* What the customer and the administrator make Stripe emit for a charge
LEMMA ChargeKeepsEvents ==
    ASSUME BillingInv, PaidStays,
           \/ SingleHappening
           \/ \E r \in RefundRequest : AdminStep(r) \/ StopAdmin(r)
    PROVE  EventsKept
<1>1. LedgerOK /\ LinksSound /\ EventsSound
    BY DEF BillingInv, BillingTypeOK
<1>2. ASSUME NEW k \in Charge, NEW r \in RefundedBy,
             Emit(<<PaymentEvent(k)>>) \/ Emit(<<RefundEvent(k, r)>>)
      PROVE  EventsKept
    <2>1. PICK m : m \in {PaymentEvent(k), RefundEvent(k, r)} /\ Emit(<<m>>)
        BY <1>2
    <2>2. m \in EventRecord /\ MessageSound(m)'
        BY <2>1, ChargeEventSound
    <2> QED
        BY <1>1, <2>1, <2>2, OneEmitted
<1>3. ASSUME NEW k \in Charge, Charged(k) \/ ChargedAgain(k) \/ DashboardRefund(k)
      PROVE  EventsKept
    <2>1. "dashboard" \in RefundedBy
        BY DEF RefundedBy
    <2> QED
        BY <1>2, <1>3, <2>1 DEF Charged, ChargedAgain, DashboardRefund, Refunded
<1>4. ASSUME NEW k \in Charge,
             \/ \E status \in {"completed", "cancelled"} : EndBooking(k, status)
             \/ \E r \in RefundRequest : ReserveRefund(r, k)
      PROVE  EventsKept
    BY <1>4, LedgerUnchanged DEF EndBooking, ReserveRefund
<1>5. ASSUME NEW r \in RefundRequest, CreateStripeRefund(r) PROVE EventsKept
    <2>1. PICK k \in Charge : k = refund[r].charge
        BY <1>1, <1>5 DEF CreateStripeRefund, LinksSound
    <2>2. Emit(<<RefundEvent(k, r)>>) \/ UNCHANGED <<sent, row>>
        BY <1>5, <2>1 DEF CreateStripeRefund, Refunded
    <2>3. r \in RefundedBy
        BY DEF RefundedBy
    <2> QED
        BY <1>2, <2>2, <2>3, LedgerUnchanged
<1>6. ASSUME NEW r \in RefundRequest, ReleaseRefund(r) \/ StopAdmin(r) PROVE EventsKept
    BY <1>6, LedgerUnchanged DEF ReleaseRefund, StopAdmin
<1> QED
    BY <1>3, <1>4, <1>5, <1>6 DEF SingleHappening, AdminStep

-----------------------------------------------------------------------------
(* The invocations.                                                        *)

WorkKept == LedgerOK' /\ \A v \in Worker : WorkSound(v)'

\* What an invocation knows survives the steps of everybody else.
LEMMA OthersKept ==
    ASSUME BillingInv, EventsKept, RecordsStay, NEW v \in Worker, work'[v] = work[v]
    PROVE  /\ WorkSound(v)'
           /\ work'[v].pc # "idle" => work'[v].event \in Event'
<1>1. WorkSound(v) /\ (work[v].pc # "idle" => work[v].event \in Event)
    BY DEF BillingInv, BillingTypeOK, LedgerOK
<1>2. PICK i : i = work[v]
    OBVIOUS
<1>3. i.pc # "idle" => i.event \in Event' /\ sent'[i.event] = sent[i.event]
    BY <1>1, <1>2 DEF EventsKept
<1>4. /\ mirror # NoMirror => mirror' # NoMirror
      /\ i.ref \in Upgrade /\ request[i.ref] # "idle" => request'[i.ref] # "idle"
    BY DEF RecordsStay
<1>5. WorkSound(v)'
    BY <1>1, <1>2, <1>3, <1>4
    DEF WorkSound, PaidPc, MirrorPc, IntentPc, RevokePc, MirroredPc
<1> QED
    BY <1>2, <1>3, <1>5

LEMMA WorkUnchanged ==
    ASSUME BillingInv, EventsKept, RecordsStay, UNCHANGED work,
           acked' \subseteq Event', faults' \in 0..MaxFaults
    PROVE  WorkKept
<1>1. work' \in [Worker -> Invocation]
    BY DEF BillingInv, BillingTypeOK, LedgerOK
<1> QED
    BY <1>1, OthersKept DEF WorkKept, LedgerOK, EventsKept, RowStatus

\* A handler that ends, or dies
LEMMA WorkEnds ==
    ASSUME BillingInv, EventsKept, RecordsStay, NEW w \in Worker, work' = [work EXCEPT ![w] = Idle],
           acked' \subseteq Event', faults' \in 0..MaxFaults
    PROVE  WorkKept
<1>1. /\ Idle \in Invocation /\ work' \in [Worker -> Invocation] /\ work'[w] = Idle
      /\ \A v \in Worker \ {w} : work'[v] = work[v]
    BY DEF BillingInv, BillingTypeOK, LedgerOK, Idle, Invocation, Pc
<1>2. WorkSound(w)' /\ work'[w].pc = "idle"
    BY <1>1 DEF Idle, WorkSound, PaidPc, MirrorPc, IntentPc, RevokePc, MirroredPc
<1> QED
    BY <1>1, <1>2, OthersKept DEF WorkKept, LedgerOK, EventsKept, RowStatus

\* The handlers
Stage ==
    {PaidPc, MirrorPc, IntentPc, RevokePc \cup {"walk", "find"}, {"floor", "pastdue"}}

\* What a handler must know to go on at a step
MayGo(w, pc, plan, ref) ==
    /\ \E s \in Stage : work[w].pc \in s /\ pc \in s \cup {"mark", "reject"}
    /\ pc \in RevokePc => About(w) \in Cycle
    /\ pc \in MirroredPc => mirror' # NoMirror
    /\ pc \in {"insert", "tier", "grant", "switch", "delta"} => plan \in Plan
    /\ pc \in {"insert", "tier"} => ref = None
    /\ pc = "grant" => ref \in Change \cup {None}
    /\ pc \in {"switch", "apply"} => ref \in Change
    /\ pc \in {"delta", "consume"} => ref \in Upgrade /\ request'[ref] # "idle"

LEMMA WorkMoves ==
    ASSUME BillingInv, EventsKept, RecordsStay, NEW w \in Worker,
           NEW pc \in Pc, NEW plan \in Plan \cup {None}, NEW ref \in Nat \cup Asked \cup {None},
           GotoWith(w, pc, plan, ref), MayGo(w, pc, plan, ref),
           UNCHANGED acked, faults' \in 0..MaxFaults
    PROVE  WorkKept
<1>1. work \in [Worker -> Invocation] /\ WorkSound(w) /\ acked \subseteq Event
    BY DEF BillingInv, BillingTypeOK, LedgerOK
<1>2. work[w].pc # "idle" /\ pc # "idle"
    BY DEF MayGo, Stage, PaidPc, MirrorPc, IntentPc, RevokePc
<1>3. PICK e : e = work[w].event
    OBVIOUS
<1>4. e \in Event /\ e \in Event' /\ sent'[e] = sent[e] /\ e \in Nat
    BY <1>2, <1>3, AtEvent DEF EventsKept
<1>5. /\ work' \in [Worker -> Invocation]
      /\ work'[w].event = e /\ work'[w].pc = pc /\ work'[w].plan = plan /\ work'[w].ref = ref
      /\ \A v \in Worker \ {w} : work'[v] = work[v]
    BY <1>1, <1>3 DEF GotoWith, Invocation
<1>6. PICK m : m = sent[e]
    OBVIOUS
<1>7. /\ pc \in PaidPc => m.type = "invoice.paid"
      /\ pc \in MirrorPc => m.type = "lifecycle"
      /\ pc \in IntentPc => m.type = "pi"
      /\ pc \in RevokePc \cup {"walk", "find"} => m.type = "charge.refunded"
      /\ pc \in RevokePc => m.about \in Cycle
    <2>1. /\ work[w].pc \in PaidPc => m.type = "invoice.paid"
          /\ work[w].pc \in MirrorPc => m.type = "lifecycle"
          /\ work[w].pc \in IntentPc => m.type = "pi"
          /\ work[w].pc \in RevokePc \cup {"walk", "find"} => m.type = "charge.refunded"
          /\ pc \in RevokePc => m.about \in Cycle
        BY <1>1, <1>3, <1>6 DEF WorkSound, MayGo, About
    <2>2. PICK s \in Stage : work[w].pc \in s /\ pc \in s \cup {"mark", "reject"}
        BY DEF MayGo
    <2> QED
        BY <2>1, <2>2 DEF Stage, PaidPc, MirrorPc, IntentPc, RevokePc
<1>8. WorkSound(w)'
    BY <1>2, <1>4, <1>5, <1>6, <1>7 DEF WorkSound, MayGo
<1> QED
    BY <1>1, <1>2, <1>4, <1>5, <1>8, OthersKept DEF WorkKept, LedgerOK, EventsKept, RowStatus

\* Goto leaves what was read as it is.
LEMMA GotoIsGotoWith ==
    ASSUME LedgerOK, NEW w \in Worker, NEW pc, Goto(w, pc)
    PROVE  GotoWith(w, pc, work[w].plan, work[w].ref)
<1>1. PICK i \in Invocation : i = work[w]
    BY DEF LedgerOK
<1>2. [i EXCEPT !.pc = pc] = [i EXCEPT !.pc = pc, !.plan = i.plan, !.ref = i.ref]
    BY DEF Invocation
<1> QED
    BY <1>1, <1>2 DEF Goto, GotoWith, LedgerOK

LEMMA WorkGoes ==
    ASSUME BillingInv, EventsKept, RecordsStay, NEW w \in Worker, NEW pc \in Pc, Goto(w, pc),
           MayGo(w, pc, work[w].plan, work[w].ref), UNCHANGED acked, faults' \in 0..MaxFaults
    PROVE  WorkKept
<1>1. work[w] \in Invocation /\ LedgerOK
    BY DEF BillingInv, BillingTypeOK, LedgerOK
<1>2. PICK plan \in Plan \cup {None}, ref \in Nat \cup Asked \cup {None} :
          plan = work[w].plan /\ ref = work[w].ref
    BY <1>1 DEF Invocation
<1>3. GotoWith(w, pc, plan, ref) /\ MayGo(w, pc, plan, ref)
    BY <1>1, <1>2, GotoIsGotoWith
<1> QED
    BY <1>3, WorkMoves

\* Faults run out.
LEMMA FaultsLeft ==
    ASSUME BillingInv, Fault \/ UNCHANGED faults
    PROVE  faults' \in 0..MaxFaults
BY FaultAssumption DEF BillingInv, BillingTypeOK, LedgerOK, Fault

\* A handler writes the row of its own event, and emits nothing but the end of
\* the subscription.
LEMMA RowWritten ==
    ASSUME BillingInv, PaidStays, NEW e \in Event, NEW status \in RowStatus,
           row' = [row EXCEPT ![e] = status], UNCHANGED sent
    PROVE  EventsKept
<1>1. row' \in [Event -> RowStatus]
    BY DEF BillingInv, BillingTypeOK, LedgerOK, RowStatus
<1> QED
    BY <1>1, NothingEmitted DEF BillingInv, BillingTypeOK

\* Where invoice.paid may lead
LEMMA PaidStepKeepsWork ==
    ASSUME BillingInv, EventsKept, RecordsStay, NEW w \in Worker,
           \/ ResolveSubscription(w) \/ CreateMirrorOnDemand(w) \/ ResolvePendingTierChange(w)
           \/ GrantCycle(w) \/ SwitchPlan(w) \/ ApplyChange(w)
           \/ LookupIntent(w) \/ GrantDelta(w) \/ ConsumeIntent(w)
    PROVE  WorkKept
<1>1. WorkSound(w) /\ LedgerOK /\ SubscriptionOK
    BY DEF BillingInv, BillingTypeOK
<1>2. UNCHANGED acked /\ UNCHANGED faults
    BY DEF ResolveSubscription, CreateMirrorOnDemand, ResolvePendingTierChange, GrantCycle,
           SwitchPlan, ApplyChange, LookupIntent, GrantDelta, ConsumeIntent
<1>3. faults' \in 0..MaxFaults
    BY <1>2, FaultsLeft
<1>4. ASSUME NEW pc \in PaidPc \cup {"mark", "reject"}, work[w].pc \in PaidPc
      PROVE  \E s \in Stage : work[w].pc \in s /\ pc \in s \cup {"mark", "reject"}
    BY <1>4 DEF Stage
<1>5. PaidPc \cup {"mark", "reject"} \subseteq Pc /\ PaidPc \cap RevokePc = {}
    BY DEF PaidPc, RevokePc, Pc
<1> USE DEF At, PaidPc
<1>6. CASE ResolveSubscription(w)
    <2>1. CASE mirror = NoMirror
        <3>1. PICK p \in Plan : p = stripe.plan
            BY <1>1 DEF SubscriptionOK
        <3>2. GotoWith(w, "insert", p, None) /\ MayGo(w, "insert", p, None)
            BY <1>4, <1>5, <1>6, <2>1, <3>1 DEF ResolveSubscription, MayGo, MirroredPc, RevokePc
        <3> QED
            BY <1>2, <1>3, <1>5, <3>2, WorkMoves
    <2>2. CASE mirror # NoMirror
        <3>1. PICK p \in Plan : p = mirror.plan
            BY <1>1, <2>2 DEF SubscriptionOK
        <3>2. PICK pc \in {"tier", "lookup"} : GotoWith(w, pc, p, None)
            BY <1>6, <2>2, <3>1 DEF ResolveSubscription
        <3>3. MayGo(w, pc, p, None)
            BY <1>4, <1>5, <1>6, <2>2 DEF ResolveSubscription, MayGo, RecordsStay, RevokePc
        <3> QED
            BY <1>2, <1>3, <1>5, <3>2, <3>3, WorkMoves
    <2> QED
        BY <2>1, <2>2
<1>7. CASE CreateMirrorOnDemand(w)
    <2>1. PICK pc \in {"tier", "lookup"} : Goto(w, pc)
        BY <1>7 DEF CreateMirrorOnDemand
    <2>2. mirror' # NoMirror
        BY <1>7 DEF CreateMirrorOnDemand, NoMirror
    <2>3. MayGo(w, pc, work[w].plan, work[w].ref)
        BY <1>1, <1>4, <1>5, <1>7, <2>2 DEF CreateMirrorOnDemand, MayGo, WorkSound, RevokePc
    <2> QED
        BY <1>2, <1>3, <1>5, <2>1, <2>3, WorkGoes
<1>8. CASE ResolvePendingTierChange(w)
    <2>1. mirror' # NoMirror
        BY <1>1, <1>8 DEF ResolvePendingTierChange, WorkSound, MirroredPc, RecordsStay
    <2>2. ASSUME NEW c \in Change, GotoWith(w, "grant", Target[c], c) PROVE WorkKept
        <3>1. PICK p \in Plan : p = Target[c]
            BY BillingAssumption DEF Asked
        <3>2. GotoWith(w, "grant", p, c) /\ MayGo(w, "grant", p, c) /\ c \in Asked
            BY <1>4, <1>5, <1>8, <2>1, <2>2, <3>1
            DEF ResolvePendingTierChange, MayGo, RevokePc, Asked
        <3> QED
            BY <1>2, <1>3, <1>5, <3>2, WorkMoves
    <2>3. CASE Goto(w, "grant")
        <3>1. MayGo(w, "grant", work[w].plan, work[w].ref)
            BY <1>1, <1>4, <1>5, <1>8, <2>1
            DEF ResolvePendingTierChange, MayGo, WorkSound, RevokePc
        <3> QED
            BY <1>2, <1>3, <1>5, <2>3, <3>1, WorkGoes
    <2> QED
        BY <1>8, <2>2, <2>3 DEF ResolvePendingTierChange
<1>9. CASE GrantCycle(w)
    <2>1. PICK pc \in {"mark", "switch"} :
              Goto(w, pc) /\ (pc = "switch" => work[w].ref # None)
        BY <1>9 DEF GrantCycle
    <2>2. MayGo(w, pc, work[w].plan, work[w].ref)
        BY <1>1, <1>4, <1>5, <1>9, <2>1
        DEF GrantCycle, MayGo, WorkSound, MirroredPc, RecordsStay, RevokePc
    <2> QED
        BY <1>2, <1>3, <1>5, <2>1, <2>2, WorkGoes
<1>10. CASE SwitchPlan(w) \/ ApplyChange(w) \/ GrantDelta(w) \/ ConsumeIntent(w)
    <2>1. PICK pc \in {"apply", "consume", "mark"} :
              /\ Goto(w, pc)
              /\ pc = "apply" => work[w].pc = "switch"
              /\ pc = "consume" => work[w].pc = "delta"
        BY <1>10 DEF SwitchPlan, ApplyChange, GrantDelta, ConsumeIntent
    <2>2. work[w].pc \in {"switch", "apply", "delta", "consume"}
        BY <1>10 DEF SwitchPlan, ApplyChange, GrantDelta, ConsumeIntent
    <2>3. MayGo(w, pc, work[w].plan, work[w].ref)
        BY <1>1, <1>4, <1>5, <2>1, <2>2
        DEF MayGo, WorkSound, MirroredPc, RecordsStay, RevokePc
    <2> QED
        BY <1>2, <1>3, <1>5, <2>1, <2>3, WorkGoes
<1>11. CASE LookupIntent(w)
    <2>1. mirror' # NoMirror
        BY <1>1, <1>11 DEF LookupIntent, WorkSound, MirroredPc, RecordsStay
    <2>2. ASSUME NEW u \in Upgrade, intent[u].status = "pending",
                 GotoWith(w, "delta", Target[u], u)
          PROVE  WorkKept
        <3>1. PICK p \in Plan : p = Target[u]
            BY BillingAssumption DEF Asked
        <3>2. request'[u] # "idle"
            BY <2>2 DEF BillingInv, TiersSound, UpgradeSound, RecordsStay
        <3>3. GotoWith(w, "delta", p, u) /\ MayGo(w, "delta", p, u) /\ u \in Asked
            BY <1>4, <1>5, <1>11, <2>1, <2>2, <3>1, <3>2 DEF LookupIntent, MayGo, RevokePc, Asked
        <3> QED
            BY <1>2, <1>3, <1>5, <3>3, WorkMoves
    <2>3. CASE Goto(w, "mark")
        <3>1. MayGo(w, "mark", work[w].plan, work[w].ref)
            BY <1>4, <1>5, <1>11 DEF LookupIntent, MayGo, MirroredPc, RevokePc
        <3> QED
            BY <1>2, <1>3, <1>5, <2>3, <3>1, WorkGoes
    <2> QED
        BY <1>11, <2>2, <2>3 DEF LookupIntent
<1> QED
    BY <1>6, <1>7, <1>8, <1>9, <1>10, <1>11

\* A handler whose next step needs nothing of what was read
LEMMA PlainMove ==
    ASSUME BillingInv, EventsKept, RecordsStay, NEW w \in Worker, NEW pc, Goto(w, pc),
           NEW s \in Stage \ {PaidPc}, work[w].pc \in s, pc \in s \cup {"mark", "reject"},
           pc \in RevokePc => About(w) \in Cycle,
           pc \in MirroredPc => mirror' # NoMirror,
           UNCHANGED acked, faults' \in 0..MaxFaults
    PROVE  WorkKept
<1>1. pc \in Pc
    BY DEF Stage, MirrorPc, IntentPc, RevokePc, Pc
<1>2. MayGo(w, pc, work[w].plan, work[w].ref)
    BY DEF MayGo, Stage, PaidPc, MirrorPc, IntentPc, RevokePc
<1> QED
    BY <1>1, <1>2, WorkGoes

\* Where the other handlers of the subscription may lead
LEMMA OtherStepKeepsWork ==
    ASSUME BillingInv, EventsKept, RecordsStay, NEW w \in Worker,
           \/ ReadRecencyFloor(w) \/ WritePastDue(w) \/ PastDueLost(w)
           \/ ReadMirror(w) \/ PatchMirror(w) \/ CreateMirror(w) \/ UpsertFails(w)
           \/ FindRefundedGrant(w) \/ FlipPayment(w) \/ RevokePackages(w)
           \/ CancelAtStripe(w) \/ CloseMirror(w)
    PROVE  WorkKept
<1>1. WorkSound(w) /\ TiersSound
    BY DEF BillingInv
<1>2. UNCHANGED acked /\ (Fault \/ UNCHANGED faults)
    BY DEF ReadRecencyFloor, WritePastDue, PastDueLost, ReadMirror, PatchMirror, CreateMirror,
           UpsertFails, FindRefundedGrant, FlipPayment, RevokePackages, CancelAtStripe, CloseMirror
<1>3. faults' \in 0..MaxFaults
    BY <1>2, FaultsLeft
<1>4. {{"floor", "pastdue"}, MirrorPc, RevokePc \cup {"walk", "find"}} \subseteq Stage \ {PaidPc}
    BY DEF Stage, PaidPc, MirrorPc, RevokePc
<1> USE DEF At
<1>5. CASE ReadRecencyFloor(w) \/ WritePastDue(w) \/ PastDueLost(w)
    <2>1. PICK pc \in {"pastdue", "mark"} : Goto(w, pc) /\ (pc = "pastdue" => mirror # NoMirror)
        BY <1>5 DEF ReadRecencyFloor, WritePastDue, PastDueLost
    <2>2. work[w].pc \in {"floor", "pastdue"}
        BY <1>5 DEF ReadRecencyFloor, WritePastDue, PastDueLost
    <2>3. pc \notin RevokePc /\ (pc \in MirroredPc => mirror' # NoMirror)
        BY <2>1 DEF RevokePc, MirroredPc, RecordsStay
    <2> QED
        BY <1>2, <1>3, <1>4, <2>1, <2>2, <2>3, PlainMove
<1>6. CASE ReadMirror(w) \/ PatchMirror(w) \/ CreateMirror(w) \/ UpsertFails(w)
    <2>1. PICK pc \in {"create", "patch", "mark", "reject"} :
              Goto(w, pc) /\ (pc = "patch" => mirror # NoMirror)
        BY <1>6 DEF ReadMirror, PatchMirror, CreateMirror, UpsertFails
    <2>2. work[w].pc \in MirrorPc /\ pc \in MirrorPc \cup {"mark", "reject"}
        BY <1>6, <2>1 DEF ReadMirror, PatchMirror, CreateMirror, UpsertFails, MirrorPc
    <2>3. pc \notin RevokePc /\ (pc \in MirroredPc => mirror' # NoMirror)
        BY <2>1 DEF RevokePc, MirroredPc, RecordsStay
    <2> QED
        BY <1>2, <1>3, <1>4, <2>1, <2>2, <2>3, PlainMove
<1>7. CASE FindRefundedGrant(w)
    <2>1. PICK pc \in {"flip", "mark"} :
              Goto(w, pc) /\ (pc = "flip" => About(w) \in Cycle /\ package[About(w)] # NoPackage)
        BY <1>7 DEF FindRefundedGrant
    <2>2. pc = "flip" => mirror # NoMirror
        BY <1>1, <2>1 DEF TiersSound, PackageSound, Invoice
    <2>3. work[w].pc = "find"
        BY <1>7 DEF FindRefundedGrant
    <2>4. /\ pc \in RevokePc => About(w) \in Cycle
          /\ pc \in MirroredPc => mirror' # NoMirror
        BY <2>1, <2>2 DEF RevokePc, MirroredPc, RecordsStay
    <2>5. pc \in RevokePc \cup {"walk", "find", "mark", "reject"}
        BY <2>1 DEF RevokePc
    <2> QED
        BY <1>2, <1>3, <1>4, <2>1, <2>3, <2>4, <2>5, PlainMove
<1>8. CASE FlipPayment(w) \/ RevokePackages(w) \/ CancelAtStripe(w) \/ CloseMirror(w)
    <2>1. PICK pc \in {"revoke", "cancel", "close", "mark"} : Goto(w, pc)
        BY <1>8 DEF FlipPayment, RevokePackages, CancelAtStripe, CloseMirror
    <2>2. work[w].pc \in RevokePc
        BY <1>8 DEF FlipPayment, RevokePackages, CancelAtStripe, CloseMirror, RevokePc
    <2>3. About(w) \in Cycle /\ mirror' # NoMirror
        BY <1>1, <2>2 DEF WorkSound, MirroredPc, RecordsStay, About
    <2>4. pc \in RevokePc \cup {"walk", "find", "mark", "reject"}
        BY <2>1 DEF RevokePc
    <2> QED
        BY <1>2, <1>3, <1>4, <2>1, <2>2, <2>3, <2>4, PlainMove
<1> QED
    BY <1>5, <1>6, <1>7, <1>8

\* What the ledger holds after a handler has ended
LEMMA EndKeeps ==
    ASSUME BillingInv, PaidStays, RecordsStay, NEW w \in Worker, work[w].pc # "idle",
           work' = [work EXCEPT ![w] = Idle],
           \/ UNCHANGED row
           \/ \E status \in RowStatus : row' = [row EXCEPT ![work[w].event] = status],
           acked' \in {acked, acked \cup {work[w].event}},
           Fault \/ UNCHANGED faults, UNCHANGED sent
    PROVE  EventsKept /\ WorkKept
<1>1. work[w].event \in Event /\ acked \subseteq Event
    BY AtEvent DEF BillingInv, BillingTypeOK, LedgerOK
<1>2. EventsKept
    <2>1. PICK e \in Event : e = work[w].event
        BY <1>1
    <2> QED
        BY <2>1, RowWritten, LedgerUnchanged
<1>3. acked' \subseteq Event'
    BY <1>1 DEF Event
<1> QED
    BY <1>2, <1>3, FaultsLeft, WorkEnds

\* No step of a subscription's handler breaks the ledger.
LEMMA SubscriptionStepKeepsWork ==
    ASSUME BillingInv, NEW w \in Worker, SubscriptionStep(w) \/ PastDueLost(w) \/ UpsertFails(w)
    PROVE  EventsKept /\ WorkKept
<1>1. LedgerOK /\ SubscriptionOK /\ TiersSound /\ EventsSound
    BY DEF BillingInv, BillingTypeOK
<1>2. PaidStays /\ RecordsStay
    <2>1. CASE SubscriptionStep(w)
        BY <2>1, StepKeepsSubscription DEF SubscriptionKept
    <2>2. CASE PastDueLost(w) \/ UpsertFails(w)
        BY <1>1, <2>2, SubscriptionUnchanged DEF PastDueLost, UpsertFails, SubscriptionKept
    <2> QED
        BY <2>1, <2>2
<1>3. CASE RefuseInvoice(w) \/ PlanMismatch(w)
    <2>1. "failed" \in RowStatus
        BY DEF RowStatus
    <2> QED
        BY <1>2, <1>3, <2>1, EndKeeps DEF RefuseInvoice, PlanMismatch, At, Finish, Throw
<1>4. CASE CancelAtStripe(w)
    <2>1. PICK m : m = Snapshot("canceled", stripe.plan)
        OBVIOUS
    <2>2. m \in EventRecord /\ MessageSound(m)'
        BY <1>1, <2>1, SnapshotSound DEF SubscriptionOK, Status
    <2>3. Emit(<<m>>) \/ Emit(<<>>)
        BY <1>4, <2>1 DEF CancelAtStripe
    <2>4. EventsKept
        <3>1. Emit(<<>>) => EventsKept
            <4>1. PICK es : es = <<>>
                OBVIOUS
            <4>2. es \in Seq(EventRecord) /\ 1..Len(es) = {}
                BY <4>1, EmptySeq
            <4> QED
                BY <1>1, <1>2, <4>1, <4>2, Emitted
        <3> QED
            BY <1>1, <1>2, <2>2, <2>3, <3>1, OneEmitted
    <2> QED
        BY <1>2, <1>4, <2>4, OtherStepKeepsWork
<1>5. CASE \/ ResolveSubscription(w) \/ CreateMirrorOnDemand(w) \/ ResolvePendingTierChange(w)
           \/ GrantCycle(w) \/ SwitchPlan(w) \/ ApplyChange(w)
           \/ LookupIntent(w) \/ GrantDelta(w) \/ ConsumeIntent(w)
    <2>1. UNCHANGED <<sent, row>>
        BY <1>5 DEF ResolveSubscription, CreateMirrorOnDemand, ResolvePendingTierChange, GrantCycle,
                    SwitchPlan, ApplyChange, LookupIntent, GrantDelta, ConsumeIntent
    <2> QED
        BY <1>2, <1>5, <2>1, LedgerUnchanged, PaidStepKeepsWork
<1>6. CASE \/ ReadRecencyFloor(w) \/ WritePastDue(w) \/ PastDueLost(w)
           \/ ReadMirror(w) \/ PatchMirror(w) \/ CreateMirror(w) \/ UpsertFails(w)
           \/ FindRefundedGrant(w) \/ FlipPayment(w) \/ RevokePackages(w) \/ CloseMirror(w)
    <2>1. UNCHANGED <<sent, row>>
        BY <1>6 DEF ReadRecencyFloor, WritePastDue, PastDueLost, ReadMirror, PatchMirror,
                    CreateMirror, UpsertFails, FindRefundedGrant, FlipPayment, RevokePackages,
                    CloseMirror
    <2> QED
        BY <1>2, <1>6, <2>1, LedgerUnchanged, OtherStepKeepsWork
<1> QED
    BY <1>3, <1>4, <1>5, <1>6 DEF SubscriptionStep

-----------------------------------------------------------------------------
(* The single sessions.                                                    *)

\* The values of a function are no more than its arguments.
LEMMA ValuesAreFew ==
    ASSUME NEW S, IsFiniteSet(S), NEW f
    PROVE  /\ IsFiniteSet({f[x] : x \in S})
           /\ Cardinality({f[x] : x \in S}) <= Cardinality(S)
<1> DEFINE T == {f[x] : x \in S}
           g == [x \in S |-> f[x]]
<1>1. g \in Surjection(S, T)
    BY DEF Surjection
<1> HIDE DEF T, g
<1>2. IsFiniteSet(T) /\ Cardinality(T) <= Cardinality(S)
    BY <1>1, FS_Surjection
<1> QED
    BY <1>2 DEF T

\* Among more numbers than are used one is free, and the least of them is taken.
LEMMA LeastFree ==
    ASSUME NEW U, IsFiniteSet(U), NEW n \in Nat, Cardinality(U) < n
    PROVE  Min(1..n \ U) \in 1..n \ U
<1>1. IsFiniteSet(1..n) /\ Cardinality(1..n) = n
    BY FS_Interval
<1>2. PICK T : T = 1..n \ U
    OBVIOUS
<1>3. T # {}
    <2> SUFFICES ASSUME T = {} PROVE FALSE
        OBVIOUS
    <2>1. 1..n \in SUBSET U
        BY <1>2
    <2>2. Cardinality(1..n) <= Cardinality(U)
        BY <2>1, FS_Subset
    <2>3. Cardinality(U) \in Nat
        BY FS_CardinalityType
    <2> QED
        BY <1>1, <2>2, <2>3
<1>4. PICK m \in T : \A k \in T : m <= k
    BY <1>2, <1>3, LeastNatural
<1>5. Min(T) \in T
    BY <1>4 DEF Min
<1> QED
    BY <1>2, <1>5

LEMMA FreshRowIsNumber ==
    ASSUME SingleOK
    PROVE  FreshRow \in Nat
<1> DEFINE S == {sentinel[k] : k \in Charge}
           R == {work[w].ref : w \in Worker}
           n == Cardinality(Worker) + Cardinality(Charge) + 1
<1>1. IsFiniteSet(S) /\ Cardinality(S) <= Cardinality(Charge)
    BY ValuesAreFew, SingleSessionsAssumption
<1>2. IsFiniteSet(R) /\ Cardinality(R) <= Cardinality(Worker)
    <2> DEFINE ref == [w \in Worker |-> work[w].ref]
    <2>1. R = {ref[w] : w \in Worker}
        OBVIOUS
    <2> HIDE DEF ref, R
    <2>2. IsFiniteSet({ref[w] : w \in Worker})
          /\ Cardinality({ref[w] : w \in Worker}) <= Cardinality(Worker)
        BY ValuesAreFew, SingleSessionsAssumption
    <2> QED
        BY <2>1, <2>2
<1>3. FreshRow = Min(1..n \ (S \cup R))
    BY DEF FreshRow
<1> HIDE DEF S, R
<1>4. /\ Cardinality(Worker) \in Nat /\ Cardinality(Charge) \in Nat /\ Cardinality(S) \in Nat
      /\ Cardinality(R) \in Nat
    BY <1>1, <1>2, FS_CardinalityType, SingleSessionsAssumption
<1>5. IsFiniteSet(S \cup R) /\ Cardinality(S \cup R) < n /\ n \in Nat
    <2>1. IsFiniteSet(S \cap R)
        BY <1>1, FS_Intersection
    <2>2. Cardinality(S \cap R) \in Nat
        BY <2>1, FS_CardinalityType
    <2>3. /\ IsFiniteSet(S \cup R)
          /\ Cardinality(S \cup R) = Cardinality(S) + Cardinality(R) - Cardinality(S \cap R)
        BY <1>1, <1>2, FS_Union
    <2> QED
        BY <1>1, <1>2, <1>4, <2>2, <2>3
<1> HIDE DEF n
<1>6. FreshRow \in 1..n
    BY <1>3, <1>5, LeastFree
<1> QED
    BY <1>5, <1>6

SingleKept == SingleOK' /\ LinksSound'

Booking == [charge : Charge, status : {"live", "completed", "cancelled"}]

LEMMA BookingsAre ==
    ASSUME SingleOK
    PROVE  /\ booking \in Seq(Booking) /\ Len(booking) \in Nat /\ DOMAIN booking = 1..Len(booking)
           /\ \A b \in 1..Len(booking) : booking[b] \in Booking
BY LenProperties, ElementOfSeq DEF SingleOK, Booking

\* A step that makes no booking
LEMMA LinksStay ==
    ASSUME SingleOK, LinksSound, SingleOK', DOMAIN booking' = DOMAIN booking,
           \A b \in DOMAIN booking : booking'[b].charge = booking[b].charge,
           \A k \in Charge : record'[k].booking = record[k].booking,
           \A r \in RefundRequest :
               admin'[r] # "idle" => refund'[r].charge \in Charge
    PROVE  SingleKept
<1>1. \A b \in DOMAIN booking : booking[b].charge \in Charge
    BY BookingsAre DEF Booking
<1> QED
    BY <1>1 DEF LinksSound, SingleKept, Linked, BookingOf

LEMMA SingleUnchanged ==
    ASSUME SingleOK, LinksSound, UNCHANGED singleVars
    PROVE  SingleKept
BY DEF SingleOK, LinksSound, SingleKept, Linked, BookingOf, singleVars

\* Cancelling a booking for a refund
LEMMA CancelKeepsBookings ==
    ASSUME SingleOK, NEW k, CancelForRefund(k)
    PROVE  /\ booking' \in Seq(Booking) /\ DOMAIN booking' = DOMAIN booking
           /\ \A b \in DOMAIN booking : booking'[b].charge = booking[b].charge
<1>1. Len(booking) \in Nat /\ DOMAIN booking = 1..Len(booking)
      /\ \A b \in 1..Len(booking) : booking[b] \in Booking
    BY BookingsAre
<1>2. /\ \A b \in 1..Len(booking) :
              booking'[b] \in Booking /\ booking'[b].charge = booking[b].charge
      /\ DOMAIN booking' = 1..Len(booking)
      /\ booking' = [b \in 1..Len(booking) |-> booking'[b]]
    BY <1>1 DEF CancelForRefund, Booking
<1>3. booking' \in [1..Len(booking) -> Booking]
    BY <1>2
<1> QED
    BY <1>1, <1>2, <1>3

\* What Stripe, the teacher and the administrator do to the single sessions
LEMMA HappeningKeepsSingles ==
    ASSUME SingleOK, LinksSound,
           SingleHappening \/ \E r \in RefundRequest : AdminStep(r) \/ StopAdmin(r)
    PROVE  SingleKept
<1> USE DEF RefundedBy
<1>1. ASSUME NEW k \in Charge, Charged(k) \/ ChargedAgain(k) \/ DashboardRefund(k)
      PROVE  SingleKept
    <2>0. charge[k].by \in RefundedBy
        BY DEF SingleOK
    <2>1. /\ charge' \in [Charge -> [status : {"none", "succeeded", "refunded"}, by : RefundedBy]]
          /\ UNCHANGED <<sentinel, record, booking, refund, admin>>
        <3>1. CASE Charged(k)
            BY <2>0, <3>1 DEF Charged, SingleOK
        <3>2. CASE ChargedAgain(k)
            BY <3>2 DEF ChargedAgain, SingleOK, singleVars
        <3>3. CASE DashboardRefund(k)
            BY <3>3 DEF DashboardRefund, Refunded, SingleOK
        <3> QED
            BY <1>1, <3>1, <3>2, <3>3
    <2>2. SingleOK'
        BY <2>1 DEF SingleOK
    <2> QED
        BY <2>1, <2>2, LinksStay DEF LinksSound
<1>2. ASSUME NEW k \in Charge, NEW status \in {"completed", "cancelled"}, EndBooking(k, status)
      PROVE  SingleKept
    <2>1. PICK b : b = record[k].booking
        OBVIOUS
    <2>2. b \in 1..Len(booking) /\ DOMAIN booking = 1..Len(booking) /\ booking \in Seq(Booking)
          /\ booking[b] \in Booking
        BY <1>2, <2>1, BookingsAre DEF EndBooking, LinksSound
    <2>3. PICK n \in Booking : n = [booking[b] EXCEPT !.status = status]
        BY <2>2 DEF Booking
    <2>4. booking' = [booking EXCEPT ![b] = n] /\ n.charge = booking[b].charge
        BY <1>2, <2>1, <2>2, <2>3 DEF EndBooking, Booking
    <2>5. /\ booking' \in Seq(Booking) /\ Len(booking') = Len(booking)
          /\ \A j \in 1..Len(booking) : booking'[j] = IF j = b THEN n ELSE booking[j]
        BY <2>2, <2>4, ExceptSeq
    <2>6. UNCHANGED <<charge, sentinel, record, refund, admin>>
        BY <1>2 DEF EndBooking
    <2>7. SingleOK'
        BY <2>5, <2>6 DEF SingleOK, Booking
    <2>8. DOMAIN booking' = DOMAIN booking
        BY <2>4
    <2> QED
        BY <2>2, <2>4, <2>5, <2>6, <2>7, <2>8, LinksStay DEF LinksSound
<1>3. ASSUME NEW k \in Charge, NEW r \in RefundRequest, ReserveRefund(r, k)
      PROVE  SingleKept
    <2>1. SingleOK'
        BY <1>3 DEF ReserveRefund, AdminGoto, SingleOK
    <2>2. \A q \in RefundRequest : admin'[q] # "idle" => refund'[q].charge \in Charge
        BY <1>3 DEF ReserveRefund, AdminGoto, SingleOK, LinksSound
    <2> QED
        BY <1>3, <2>1, <2>2, LinksStay DEF ReserveRefund
<1>4. ASSUME NEW r \in RefundRequest, CreateStripeRefund(r) \/ ReleaseRefund(r) \/ StopAdmin(r)
      PROVE  SingleKept
    <2>1. /\ \/ UNCHANGED charge
             \/ charge' = [charge EXCEPT ![refund[r].charge] = [status |-> "refunded", by |-> r]]
          /\ \E pc \in {"done", "release", "stopped"} : admin' = [admin EXCEPT ![r] = pc]
          /\ admin[r] # "idle"
          /\ UNCHANGED <<sentinel, record, booking>>
        BY <1>4 DEF CreateStripeRefund, ReleaseRefund, StopAdmin, Refunded, AdminGoto
    <2>2. PICK q \in [status : {"none", "pending", "succeeded", "released"},
                      charge : Charge \cup {None}] :
              refund' = [refund EXCEPT ![r] = q] /\ q.charge = refund[r].charge
        <3>1. refund = [refund EXCEPT ![r] = @] /\ refund[r] \in [status :
                  {"none", "pending", "succeeded", "released"}, charge : Charge \cup {None}]
            BY DEF SingleOK
        <3>2. CASE UNCHANGED refund
            BY <3>1, <3>2
        <3>3. CASE ReleaseRefund(r)
            <4> DEFINE q == [refund[r] EXCEPT !.status = IF @ = "pending" THEN "released" ELSE @]
            <4>1. q \in [status : {"none", "pending", "succeeded", "released"},
                         charge : Charge \cup {None}] /\ q.charge = refund[r].charge
                BY <3>1
            <4>2. refund' = [refund EXCEPT ![r] = q]
                BY <3>3 DEF ReleaseRefund
            <4> HIDE DEF q
            <4> QED
                BY <4>1, <4>2
        <3> QED
            BY <1>4, <3>2, <3>3 DEF CreateStripeRefund, StopAdmin
    <2>3. \A p \in RefundRequest : refund'[p].charge = refund[p].charge
        BY <2>2 DEF SingleOK
    <2>4. charge' \in [Charge -> [status : {"none", "succeeded", "refunded"}, by : RefundedBy]]
        <3>1. PICK k : k = refund[r].charge
            OBVIOUS
        <3>2. PICK n \in [status : {"none", "succeeded", "refunded"}, by : RefundedBy] :
                  n = [status |-> "refunded", by |-> r]
            OBVIOUS
        <3>3. UNCHANGED charge \/ charge' = [charge EXCEPT ![k] = n]
            BY <2>1, <3>1, <3>2
        <3> QED
            BY <3>3 DEF SingleOK
    <2>5. SingleOK'
        BY <2>1, <2>2, <2>4 DEF SingleOK
    <2>6. \A p \in RefundRequest : admin'[p] # "idle" => refund'[p].charge \in Charge
        BY <2>1, <2>3 DEF SingleOK, LinksSound
    <2> QED
        BY <2>1, <2>5, <2>6, LinksStay
<1> QED
    BY <1>1, <1>2, <1>3, <1>4 DEF SingleHappening, AdminStep

\* A handler of a payment intent handles a charge.
LEMMA IntentIsOfCharge ==
    ASSUME BillingInv, NEW w \in Worker, work[w].pc \in IntentPc
    PROVE  About(w) \in Charge
<1>1. WorkSound(w) /\ work[w].pc # "idle"
    BY DEF BillingInv, IntentPc
<1> QED
    BY <1>1, AtEvent DEF WorkSound, MessageSound, About

\* What the handlers do to the sentinels and the payments
LEMMA SentinelStepKeepsSingles ==
    ASSUME BillingInv, NEW w \in Worker,
           \/ DeleteStaleSentinel(w) \/ ClaimSentinel(w) \/ ReleaseSentinel(w) \/ RecordPayment(w)
    PROVE  SingleKept
<1>1. SingleOK /\ LinksSound /\ WorkSound(w)
    BY DEF BillingInv, BillingTypeOK
<1>2. PICK k : k = About(w)
    OBVIOUS
<1>3. CASE DeleteStaleSentinel(w) \/ ClaimSentinel(w) \/ ReleaseSentinel(w)
    <2>1. PICK n \in Nat : n = FreshRow
        BY <1>1, FreshRowIsNumber
    <2>2. \/ UNCHANGED sentinel
          \/ \E j \in {0, n} : sentinel' = [sentinel EXCEPT ![k] = j]
          \/ sentinel' = [sentinel EXCEPT ![k] = IF @ = work[w].ref THEN 0 ELSE @]
        BY <1>2, <1>3, <2>1 DEF DeleteStaleSentinel, ClaimSentinel, ReleaseSentinel
    <2>3. sentinel' \in [Charge -> Nat]
        BY <1>1, <2>2 DEF SingleOK
    <2>4. UNCHANGED <<charge, record, booking, refund, admin>>
        BY <1>3 DEF DeleteStaleSentinel, ClaimSentinel, ReleaseSentinel
    <2>5. SingleOK'
        BY <1>1, <2>3, <2>4 DEF SingleOK
    <2> QED
        BY <1>1, <2>4, <2>5, LinksStay DEF LinksSound
<1>4. CASE RecordPayment(w)
    <2>1. record' = [record EXCEPT ![k].status = "succeeded"]
          /\ UNCHANGED <<charge, sentinel, booking, refund, admin>>
        BY <1>2, <1>4 DEF RecordPayment
    <2>2. /\ record' \in [Charge -> [status : {"none", "succeeded"}, booking : Nat]]
          /\ \A j \in Charge : record'[j].booking = record[j].booking
        <3>1. k \in Charge
            BY <1>2, <1>4, IntentIsOfCharge DEF RecordPayment, At, IntentPc
        <3>2. record[k] \in [status : {"none", "succeeded"}, booking : Nat]
            BY <1>1, <3>1 DEF SingleOK
        <3>3. PICK n \in [status : {"none", "succeeded"}, booking : Nat] :
                  n = [record[k] EXCEPT !.status = "succeeded"]
            BY <3>2
        <3>4. n.booking = record[k].booking /\ record' = [record EXCEPT ![k] = n]
            BY <2>1, <3>2, <3>3
        <3> QED
            BY <1>1, <3>1, <3>4 DEF SingleOK
    <2>3. SingleOK'
        BY <1>1, <2>1, <2>2 DEF SingleOK
    <2> QED
        BY <1>1, <2>1, <2>2, <2>3, LinksStay DEF LinksSound
<1> QED
    BY <1>3, <1>4

\* A booking is made for a charge that has none.
LEMMA MaterializeKeepsSingles ==
    ASSUME BillingInv, NEW w \in Worker, Materialize(w)
    PROVE  SingleKept
<1>1. SingleOK /\ LinksSound /\ WorkSound(w)
    BY DEF BillingInv, BillingTypeOK
<1>2. About(w) \in Charge
    BY IntentIsOfCharge DEF Materialize, At, IntentPc
<1>3. PICK k \in Charge : k = About(w)
    BY <1>2
<1>4. UNCHANGED <<charge, sentinel, refund, admin>>
    BY DEF Materialize
<1>5. CASE ~Bookable(k)
    <2>1. UNCHANGED singleVars
        BY <1>3, <1>4, <1>5 DEF Materialize, singleVars
    <2> QED
        BY <1>1, <2>1, SingleUnchanged
<1>6. CASE Bookable(k)
    <2>1. PICK new \in Booking : new = [charge |-> k, status |-> "live"]
        BY DEF Booking
    <2>2. PICK n \in Nat : n = Len(booking)
        BY <1>1, BookingsAre
    <2>3. /\ booking' = Append(booking, new)
          /\ record' = [record EXCEPT ![k].booking = n + 1]
          /\ record[k].booking = 0 /\ new.charge = k
        BY <1>3, <1>6, <2>1, <2>2 DEF Materialize, Bookable, Linked
    <2>4. /\ booking \in Seq(Booking) /\ DOMAIN booking = 1..n
          /\ \A b \in 1..n : booking[b] \in Booking
        BY <1>1, <2>2, BookingsAre
    <2>5. /\ booking' \in Seq(Booking) /\ Len(booking') = n + 1
          /\ \A b \in 1..n : booking'[b] = booking[b]
          /\ booking'[n + 1] = new
        BY <2>2, <2>3, <2>4, AppendProperties
    <2>6. DOMAIN booking' = 1..(n + 1)
        BY <2>5, LenProperties
    <2>7. /\ record' \in [Charge -> [status : {"none", "succeeded"}, booking : Nat]]
          /\ record'[k].booking = n + 1
          /\ \A j \in Charge \ {k} : record'[j] = record[j]
        <3>1. record[k] \in [status : {"none", "succeeded"}, booking : Nat]
            BY <1>1 DEF SingleOK
        <3>2. PICK j \in Nat : j = n + 1
            BY <2>2
        <3>3. PICK m : m = [record[k] EXCEPT !.booking = j]
            OBVIOUS
        <3>4. m \in [status : {"none", "succeeded"}, booking : Nat] /\ m.booking = j
            BY <3>1, <3>3
        <3>5. record' = [record EXCEPT ![k] = m]
            BY <2>3, <3>2, <3>3
        <3> QED
            BY <1>1, <3>2, <3>4, <3>5 DEF SingleOK
    <2>8. SingleOK'
        BY <1>1, <1>4, <2>5, <2>7 DEF SingleOK, Booking
    <2>9. ASSUME NEW j \in Charge, record'[j].booking # 0
          PROVE  record'[j].booking \in 1..(n + 1) /\ booking'[record'[j].booking].charge = j
        <3>1. CASE j = k
            BY <2>3, <2>5, <2>7, <3>1
        <3>2. CASE j # k
            <4>1. record[j].booking \in 1..n /\ booking[record[j].booking].charge = j
                BY <1>1, <2>4, <2>7, <2>9, <3>2 DEF LinksSound, Linked, BookingOf
            <4> QED
                BY <2>5, <2>7, <3>2, <4>1
        <3> QED
            BY <3>1, <3>2
    <2>10. ASSUME NEW b \in 1..(n + 1)
           PROVE  record'[booking'[b].charge].booking = b
        <3>1. CASE b = n + 1
            BY <2>3, <2>5, <2>7, <3>1
        <3>2. CASE b \in 1..n
            <4>1. record[booking[b].charge].booking = b /\ booking[b].charge \in Charge
                BY <1>1, <2>4, <3>2 DEF LinksSound, Booking
            <4>2. booking[b].charge # k
                BY <2>3, <3>2, <4>1
            <4> QED
                BY <2>5, <2>7, <3>2, <4>1, <4>2
        <3> QED
            BY <3>1, <3>2
    <2> QED
        BY <1>1, <1>4, <2>6, <2>8, <2>9, <2>10 DEF LinksSound, SingleKept, Linked, BookingOf
<1> QED
    BY <1>5, <1>6

\* What a refund's event does to the bookings
LEMMA RefundStepKeepsSingles ==
    ASSUME BillingInv, NEW w \in Worker, FinalizeRefund(w) \/ ReconcileExternal(w)
    PROVE  SingleKept
<1>1. SingleOK /\ LinksSound
    BY DEF BillingInv, BillingTypeOK
<1>2. \/ UNCHANGED booking
      \/ \E k : CancelForRefund(k)
    BY DEF FinalizeRefund, ReconcileExternal
<1>3. /\ booking' \in Seq(Booking) /\ DOMAIN booking' = DOMAIN booking
      /\ \A b \in DOMAIN booking : booking'[b].charge = booking[b].charge
    BY <1>1, <1>2, BookingsAre, CancelKeepsBookings
<1>4. UNCHANGED <<charge, sentinel, record, admin>>
    BY DEF FinalizeRefund, ReconcileExternal
<1>5. \/ UNCHANGED refund
      \/ refund' = [refund EXCEPT ![RequestOf(w)].status = "succeeded"]
    BY DEF FinalizeRefund, ReconcileExternal
<1>6. /\ refund' \in [RefundRequest -> [status : {"none", "pending", "succeeded", "released"},
                                        charge : Charge \cup {None}]]
      /\ \A r \in RefundRequest : refund'[r].charge = refund[r].charge
    <2>1. PICK q : q = RequestOf(w)
        OBVIOUS
    <2>2. CASE q \notin RefundRequest
        BY <1>1, <1>5, <2>1, <2>2 DEF SingleOK
    <2>3. CASE q \in RefundRequest
        <3> DEFINE Request == [status : {"none", "pending", "succeeded", "released"},
                               charge : Charge \cup {None}]
        <3>1. refund \in [RefundRequest -> Request]
            BY <1>1 DEF SingleOK
        <3>2. PICK m \in Request : m = [refund[q] EXCEPT !.status = "succeeded"]
            BY <2>3, <3>1
        <3>3. m.charge = refund[q].charge
              /\ (UNCHANGED refund \/ refund' = [refund EXCEPT ![q] = m])
            BY <1>5, <2>1, <2>3, <3>1, <3>2
        <3> HIDE DEF Request
        <3>4. refund' \in [RefundRequest -> Request]
              /\ \A r \in RefundRequest : refund'[r].charge = refund[r].charge
            BY <2>3, <3>1, <3>3
        <3> QED
            BY <3>4 DEF Request
    <2> QED
        BY <2>2, <2>3
<1>7. SingleOK'
    BY <1>1, <1>3, <1>4, <1>6 DEF SingleOK, Booking
<1> QED
    BY <1>1, <1>3, <1>4, <1>6, <1>7, LinksStay DEF LinksSound

\* No step of a handler breaks what the single sessions hold.
LEMMA StepKeepsSingles ==
    ASSUME BillingInv, NEW w \in Worker, SingleStep(w)
    PROVE  SingleKept
<1>1. CASE ReadSentinel(w) \/ ReadPriorPayment(w) \/ FinalizeRaises(w)
    <2>1. UNCHANGED singleVars
        BY <1>1 DEF ReadSentinel, ReadPriorPayment, FinalizeRaises
    <2> QED
        BY <2>1, SingleUnchanged DEF BillingInv, BillingTypeOK
<1> QED
    BY <1>1, SentinelStepKeepsSingles, MaterializeKeepsSingles, RefundStepKeepsSingles DEF SingleStep

\* Nor what the ledger and the invocations hold.
LEMMA SingleStepKeepsWork ==
    ASSUME BillingInv, NEW w \in Worker, SingleStep(w) \/ PaymentCallFails(w),
           UNCHANGED subscriptionVars
    PROVE  EventsKept /\ WorkKept
<1>1. WorkSound(w) /\ SingleOK
    BY DEF BillingInv, BillingTypeOK
<1>2. PaidStays /\ RecordsStay
    BY SubscriptionUnchanged DEF BillingInv, BillingTypeOK, SubscriptionKept
<1>3. {IntentPc, RevokePc \cup {"walk", "find"}} \subseteq Stage \ {PaidPc}
    BY DEF Stage, PaidPc, IntentPc, RevokePc
<1> USE DEF At
<1>4. CASE FinalizeRaises(w)
    <2>1. "failed" \in RowStatus
        BY DEF RowStatus
    <2> QED
        BY <1>2, <1>4, <2>1, EndKeeps DEF FinalizeRaises, Throw
<1>5. CASE ReadSentinel(w) /\ sentinel[About(w)] # 0
    <2>1. EventsKept /\ UNCHANGED acked /\ faults' \in 0..MaxFaults
        BY <1>2, <1>5, LedgerUnchanged, FaultsLeft DEF ReadSentinel
    <2>2. About(w) \in Charge
        BY <1>5, IntentIsOfCharge DEF ReadSentinel, IntentPc
    <2>3. PICK n \in Nat : n = sentinel[About(w)]
        BY <1>1, <2>2 DEF SingleOK
    <2>4. GotoWith(w, "prior", None, n)
        BY <1>5, <2>3 DEF ReadSentinel
    <2>5. MayGo(w, "prior", None, n) /\ "prior" \in Pc
        BY <1>5 DEF ReadSentinel, MayGo, Stage, IntentPc, RevokePc, MirroredPc, Pc
    <2> QED
        BY <1>2, <2>1, <2>4, <2>5, WorkMoves
<1>6. CASE ClaimSentinel(w) /\ sentinel[About(w)] = 0
    <2>1. EventsKept /\ UNCHANGED acked /\ faults' \in 0..MaxFaults
        BY <1>2, <1>6, LedgerUnchanged, FaultsLeft DEF ClaimSentinel
    <2>2. GotoWith(w, "record", None, None)
        BY <1>6 DEF ClaimSentinel
    <2>3. MayGo(w, "record", None, None) /\ "record" \in Pc
        BY <1>6 DEF ClaimSentinel, MayGo, Stage, IntentPc, RevokePc, MirroredPc, Pc
    <2> QED
        BY <1>2, <2>1, <2>2, <2>3, WorkMoves
<1>7. CASE \/ ReadSentinel(w) /\ sentinel[About(w)] = 0
           \/ ClaimSentinel(w) /\ sentinel[About(w)] # 0
           \/ ReadPriorPayment(w) \/ DeleteStaleSentinel(w) \/ RecordPayment(w) \/ Materialize(w)
           \/ ReleaseSentinel(w) \/ PaymentCallFails(w)
    <2>1. UNCHANGED <<sent, row, acked>> /\ (Fault \/ UNCHANGED faults)
        BY <1>7 DEF ReadSentinel, ClaimSentinel, ReadPriorPayment, DeleteStaleSentinel,
                    RecordPayment, Materialize, ReleaseSentinel, PaymentCallFails
    <2>2. EventsKept /\ faults' \in 0..MaxFaults
        BY <1>2, <2>1, LedgerUnchanged, FaultsLeft
    <2>3. PICK pc \in {"claim", "unclaim", "book", "release", "mark", "reject"} : Goto(w, pc)
        BY <1>7 DEF ReadSentinel, ClaimSentinel, ReadPriorPayment, DeleteStaleSentinel,
                    RecordPayment, Materialize, ReleaseSentinel, PaymentCallFails
    <2>4. work[w].pc \in IntentPc
        BY <1>7 DEF ReadSentinel, ClaimSentinel, ReadPriorPayment, DeleteStaleSentinel,
                    RecordPayment, Materialize, ReleaseSentinel, PaymentCallFails, IntentPc
    <2>5. pc \in IntentPc \cup {"mark", "reject"} /\ pc \notin RevokePc /\ pc \notin MirroredPc
        BY <2>3 DEF IntentPc, RevokePc, MirroredPc
    <2> QED
        BY <1>2, <1>3, <2>1, <2>2, <2>3, <2>4, <2>5, PlainMove
<1>8. CASE FinalizeRefund(w) \/ ReconcileExternal(w)
    <2>1. UNCHANGED <<sent, row, acked, faults>> /\ Goto(w, "find") /\ work[w].pc = "walk"
        BY <1>8 DEF FinalizeRefund, ReconcileExternal
    <2>2. EventsKept /\ faults' \in 0..MaxFaults
        BY <1>2, <2>1, LedgerUnchanged, FaultsLeft
    <2>3. "find" \notin RevokePc /\ "find" \notin MirroredPc
        BY DEF RevokePc, MirroredPc
    <2> QED
        BY <1>2, <1>3, <2>1, <2>2, <2>3, PlainMove
<1> QED
    BY <1>4, <1>5, <1>6, <1>7, <1>8 DEF SingleStep

-----------------------------------------------------------------------------
(* The theorems.                                                           *)

\* The route's own steps
LEMMA DispatchKeepsWork ==
    ASSUME BillingInv, NEW e \in Event, Dispatch(e) \/ Duplicate(e),
           UNCHANGED <<subscriptionVars, singleVars>>
    PROVE  EventsKept /\ WorkKept
<1>1. PaidStays /\ RecordsStay
    BY SubscriptionUnchanged DEF BillingInv, BillingTypeOK, SubscriptionKept
<1>2. LedgerOK /\ EventsSound
    BY DEF BillingInv, BillingTypeOK
<1>3. CASE Duplicate(e)
    <2>1. EventsKept /\ faults' \in 0..MaxFaults
        BY <1>1, <1>3, LedgerUnchanged, FaultsLeft DEF Duplicate
    <2>2. acked' \subseteq Event' /\ UNCHANGED work
        BY <1>2, <1>3 DEF Duplicate, LedgerOK, Event
    <2> QED
        BY <1>1, <2>1, <2>2, WorkUnchanged
<1>4. CASE Dispatch(e)
    <2>1. PICK w \in Worker : Deliver(w, e, Handler(sent[e].type))
        BY <1>4 DEF Dispatch
    <2>2. PICK s \in RowStatus : row' = [row EXCEPT ![e] = s]
        <3>1. row[e] \in RowStatus
            BY <1>2 DEF LedgerOK, RowStatus
        <3> QED
            BY <2>1, <3>1 DEF Deliver, RowStatus
    <2>3. EventsKept /\ faults' \in 0..MaxFaults /\ UNCHANGED <<sent, acked, mirror>>
        BY <1>1, <1>4, <2>1, <2>2, RowWritten, FaultsLeft DEF Deliver, subscriptionVars
    <2>4. PICK m \in EventRecord : m = sent[e]
        BY <1>2, LenProperties, ElementOfSeq DEF LedgerOK, Event
    <2>5. PICK pc \in {"resolve", "floor", "read", "sentinel", "walk"} :
              /\ work' = [work EXCEPT ![w] = [Idle EXCEPT !.event = e, !.pc = pc]]
              /\ pc = "resolve" => m.type = "invoice.paid"
              /\ pc = "read" => m.type = "lifecycle"
              /\ pc = "sentinel" => m.type = "pi"
              /\ pc = "walk" => m.type = "charge.refunded"
        BY <2>1, <2>4 DEF Deliver, Handler, EventRecord
    <2>6. e \in Nat
        BY <1>2, LenProperties DEF LedgerOK, Event
    <2>7. /\ work' \in [Worker -> Invocation] /\ work'[w].event = e /\ work'[w].pc = pc
          /\ \A v \in Worker \ {w} : work'[v] = work[v]
        BY <1>2, <2>5, <2>6 DEF LedgerOK, Invocation, Idle, Pc
    <2>8. WorkSound(w)'
        BY <2>3, <2>4, <2>5, <2>7
        DEF WorkSound, PaidPc, MirrorPc, IntentPc, RevokePc, MirroredPc
    <2>9. acked' \subseteq Event' /\ e \in Event'
        BY <1>2, <2>3 DEF LedgerOK, Event
    <2> QED
        BY <1>1, <2>3, <2>7, <2>8, <2>9, OthersKept DEF WorkKept, LedgerOK, EventsKept, RowStatus
<1> QED
    BY <1>3, <1>4

\* The answer, an interruption, and what lies between
LEMMA AnswerKeepsWork ==
    ASSUME BillingInv, NEW w \in Worker, Answer(w) \/ Interrupted(w) \/ AnswerHalfway(w),
           UNCHANGED <<subscriptionVars, singleVars>>
    PROVE  EventsKept /\ WorkKept
<1>1. PaidStays /\ RecordsStay
    BY SubscriptionUnchanged DEF BillingInv, BillingTypeOK, SubscriptionKept
<1>2. {"failed", "processed"} \subseteq RowStatus
    BY DEF RowStatus, Terminal
<1>3. CASE Answer(w) \/ AnswerHalfway(w)
    <2>1. Outcome(work[w].pc) \in RowStatus /\ work[w].pc # "idle"
        BY <1>2, <1>3 DEF Answer, AnswerHalfway, Outcome
    <2> QED
        BY <1>1, <1>3, <2>1, EndKeeps DEF Answer, AnswerHalfway, Finish
<1>4. CASE Interrupted(w)
    <2>1. work[w].pc # "idle"
        BY <1>4 DEF Interrupted, BillingInv, WorkSound
    <2> QED
        BY <1>1, <1>2, <1>4, <2>1, EndKeeps DEF Interrupted, Throw
<1> QED
    BY <1>3, <1>4

\* One step keeps the invariant: nothing anybody does takes away what a handler
\* that is under way relies on.
LEMMA BillingInvNext ==
    ASSUME BillingInv, [Next]_vars
    PROVE  BillingInv'
<1>1. SUFFICES SubscriptionKept /\ SingleKept /\ EventsKept /\ WorkKept
    BY DEF SubscriptionKept, SingleKept, EventsKept, WorkKept, BillingInv, BillingTypeOK
<1>2. LedgerOK /\ SubscriptionOK /\ SingleOK /\ EventsSound /\ TiersSound /\ LinksSound
    BY DEF BillingInv, BillingTypeOK
<1>3. UNCHANGED subscriptionVars => SubscriptionKept
    BY <1>2, SubscriptionUnchanged
<1>4. UNCHANGED singleVars => SingleKept
    BY <1>2, SingleUnchanged
<1>5. ASSUME SubscriptionKept, EventsKept, UNCHANGED <<acked, work>>, Fault \/ UNCHANGED faults
      PROVE  WorkKept
    <2>1. acked' \subseteq Event' /\ RecordsStay
        BY <1>2, <1>5 DEF LedgerOK, EventsKept, SubscriptionKept
    <2> QED
        BY <1>5, <2>1, FaultsLeft, WorkUnchanged
<1>6. CASE SubscriptionHappening /\ UNCHANGED singleVars
    <2>1. UNCHANGED <<acked, work, faults>>
        BY <1>6 DEF SubscriptionHappening, CreateSubscription, TouchSubscription, PayInvoice,
                    DeclineInvoice, RefundInvoice, ScheduleChange, StartUpgrade
    <2> QED
        BY <1>2, <1>4, <1>5, <1>6, <2>1, HappeningKeepsSubscription, HappeningKeepsEvents
<1>7. ASSUME NEW a \in Asked, RouteStep(a) PROVE SubscriptionKept /\ SingleKept /\ EventsKept /\ WorkKept
    <2>1. UNCHANGED <<acked, work>> /\ (Fault \/ UNCHANGED faults) /\ UNCHANGED singleVars
        BY <1>7 DEF RouteStep, InsertChange, CancelStaleIntents, RecordIntent, UpdateStripe,
                    CancelIntent, SyncPlan, AttachInvoice
    <2> QED
        BY <1>2, <1>4, <1>5, <1>7, <2>1, RouteKeepsSubscription, RouteKeepsEvents
<1>8. CASE \/ SingleHappening /\ UNCHANGED subscriptionVars
           \/ \E r \in RefundRequest : AdminStep(r) \/ (StopAdmin(r) /\ UNCHANGED subscriptionVars)
    <2>1. UNCHANGED <<acked, work>> /\ (Fault \/ UNCHANGED faults)
        BY <1>8 DEF SingleHappening, Charged, ChargedAgain, DashboardRefund, EndBooking,
                    ReserveRefund, AdminStep, CreateStripeRefund, ReleaseRefund, StopAdmin
    <2>2. UNCHANGED subscriptionVars
        BY <1>8 DEF AdminStep
    <2>3. SubscriptionKept /\ PaidStays
        BY <1>3, <2>2 DEF SubscriptionKept
    <2> QED
        BY <1>2, <1>5, <1>8, <2>1, <2>3, HappeningKeepsSingles, ChargeKeepsEvents
<1>9. ASSUME NEW e \in Event,
             Dispatch(e) \/ (Duplicate(e) /\ UNCHANGED <<subscriptionVars, singleVars>>)
      PROVE  SubscriptionKept /\ SingleKept /\ EventsKept /\ WorkKept
    <2>1. UNCHANGED <<subscriptionVars, singleVars>>
        BY <1>9 DEF Dispatch
    <2> QED
        BY <1>3, <1>4, <1>9, <2>1, DispatchKeepsWork
<1>10. ASSUME NEW w \in Worker,
              \/ HandlerStep(w)
              \/ (PastDueLost(w) \/ UpsertFails(w)) /\ UNCHANGED singleVars
              \/ PaymentCallFails(w) /\ UNCHANGED subscriptionVars
              \/ (Interrupted(w) \/ AnswerHalfway(w)) /\ UNCHANGED <<subscriptionVars, singleVars>>
       PROVE  SubscriptionKept /\ SingleKept /\ EventsKept /\ WorkKept
    <2>1. CASE SubscriptionStep(w) /\ UNCHANGED singleVars
        BY <1>4, <2>1, StepKeepsSubscription, SubscriptionStepKeepsWork
    <2>2. CASE SingleStep(w) /\ UNCHANGED subscriptionVars
        BY <1>3, <2>2, StepKeepsSingles, SingleStepKeepsWork
    <2>3. CASE (PastDueLost(w) \/ UpsertFails(w)) /\ UNCHANGED singleVars
        <3>1. UNCHANGED subscriptionVars
            BY <2>3 DEF PastDueLost, UpsertFails
        <3> QED
            BY <1>3, <1>4, <2>3, <3>1, SubscriptionStepKeepsWork
    <2>4. CASE PaymentCallFails(w) /\ UNCHANGED subscriptionVars
        <3>1. UNCHANGED singleVars
            BY <2>4 DEF PaymentCallFails
        <3> QED
            BY <1>3, <1>4, <2>4, <3>1, SingleStepKeepsWork
    <2>5. CASE (Answer(w) \/ Interrupted(w) \/ AnswerHalfway(w))
                  /\ UNCHANGED <<subscriptionVars, singleVars>>
        BY <1>3, <1>4, <2>5, AnswerKeepsWork
    <2> QED
        BY <1>10, <2>1, <2>2, <2>3, <2>4, <2>5 DEF HandlerStep
<1>11. ASSUME NEW a \in Asked, StopRequest(a), UNCHANGED singleVars
       PROVE  SubscriptionKept /\ SingleKept /\ EventsKept /\ WorkKept
    <2>1. SubscriptionKept /\ PaidStays
        BY <1>2, <1>11, StopKeepsSubscription DEF SubscriptionKept
    <2>2. UNCHANGED <<sent, row, acked, work>> /\ Fault
        BY <1>11 DEF StopRequest
    <2> QED
        BY <1>4, <1>5, <1>11, <2>1, <2>2, LedgerUnchanged
<1>12. CASE UNCHANGED vars
    <2>1. UNCHANGED <<subscriptionVars, singleVars, sent, row, acked, work, faults>>
        BY <1>12 DEF vars, eventVars
    <2>2. SubscriptionKept /\ PaidStays /\ SingleKept
        BY <1>3, <1>4, <2>1 DEF SubscriptionKept
    <2> QED
        BY <1>5, <2>1, <2>2, LedgerUnchanged
<1>13. CASE Failure
    BY <1>8, <1>10, <1>11, <1>13 DEF Failure
<1>14. CASE \E w \in Worker : HandlerStep(w)
    BY <1>10, <1>14
<1>15. CASE \E e \in Event :
              Dispatch(e) \/ (Duplicate(e) /\ UNCHANGED <<subscriptionVars, singleVars>>)
    BY <1>9, <1>15
<1>16. CASE \E a \in Asked : RouteStep(a)
    BY <1>7, <1>16
<1>17. CASE SingleHappening /\ UNCHANGED subscriptionVars
    BY <1>8, <1>17
<1>18. CASE \E r \in RefundRequest : AdminStep(r)
    BY <1>8, <1>18
<1> QED
    BY <1>6, <1>12, <1>13, <1>14, <1>15, <1>16, <1>17, <1>18, Zenon DEF Next

LEMMA BillingAlways == Spec => []BillingInv
BY BillingInvInit, BillingInvNext, PTL DEF Spec

\* The variables of the webhook route hold what they are meant to hold.
THEOREM BillingTypes == Spec => []BillingTypeOK
<1>1. BillingInv => BillingTypeOK
    BY DEF BillingInv
<1> QED
    BY <1>1, BillingAlways, PTL

\* A payment intent makes at most one booking, and the payment points at it, for
\* any number of events of it handled at once and any failure of their calls.
THEOREM BookedOnce == Spec => []OneBookingPerCharge
<1>1. BillingInv => OneBookingPerCharge
    BY DEF BillingInv, LinksSound, OneBookingPerCharge
<1> QED
    BY <1>1, BillingAlways, PTL

\* The steps that write the mirror
LEMMA MirrorWriters ==
    ASSUME [Next]_vars
    PROVE  \/ UNCHANGED mirror
           \/ \E w \in Worker : \/ CreateMirrorOnDemand(w) \/ SwitchPlan(w) \/ WritePastDue(w)
                                \/ PatchMirror(w) \/ CreateMirror(w) \/ CloseMirror(w)
           \/ \E u \in Upgrade : SyncPlan(u)
<1>1. CASE \/ UNCHANGED subscriptionVars \/ UNCHANGED vars
    BY <1>1 DEF vars, subscriptionVars
<1>2. CASE SubscriptionHappening
    BY <1>2 DEF SubscriptionHappening, CreateSubscription, TouchSubscription, PayInvoice,
                DeclineInvoice, RefundInvoice, ScheduleChange, StartUpgrade, subscriptionVars
<1>3. ASSUME NEW a \in Asked, RouteStep(a) \/ StopRequest(a)
      PROVE  UNCHANGED mirror \/ \E u \in Upgrade : SyncPlan(u)
    BY <1>3 DEF RouteStep, InsertChange, CancelStaleIntents, RecordIntent, UpdateStripe,
                CancelIntent, AttachInvoice, StopRequest
<1>4. ASSUME NEW w \in Worker, SubscriptionStep(w) \/ PastDueLost(w) \/ UpsertFails(w)
      PROVE  \/ UNCHANGED mirror
             \/ CreateMirrorOnDemand(w) \/ SwitchPlan(w) \/ WritePastDue(w)
             \/ PatchMirror(w) \/ CreateMirror(w) \/ CloseMirror(w)
    BY <1>4 DEF SubscriptionStep, RefuseInvoice, ResolveSubscription, ResolvePendingTierChange,
                GrantCycle, ApplyChange, LookupIntent, GrantDelta, PlanMismatch, ConsumeIntent,
                ReadRecencyFloor, ReadMirror, FindRefundedGrant, FlipPayment, RevokePackages,
                CancelAtStripe, PastDueLost, UpsertFails, subscriptionVars
<1>5. \/ UNCHANGED subscriptionVars \/ UNCHANGED vars \/ SubscriptionHappening
      \/ \E a \in Asked : RouteStep(a) \/ StopRequest(a)
      \/ \E w \in Worker : SubscriptionStep(w) \/ PastDueLost(w) \/ UpsertFails(w)
    BY DEF Next, Failure, AdminStep, Dispatch, HandlerStep
<1> QED
    BY <1>1, <1>2, <1>3, <1>4, <1>5

\* Only the unguarded update of a failed payment takes the mirror back to an
\* older event.
THEOREM MirrorAdvances == Spec => MirrorMovesOn
<1>1. ASSUME BillingInv, [Next]_vars
      PROVE  mirror'.last < mirror.last => mirror'.status = "past_due"
    <2>1. SubscriptionOK /\ TiersSound /\ (mirror # NoMirror => mirror \in Mirror)
        BY <1>1 DEF BillingInv, BillingTypeOK, SubscriptionOK, Mirror
    <2>2. mirror.last \in Nat
        BY <2>1 DEF Mirror, NoMirror
    <2>3. CASE UNCHANGED mirror
        BY <2>2, <2>3
    <2>4. ASSUME NEW w \in Worker, \/ CreateMirrorOnDemand(w) \/ SwitchPlan(w) \/ WritePastDue(w)
                                   \/ PatchMirror(w) \/ CreateMirror(w) \/ CloseMirror(w)
          PROVE  mirror'.last < mirror.last => mirror'.status = "past_due"
        <3>1. WorkSound(w) /\ work[w].pc # "idle"
            BY <1>1, <2>4 DEF BillingInv, CreateMirrorOnDemand, SwitchPlan, WritePastDue,
                              PatchMirror, CreateMirror, CloseMirror, At
        <3>2. PICK e \in Nat : e = work[w].event
            BY <1>1, <3>1, AtEvent
        <3>3. CASE CreateMirrorOnDemand(w)
            BY <2>2, <3>2, <3>3 DEF CreateMirrorOnDemand, NoMirror
        <3>4. CASE SwitchPlan(w)
            BY <2>1, <3>1, <3>4 DEF SwitchPlan, WorkSound, MirroredPc, At, Mirror
        <3>5. CASE WritePastDue(w)
            BY <2>1, <3>1, <3>5 DEF WritePastDue, WorkSound, MirroredPc, At, Mirror
        <3>6. CASE PatchMirror(w)
            BY <2>2, <3>2, <3>6 DEF PatchMirror, SnapshotOf
        <3>7. CASE CreateMirror(w)
            BY <2>2, <3>2, <3>7 DEF CreateMirror, SnapshotOf, NoMirror
        <3>8. CASE CloseMirror(w)
            BY <2>1, <3>1, <3>8 DEF CloseMirror, WorkSound, MirroredPc, RevokePc, At, Mirror
        <3> QED
            BY <2>4, <3>3, <3>4, <3>5, <3>6, <3>7, <3>8
    <2>5. ASSUME NEW u \in Upgrade, SyncPlan(u)
          PROVE  mirror'.last < mirror.last => mirror'.status = "past_due"
        <3>1. mirror \in Mirror
            BY <2>1, <2>5 DEF SyncPlan, TiersSound, UpgradeSound
        <3> QED
            BY <2>5, <3>1 DEF SyncPlan, Mirror
    <2>6. \/ UNCHANGED mirror
          \/ \E w \in Worker : \/ CreateMirrorOnDemand(w) \/ SwitchPlan(w) \/ WritePastDue(w)
                               \/ PatchMirror(w) \/ CreateMirror(w) \/ CloseMirror(w)
          \/ \E u \in Upgrade : SyncPlan(u)
        BY <1>1, MirrorWriters
    <2> QED
        BY <2>3, <2>4, <2>5, <2>6
<1> QED
    BY <1>1, BillingAlways, PTL DEF Spec, MirrorMovesOn

-----------------------------------------------------------------------------
(* The subscription keeps the safety of Entitlement.                       *)

\* The steps that write invoices or packages
LEMMA GrantWriters ==
    ASSUME [Next]_vars
    PROVE  \/ UNCHANGED <<invoice, package>>
           \/ \E i \in Invoice : PayInvoice(i) \/ RefundInvoice(i)
           \/ \E u \in Upgrade : UpdateStripe(u)
           \/ \E w \in Worker : GrantCycle(w) \/ GrantDelta(w) \/ RevokePackages(w)
<1>1. CASE \/ UNCHANGED subscriptionVars \/ UNCHANGED vars
    BY <1>1 DEF vars, subscriptionVars
<1>2. CASE SubscriptionHappening
    BY <1>2 DEF SubscriptionHappening, CreateSubscription, TouchSubscription, DeclineInvoice,
                ScheduleChange, StartUpgrade, subscriptionVars
<1>3. ASSUME NEW a \in Asked, RouteStep(a) \/ StopRequest(a)
      PROVE  UNCHANGED <<invoice, package>> \/ \E u \in Upgrade : UpdateStripe(u)
    BY <1>3 DEF RouteStep, InsertChange, CancelStaleIntents, RecordIntent, CancelIntent, SyncPlan,
                AttachInvoice, StopRequest
<1>4. ASSUME NEW w \in Worker, SubscriptionStep(w) \/ PastDueLost(w) \/ UpsertFails(w)
      PROVE  \/ UNCHANGED <<invoice, package>>
             \/ GrantCycle(w) \/ GrantDelta(w) \/ RevokePackages(w)
    BY <1>4 DEF SubscriptionStep, RefuseInvoice, ResolveSubscription, CreateMirrorOnDemand,
                ResolvePendingTierChange, SwitchPlan, ApplyChange, LookupIntent, PlanMismatch,
                ConsumeIntent, ReadRecencyFloor, WritePastDue, ReadMirror, PatchMirror,
                CreateMirror, FindRefundedGrant, FlipPayment, CancelAtStripe, CloseMirror,
                PastDueLost, UpsertFails, subscriptionVars
<1>5. \/ UNCHANGED subscriptionVars \/ UNCHANGED vars \/ SubscriptionHappening
      \/ \E a \in Asked : RouteStep(a) \/ StopRequest(a)
      \/ \E w \in Worker : SubscriptionStep(w) \/ PastDueLost(w) \/ UpsertFails(w)
    BY DEF Next, Failure, AdminStep, Dispatch, HandlerStep
<1> QED
    BY <1>1, <1>2, <1>3, <1>4, <1>5

\* What the customer and Stripe do to an invoice is to pay it or to return it.
LEMMA InvoiceStepImplements ==
    ASSUME BillingInv,
           \/ \E i \in Invoice : PayInvoice(i) \/ RefundInvoice(i)
           \/ \E u \in Upgrade : UpdateStripe(u)
    PROVE  [EntitlementOf!EntitlementNext]_(EntitlementOf!entitlementVars)
<1> DEFINE Paid == {j \in Invoice : invoice[j] \in {"paid", "refunded"}}
           Returned == {j \in Invoice : invoice[j] = "refunded"}
<1>1. SubscriptionOK
    BY DEF BillingInv, BillingTypeOK
<1>2. ASSUME NEW i \in Invoice, PayInvoice(i)
      PROVE  EntitlementOf!Pay(i)
    <2>1. invoice[i] = "open" /\ invoice' = [invoice EXCEPT ![i] = "paid"] /\ UNCHANGED package
        BY <1>2 DEF PayInvoice
    <2>2. /\ invoice'[i] = "paid"
          /\ \A j \in Invoice \ {i} : invoice'[j] = invoice[j]
        BY <1>1, <2>1 DEF SubscriptionOK
    <2>3. Paid' = Paid \cup {i} /\ Returned' = Returned
        BY <2>1, <2>2
    <2> QED
        BY <2>1, <2>3 DEF EntitlementOf!Pay
<1>3. ASSUME NEW i \in Invoice, RefundInvoice(i)
      PROVE  EntitlementOf!Return(i)
    <2>1. /\ invoice[i] = "paid" /\ invoice' = [invoice EXCEPT ![i] = "refunded"]
          /\ UNCHANGED package
        BY <1>3 DEF RefundInvoice
    <2>2. /\ invoice'[i] = "refunded"
          /\ \A j \in Invoice \ {i} : invoice'[j] = invoice[j]
        BY <1>1, <2>1 DEF SubscriptionOK
    <2>3. i \in Paid /\ Paid' = Paid /\ Returned' = Returned \cup {i}
        BY <2>1, <2>2
    <2> QED
        BY <2>1, <2>3 DEF EntitlementOf!Return
<1>4. ASSUME NEW u \in Upgrade, UpdateStripe(u)
      PROVE  UNCHANGED EntitlementOf!entitlementVars
    <2>1. /\ \/ UNCHANGED invoice
             \/ invoice[Target[u]] = "none" /\ invoice' = [invoice EXCEPT ![Target[u]] = "open"]
          /\ UNCHANGED package
        BY <1>4 DEF UpdateStripe
    <2>2. Paid' = Paid /\ Returned' = Returned
        BY <1>1, <2>1 DEF SubscriptionOK
    <2> QED
        BY <2>1, <2>2 DEF EntitlementOf!entitlementVars
<1> QED
    BY <1>2, <1>3, <1>4 DEF EntitlementOf!EntitlementNext

\* What a handler does to the packages is to grant one for a paid invoice, or to
\* take all of them back after a refund.
LEMMA PackageStepImplements ==
    ASSUME BillingInv, NEW w \in Worker, GrantCycle(w) \/ GrantDelta(w) \/ RevokePackages(w)
    PROVE  [EntitlementOf!EntitlementNext]_(EntitlementOf!entitlementVars)
<1>1. SubscriptionOK /\ TiersSound /\ WorkSound(w)
    BY DEF BillingInv, BillingTypeOK
<1>2. work[w].pc # "idle" /\ UNCHANGED invoice
    BY DEF GrantCycle, GrantDelta, RevokePackages, At
<1>3. MessageSound(sent[work[w].event])
    BY <1>2, AtEvent
<1>4. CASE GrantCycle(w) \/ GrantDelta(w)
    <2>1. sent[work[w].event].type = "invoice.paid"
        BY <1>1, <1>4 DEF GrantCycle, GrantDelta, At, WorkSound, PaidPc
    <2>2. PICK i \in Invoice : i = About(w) /\ invoice[i] \in {"paid", "refunded"}
        BY <1>3, <2>1 DEF MessageSound, About
    <2>3. PICK n \in GrantSize :
              \/ UNCHANGED package
              \/ /\ package[i] = NoPackage
                 /\ package' = [package EXCEPT ![i] = [status |-> "active", credits |-> n]]
        <3>1. CASE GrantCycle(w)
            <4>1. work[w].plan \in Plan
                BY <1>1, <3>1 DEF GrantCycle, At, WorkSound
            <4>2. PICK n : n = Sessions[work[w].plan]
                OBVIOUS
            <4>3. n \in GrantSize
                <5>1. n = Sessions[work[w].plan] - 0
                    BY <4>1, <4>2, BillingAssumption
                <5> QED
                    BY <4>1, <5>1 DEF GrantSize
            <4> QED
                BY <2>2, <3>1, <4>2, <4>3 DEF GrantCycle
        <3>2. CASE GrantDelta(w)
            <4>1. PICK n \in GrantSize : n = intent[work[w].ref].delta
                BY <1>1, <3>2 DEF GrantDelta, At, WorkSound, TiersSound, UpgradeSound
            <4> QED
                BY <2>2, <3>2, <4>1 DEF GrantDelta
        <3> QED
            BY <1>4, <3>1, <3>2
    <2>4. CASE UNCHANGED package
        BY <1>2, <2>4 DEF EntitlementOf!entitlementVars
    <2>5. CASE /\ package[i] = NoPackage
               /\ package' = [package EXCEPT ![i] = [status |-> "active", credits |-> n]]
        <3>1. /\ i \in {j \in Invoice : invoice[j] \in {"paid", "refunded"}}
              /\ package[i] = EntitlementOf!Nothing
              /\ \E size \in GrantSize :
                    package' = [package EXCEPT ![i] = [status |-> "active", credits |-> size]]
            BY <2>2, <2>3, <2>5 DEF EntitlementOf!Nothing, NoPackage
        <3>2. UNCHANGED <<{j \in Invoice : invoice[j] \in {"paid", "refunded"}},
                          {j \in Invoice : invoice[j] = "refunded"}>>
            BY <1>2
        <3>3. EntitlementOf!Grant(i)
            BY <3>1, <3>2, Zenon DEF EntitlementOf!Grant
        <3> QED
            BY <3>3 DEF EntitlementOf!EntitlementNext
    <2> QED
        BY <2>3, <2>4, <2>5
<1>5. CASE RevokePackages(w)
    <2>1. PICK i \in Invoice : invoice[i] = "refunded"
        BY <1>1, <1>3, <1>5
        DEF RevokePackages, At, WorkSound, RevokePc, MessageSound, Invoice
    <2>2. EntitlementOf!TakeBack
        BY <1>2, <1>5, <2>1 DEF RevokePackages, EntitlementOf!TakeBack
    <2> QED
        BY <2>2 DEF EntitlementOf!EntitlementNext
<1> QED
    BY <1>4, <1>5

\* Whatever is delivered twice, late or out of order, whichever handlers run at
\* once and wherever they die: a package is granted only for a paid invoice and
\* once, at the size of a plan or of a difference of plans, is taken back only
\* after money was returned, and never comes back (handleInvoicePaid,
\* grant_subscription_cycle, grant_hifz_cycle_credits, charge.refunded).
THEOREM GrantsAreEntitled ==
    Spec => /\ EntitlementOf!EntitlementInit
            /\ [][EntitlementOf!EntitlementNext]_(EntitlementOf!entitlementVars)
<1>1. ASSUME Init PROVE EntitlementOf!EntitlementInit
    <2>1. \A i \in Invoice : invoice[i] \notin {"paid", "refunded"}
        BY <1>1 DEF Init, SubscriptionInit
    <2> QED
        BY <1>1, <2>1
        DEF Init, SubscriptionInit, EntitlementOf!EntitlementInit, EntitlementOf!Nothing, NoPackage
<1>2. ASSUME BillingInv, [Next]_vars
      PROVE  [EntitlementOf!EntitlementNext]_(EntitlementOf!entitlementVars)
    <2>1. CASE UNCHANGED <<invoice, package>>
        BY <2>1 DEF EntitlementOf!entitlementVars
    <2> QED
        BY <1>2, <2>1, GrantWriters, InvoiceStepImplements, PackageStepImplements
<1> QED
    BY <1>1, <1>2, BillingAlways, PTL DEF Spec
=============================================================================
