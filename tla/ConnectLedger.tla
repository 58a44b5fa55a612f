---------------------------- MODULE ConnectLedger ----------------------------
(***************************************************************************)
(* The database side of the Stripe Connect payouts (spec 040): the earning *)
(* ledger, the transfer and hold tables, and one action for each of the    *)
(* service-role SQL functions.  One call of a function is one transaction, *)
(* so it is one action.  Nothing here says who calls a function or with    *)
(* which arguments: the callers are TransferSweep and ChargeClawback.      *)
(*                                                                         *)
(* Money is integer cents.  Time is kept as the facts the SQL compares:    *)
(* whether a delivery is past the payout hold, whether a failed entry still*)
(* backs off, and claim instants numbered 1, 2, ... in their order.        *)
(***************************************************************************)
EXTENDS Integers, FiniteSets, Functions

CONSTANTS
    Teacher,
    Entry,          \* numbered in (created_at, id) order
    Charge,         \* Stripe charges that fund entries
    NoCharge,       \* funding_charge_id IS NULL (paid by subscription credit)
    Refund,
    Dispute,
    AdminHold,      \* reasons of the holds an administrator may place
    Lifted,         \* reasons of the holds an administrator may lift
    Version,        \* versions of the teacher agreement
    Rail,           \* the payout methods in use
    TeacherOf, Amount, ChargeOf, SourceCharge,
    MaxAttempts,    \* c_max_attempts, 8 in the code
    MaxClaims       \* bound: how many claims lease something

Source == Refund \cup Dispute

ASSUME EntryAssumption == Entry \subseteq Nat /\ IsFiniteSet(Entry)
ASSUME OwnerAssumption == TeacherOf \in [Entry -> Teacher]
ASSUME AmountAssumption == Amount \in [Entry -> Nat \ {0}]
ASSUME ChargeAssumption ==
    /\ IsFiniteSet(Source)
    /\ NoCharge \notin Charge
    /\ ChargeOf \in [Entry -> Charge \cup {NoCharge}]
    /\ SourceCharge \in [Source -> Charge]
ASSUME RailAssumption == Rail \subseteq {"stripe_connect", "manual"} /\ Rail # {}
ASSUME ReasonAssumption ==
    /\ Lifted \subseteq Dispute \cup AdminHold
    /\ {"none", "agreement_pending", "transfer_failed"} \cap Dispute = {}
ASSUME BoundAssumption == MaxAttempts \in Nat \ {0} /\ MaxClaims \in Nat

VARIABLES
    \* teacher_earning_entries, one row of kind 'session' per entry
    status,         \* "none" until the row is inserted
    holdReason,
    lease,          \* claimed_at, as the number of the claim; 0 is NULL
    attempts,       \* attempt_count
    backoff,        \* next_attempt_at is in the future
    stamp,          \* agreement_version
    recovered,      \* connect_entry_recovered_cents: the entry's debt_recovery rows
    \* rows of kind 'clawback' and 'reversal' against an entry
    claw,           \* cents of the clawback row of a source, 0 if there is none
    resv,           \* cents of the reversal row of a source, 0 if there is none
    confirmed,      \* sources whose reversal row is 'succeeded'
    reclaimed,      \* v_reclaimed: sum of the two kinds of rows
    xfer,           \* cents of the row of kind 'transfer', 0 if there is none
    \* per teacher
    owed,           \* minus the signed sum of clawback and debt_recovery rows
    method,         \* payout_method
    enabled,        \* payouts_enabled
    holds,          \* reasons of the active payout_holds rows
    accepted,       \* teacher_agreement_acceptances
    \* settings and time
    version,        \* teacher_agreement_current_version
    window,         \* of the entry's delivery
    clock,          \* number of claims so far
    lapsed          \* the leases of claims 1..lapsed are past their TTL

claimVars   == <<status, holdReason, lease>>
retryVars   == <<attempts, backoff>>
debtVars    == <<recovered, owed>>
clawVars    == <<claw, resv, confirmed, reclaimed>>
teacherVars == <<method, enabled, holds>>
consentVars == <<stamp, accepted, version>>
timeVars    == <<window, clock, lapsed>>
ledgerVars  == <<claimVars, retryVars, debtVars, clawVars, xfer, teacherVars,
                 consentVars, timeVars>>

-----------------------------------------------------------------------------
Status == {"none", "pending", "held", "processing", "transferred", "voided",
           "debt_recovered", "manual_due", "manual_paid"}

Terminal == {"transferred", "voided", "debt_recovered", "manual_paid"}

Reason == {"none", "agreement_pending", "transfer_failed"} \cup Dispute

Hold == Dispute \cup AdminHold

EntriesOf(t) == {e \in Entry : TeacherOf[e] = t}

FundedBy(c) == {e \in Entry : ChargeOf[e] = c}

TypeOK ==
    /\ status \in [Entry -> Status]
    /\ holdReason \in [Entry -> Reason]
    /\ lease \in [Entry -> Nat]
    /\ attempts \in [Entry -> Nat]
    /\ backoff \in [Entry -> BOOLEAN]
    /\ stamp \in [Entry -> Version]
    /\ recovered \in [Entry -> Nat]
    /\ claw \in [Entry -> [Source -> Nat]]
    /\ resv \in [Entry -> [Source -> Nat]]
    /\ confirmed \in [Entry -> SUBSET Source]
    /\ reclaimed \in [Entry -> Nat]
    /\ xfer \in [Entry -> Nat]
    /\ owed \in [Teacher -> Int]
    /\ method \in [Teacher -> Rail]
    /\ enabled \in [Teacher -> BOOLEAN]
    /\ holds \in [Teacher -> SUBSET Hold]
    /\ accepted \in [Teacher -> SUBSET Version]
    /\ version \in Version
    /\ window \in [Entry -> {"undelivered", "open", "matured"}]
    /\ clock \in Nat
    /\ lapsed \in Nat

Init ==
    /\ status = [e \in Entry |-> "none"]
    /\ holdReason = [e \in Entry |-> "none"]
    /\ lease = [e \in Entry |-> 0]
    /\ attempts = [e \in Entry |-> 0]
    /\ backoff = [e \in Entry |-> FALSE]
    /\ recovered = [e \in Entry |-> 0]
    /\ claw = [e \in Entry |-> [s \in Source |-> 0]]
    /\ resv = [e \in Entry |-> [s \in Source |-> 0]]
    /\ confirmed = [e \in Entry |-> {}]
    /\ reclaimed = [e \in Entry |-> 0]
    /\ xfer = [e \in Entry |-> 0]
    /\ owed = [t \in Teacher |-> 0]
    /\ method \in [Teacher -> Rail]
    /\ enabled \in [Teacher -> BOOLEAN]
    /\ holds = [t \in Teacher |-> {}]
    /\ accepted = [t \in Teacher |-> {}]
    /\ version \in Version
    /\ stamp = [e \in Entry |-> version]
    /\ window = [e \in Entry |-> "undelivered"]
    /\ clock = 0
    /\ lapsed = 0

-----------------------------------------------------------------------------
(* What the SQL computes from the rows.                                    *)

Left(e) == Amount[e] - recovered[e]

Debt(t) == IF owed[t] > 0 THEN owed[t] ELSE 0

Capped(n, cap) == IF n < cap THEN n ELSE cap

\* Mutant: the entry counts itself among the older ones.
OlderDue_WithItself(e) ==
    {o \in EntriesOf(TeacherOf[e]) : status[o] = "manual_due" /\ o <= e}

\* Mutant: every queued entry nets against the whole debt.
OlderDue_Nobody(e) == {}

OlderDue(e) ==
    {o \in EntriesOf(TeacherOf[e]) : status[o] = "manual_due" /\ o < e}

FifoShare(e) ==
    LET older     == SumFunctionOnSet([o \in Entry |-> Left(o)], OlderDue(e))
        unclaimed == Debt(TeacherOf[e]) - older
    IN  IF unclaimed > 0 THEN Capped(unclaimed, Left(e)) ELSE 0

HasClawback(t) == \E e \in EntriesOf(t), s \in Source : claw[e][s] > 0

HeldFor_Anything(e, reason) == status[e] = "held"    \* mutant

HeldFor(e, reason) == status[e] = "held" /\ holdReason[e] = reason

\* Mutant: the rows go back to pending and keep their hold_reason.
Release_KeepingReason(rows) ==
    /\ status' = [e \in Entry |-> IF e \in rows THEN "pending" ELSE status[e]]
    /\ UNCHANGED holdReason

\* UPDATE ... SET status = 'pending', hold_reason = NULL
Release(rows) ==
    /\ status' = [e \in Entry |-> IF e \in rows THEN "pending" ELSE status[e]]
    /\ holdReason' = [e \in Entry |-> IF e \in rows THEN "none" ELSE holdReason[e]]

\* Mutants: a fence of the lease alone, or of the status alone
Fenced_ByLease(e, at) == lease[e] = at
Fenced_ByStatus(e, at) == status[e] = "processing"

Fenced(e, at) == status[e] = "processing" /\ lease[e] = at

\* Mutant: the rows are subtracted.
WriteDebtRecovery_Subtracted(e, cut) ==
    /\ cut > 0 => HasClawback(TeacherOf[e])
    /\ recovered' = [recovered EXCEPT ![e] = @ - cut]
    /\ owed' = [owed EXCEPT ![TeacherOf[e]] = @ - cut]

\* connect_sweep_write_debt_recovery with its CHECK and the recovery-cap trigger
WriteDebtRecovery(e, cut) ==
    /\ cut > 0 => HasClawback(TeacherOf[e])
    /\ recovered[e] + cut <= Amount[e]
    /\ recovered' = [recovered EXCEPT ![e] = @ + cut]
    /\ owed' = [owed EXCEPT ![TeacherOf[e]] = @ - cut]

-----------------------------------------------------------------------------
(* The world the SQL reads: sessions delivered, time, settings, accounts.  *)

\* Entries of one teacher are numbered in the order their rows are created.
Deliver(e) ==
    /\ window[e] = "undelivered"
    /\ \A o \in EntriesOf(TeacherOf[e]) : o < e => window[o] # "undelivered"
    /\ window' = [window EXCEPT ![e] = "open"]
    /\ UNCHANGED <<claimVars, retryVars, debtVars, clawVars, xfer, teacherVars,
                   consentVars, clock, lapsed>>

Mature(e) ==
    /\ window[e] = "open"
    /\ window' = [window EXCEPT ![e] = "matured"]
    /\ UNCHANGED <<claimVars, retryVars, debtVars, clawVars, xfer, teacherVars,
                   consentVars, clock, lapsed>>

BackoffEnds(e) ==
    /\ backoff[e]
    /\ backoff' = [backoff EXCEPT ![e] = FALSE]
    /\ UNCHANGED <<claimVars, attempts, debtVars, clawVars, xfer, teacherVars,
                   consentVars, timeVars>>

LeaseLapses ==
    /\ lapsed < clock
    /\ lapsed' = lapsed + 1
    /\ UNCHANGED <<claimVars, retryVars, debtVars, clawVars, xfer, teacherVars,
                   consentVars, window, clock>>

PublishAgreement(v) ==
    /\ version' = v
    /\ UNCHANGED <<claimVars, retryVars, debtVars, clawVars, xfer, teacherVars,
                   stamp, accepted, timeVars>>

SetPayoutsEnabled(t) ==
    /\ enabled' = [enabled EXCEPT ![t] = ~@]
    /\ UNCHANGED <<claimVars, retryVars, debtVars, clawVars, xfer, method, holds,
                   consentVars, timeVars>>

-----------------------------------------------------------------------------
(* Earnings: materialization and consent.                                  *)

Consented_ToAny(e, v) == accepted[TeacherOf[e]] # {}    \* mutant

Consented(e, v) == v \in accepted[TeacherOf[e]]

\* connect_materialize_session_earnings
Materialize ==
    LET fresh    == {e \in Entry : status[e] = "none" /\ window[e] # "undelivered"}
        released == {e \in Entry : HeldFor(e, "agreement_pending") /\ Consented(e, stamp[e])}
        payable  == released \cup {e \in fresh : Consented(e, version)}
    IN  /\ status' = [e \in Entry |-> IF e \in payable THEN "pending"
                                      ELSE IF e \in fresh THEN "held" ELSE status[e]]
        /\ holdReason' = [e \in Entry |-> IF e \in payable THEN "none"
                                          ELSE IF e \in fresh THEN "agreement_pending"
                                          ELSE holdReason[e]]
        /\ stamp' = [e \in Entry |-> IF e \in fresh THEN version ELSE stamp[e]]
        /\ UNCHANGED <<lease, retryVars, debtVars, clawVars, xfer, teacherVars,
                       accepted, version, timeVars>>

\* connect_accept_agreement
AcceptAgreement(t) ==
    /\ accepted' = [accepted EXCEPT ![t] = @ \cup {version}]
    /\ Release({e \in EntriesOf(t) : HeldFor(e, "agreement_pending") /\ stamp[e] = version})
    /\ UNCHANGED <<lease, retryVars, debtVars, clawVars, xfer, teacherVars,
                   stamp, version, timeVars>>

-----------------------------------------------------------------------------
(* The sweep's functions.                                                  *)

\* connect_sweep_reclaim_expired_leases
ReclaimLapsed ==
    LET orphans == {e \in Entry : /\ status[e] = "processing"
                                  /\ lease[e] # 0
                                  /\ lease[e] <= lapsed}
    IN  /\ status' = [e \in Entry |-> IF e \in orphans THEN "pending" ELSE status[e]]
        /\ lease' = [e \in Entry |-> IF e \in orphans THEN 0 ELSE lease[e]]
        /\ UNCHANGED <<holdReason, retryVars, debtVars, clawVars, xfer, teacherVars,
                       consentVars, timeVars>>

Claimable(e) ==
    LET t == TeacherOf[e]
    IN  /\ status[e] = "pending"
        /\ Left(e) > 0
        /\ ~backoff[e]
        /\ window[e] = "matured"
        /\ holds[t] = {}
        /\ method[t] = "manual" \/ enabled[t]

\* connect_sweep_claim_eligible, when it leases something
Claim ==
    LET batch == {e \in Entry : Claimable(e)}
    IN  /\ batch # {}
        /\ clock < MaxClaims
        /\ clock' = clock + 1
        /\ status' = [e \in Entry |-> IF e \in batch THEN "processing" ELSE status[e]]
        /\ lease' = [e \in Entry |-> IF e \in batch THEN clock + 1 ELSE lease[e]]
        /\ UNCHANGED <<holdReason, retryVars, debtVars, clawVars, xfer, teacherVars,
                       consentVars, window, lapsed>>

\* connect_sweep_record_transfer_succeeded; UNIQUE(entry_id) on kind 'transfer'
RecordTransferSucceeded(e, at, cents, cut) ==
    /\ Fenced(e, at)
    /\ cents > 0
    /\ xfer[e] = 0
    /\ status' = [status EXCEPT ![e] = "transferred"]
    /\ xfer' = [xfer EXCEPT ![e] = cents]
    /\ WriteDebtRecovery(e, cut)
    /\ UNCHANGED <<holdReason, lease, retryVars, clawVars, teacherVars,
                   consentVars, timeVars>>

\* connect_sweep_record_debt_recovered
RecordDebtRecovered(e, at, cut) ==
    /\ Fenced(e, at)
    /\ status' = [status EXCEPT ![e] = "debt_recovered"]
    /\ WriteDebtRecovery(e, cut)
    /\ UNCHANGED <<holdReason, lease, retryVars, clawVars, xfer, teacherVars,
                   consentVars, timeVars>>

\* connect_sweep_record_manual_due
RecordManualDue(e, at, cut) ==
    /\ Fenced(e, at)
    /\ status' = [status EXCEPT ![e] = "manual_due"]
    /\ WriteDebtRecovery(e, cut)
    /\ UNCHANGED <<holdReason, lease, retryVars, clawVars, xfer, teacherVars,
                   consentVars, timeVars>>

Parks(e) == attempts[e] + 1 >= MaxAttempts

\* connect_sweep_record_transfer_failed: back off, or park after MaxAttempts
RecordTransferFailed(e, at) ==
    /\ Fenced(e, at)
    /\ attempts' = [attempts EXCEPT ![e] = @ + 1]
    /\ status' = [status EXCEPT ![e] = IF Parks(e) THEN "held" ELSE "pending"]
    /\ holdReason' = [holdReason EXCEPT ![e] = IF Parks(e) THEN "transfer_failed" ELSE @]
    /\ backoff' = [backoff EXCEPT ![e] = ~Parks(e)]
    /\ lease' = [lease EXCEPT ![e] = 0]
    /\ UNCHANGED <<debtVars, clawVars, xfer, teacherVars, consentVars, timeVars>>

-----------------------------------------------------------------------------
(* The administrator's functions.                                          *)

\* connect_admin_requeue_failed_entry
RequeueFailed(e) ==
    /\ HeldFor(e, "transfer_failed")
    /\ Release({e})
    /\ attempts' = [attempts EXCEPT ![e] = 0]
    /\ backoff' = [backoff EXCEPT ![e] = FALSE]
    /\ UNCHANGED <<lease, debtVars, clawVars, xfer, teacherVars, consentVars, timeVars>>

\* connect_settle_manual_due, when the number the administrator saw is current
SettleManualDue(e) ==
    LET t == TeacherOf[e]
    IN  /\ status[e] = "manual_due"
        /\ method[t] = "manual"
        /\ holds[t] = {}
        /\ \E cut \in 0..Left(e) :
              /\ cut = FifoShare(e)
              /\ WriteDebtRecovery(e, cut)
              /\ status' = [status EXCEPT ![e] = IF cut = Left(e) THEN "debt_recovered"
                                                 ELSE "manual_paid"]
        /\ UNCHANGED <<holdReason, lease, retryVars, clawVars, xfer, teacherVars,
                       consentVars, timeVars>>

\* Mutant: settled entries of the manual queue are taken back too.
Rerouted_Paid(t, rail) ==
    {e \in EntriesOf(t) : rail = "stripe_connect" /\ status[e] \in {"manual_due", "manual_paid"}}

Rerouted(t, rail) == {e \in EntriesOf(t) : rail = "stripe_connect" /\ status[e] = "manual_due"}

\* connect_admin_set_payout_method; the Stripe rail takes the manual queue back
SetPayoutMethod(t, rail) ==
    /\ method[t] # rail
    /\ method' = [method EXCEPT ![t] = rail]
    /\ status' = [e \in Entry |-> IF e \in Rerouted(t, rail) THEN "pending" ELSE status[e]]
    /\ UNCHANGED <<holdReason, lease, retryVars, debtVars, clawVars, xfer, enabled,
                   holds, consentVars, timeVars>>

\* connect_admin_place_hold
PlaceHold(t, h) ==
    /\ holds' = [holds EXCEPT ![t] = @ \cup {h}]
    /\ UNCHANGED <<claimVars, retryVars, debtVars, clawVars, xfer, method, enabled,
                   consentVars, timeVars>>

\* connect_admin_lift_hold: any active hold, a dispute's too
LiftHold(t, h) ==
    /\ h \in holds[t]
    /\ holds' = [holds EXCEPT ![t] = @ \ {h}]
    /\ UNCHANGED <<claimVars, retryVars, debtVars, clawVars, xfer, method, enabled,
                   consentVars, timeVars>>

-----------------------------------------------------------------------------
(* The functions of the refund and dispute webhooks.                       *)

\* connect_dispute_hold
DisputeHold(d) ==
    LET frozen == {e \in FundedBy(SourceCharge[d]) : status[e] \in {"pending", "manual_due"}}
        moving == {TeacherOf[e] : e \in {x \in FundedBy(SourceCharge[d]) :
                      status[x] \in {"pending", "processing", "manual_due", "held"}}}
    IN  /\ status' = [e \in Entry |-> IF e \in frozen THEN "held" ELSE status[e]]
        /\ holdReason' = [e \in Entry |-> IF e \in frozen THEN d ELSE holdReason[e]]
        /\ holds' = [t \in Teacher |-> IF t \in moving THEN holds[t] \cup {d} ELSE holds[t]]
        /\ UNCHANGED <<lease, retryVars, debtVars, clawVars, xfer, method, enabled,
                       consentVars, timeVars>>

\* connect_dispute_release
DisputeRelease(d) ==
    /\ Release({e \in Entry : HeldFor(e, d)})
    /\ holds' = [t \in Teacher |-> holds[t] \ {d}]
    /\ UNCHANGED <<lease, retryVars, debtVars, clawVars, xfer, method, enabled,
                   consentVars, timeVars>>

Reclaimable_Gross(e) == Amount[e]    \* mutant

Reclaimable(e) == IF reclaimed[e] < Amount[e] THEN Amount[e] - reclaimed[e] ELSE 0

\* connect_clawback_apply refuses an entry settled through Stripe
RoutesToReversal(e) == status[e] = "transferred" \/ xfer[e] # 0

\* Mutant: what is left of a partly reclaimed entry is voided.
TakesWhole_OfRest(e, cents) ==
    /\ status[e] \in {"pending", "held", "manual_due"}
    /\ Capped(cents, Reclaimable(e)) >= Reclaimable(e)

\* An unsettled entry, untouched so far, is taken back whole.
TakesWhole(e, cents) ==
    /\ status[e] \in {"pending", "held", "manual_due"}
    /\ reclaimed[e] = 0
    /\ Capped(cents, Reclaimable(e)) >= Amount[e]

\* connect_clawback_apply, outcome 'voided'
VoidClean(e, s, cents) ==
    /\ ~RoutesToReversal(e)
    /\ claw[e][s] = 0
    /\ TakesWhole(e, cents)
    /\ status' = [status EXCEPT ![e] = "voided"]
    /\ holdReason' = [holdReason EXCEPT ![e] = "none"]
    /\ UNCHANGED <<lease, retryVars, debtVars, clawVars, xfer, teacherVars,
                   consentVars, timeVars>>

\* The clawback row of entry e and source s, and the debt it makes
WriteClawback(e, s, cents) ==
    /\ claw' = [claw EXCEPT ![e][s] = cents]
    /\ owed' = [owed EXCEPT ![TeacherOf[e]] = @ + cents]

\* connect_clawback_apply, outcome 'clawback_recorded'
RecordClawback(e, s, cents) ==
    LET apply == Capped(cents, Reclaimable(e))
    IN  /\ status[e] \notin {"none", "voided"}
        /\ ~RoutesToReversal(e)
        /\ claw[e][s] = 0
        /\ apply > 0
        /\ ~TakesWhole(e, cents)
        /\ WriteClawback(e, s, apply)
        /\ reclaimed' = [reclaimed EXCEPT ![e] = @ + apply]
        /\ UNCHANGED <<claimVars, retryVars, recovered, resv, confirmed, xfer,
                       teacherVars, consentVars, timeVars>>

\* connect_clawback_reserve_reversal, outcome 'reserved'
ReserveReversal(e, s, rev, short) ==
    LET r == Capped(rev, Reclaimable(e))
        c == Capped(short, Reclaimable(e) - r)
    IN  /\ xfer[e] # 0
        /\ resv[e][s] = 0 /\ claw[e][s] = 0
        /\ r > 0 \/ c > 0
        /\ resv' = [resv EXCEPT ![e][s] = r]
        /\ WriteClawback(e, s, c)
        /\ reclaimed' = [reclaimed EXCEPT ![e] = @ + r + c]
        /\ UNCHANGED <<claimVars, retryVars, recovered, confirmed, xfer, teacherVars,
                       consentVars, timeVars>>

\* connect_clawback_confirm_reversal
ConfirmReversal(e, s) ==
    /\ resv[e][s] > 0
    /\ confirmed' = [confirmed EXCEPT ![e] = @ \cup {s}]
    /\ UNCHANGED <<claimVars, retryVars, debtVars, claw, resv, reclaimed, xfer,
                   teacherVars, consentVars, timeVars>>

-----------------------------------------------------------------------------
(* The ledger under any callers.  The functions take every argument their  *)
(* own checks let through, but no more cents than the entry earned: none of*)
(* the callers passes more, and record_transfer_succeeded alone would not  *)
(* notice (TransferSweep_proofs shows that the sweeps keep within it).     *)

World ==
    \/ \E e \in Entry : Deliver(e) \/ Mature(e) \/ BackoffEnds(e)
    \/ LeaseLapses
    \/ \E v \in Version : PublishAgreement(v)
    \/ \E t \in Teacher : SetPayoutsEnabled(t)

Admin ==
    \/ \E e \in Entry : RequeueFailed(e) \/ SettleManualDue(e)
    \/ \E t \in Teacher, rail \in Rail : SetPayoutMethod(t, rail)
    \/ \E t \in Teacher, h \in AdminHold : PlaceHold(t, h)
    \/ \E t \in Teacher, h \in Lifted : LiftHold(t, h)

SweepFunctions ==
    \/ Materialize \/ ReclaimLapsed \/ Claim
    \/ \E e \in Entry, at \in 1..clock :
          \/ RecordTransferFailed(e, at)
          \/ \E cut \in 0..Amount[e] :
                \/ RecordDebtRecovered(e, at, cut)
                \/ RecordManualDue(e, at, cut)
                \/ \E cents \in 1..Amount[e] : RecordTransferSucceeded(e, at, cents, cut)

WebhookFunctions ==
    \/ \E d \in Dispute : DisputeHold(d) \/ DisputeRelease(d)
    \/ \E e \in Entry, s \in Source :
          \/ ConfirmReversal(e, s)
          \/ \E cents \in 1..Amount[e] : VoidClean(e, s, cents) \/ RecordClawback(e, s, cents)
          \/ \E rev, short \in 0..Amount[e] : ReserveReversal(e, s, rev, short)

Consent == \E t \in Teacher : AcceptAgreement(t)

LedgerNext == World \/ Consent \/ Admin \/ SweepFunctions \/ WebhookFunctions

LedgerSpec == Init /\ [][LedgerNext]_ledgerVars

-----------------------------------------------------------------------------
(* What the database guarantees whatever its callers do.                   *)

\* Refunds and disputes together never take back more than an entry earned:
\* connect_clawback_apply and _reserve_reversal clamp under the entry's lock,
\* whatever the caller planned from its older snapshot.
NeverOverClaw == \A e \in Entry : reclaimed[e] <= Amount[e]

\* An entry never recovers more debt than its own worth, although it may net
\* at the claim, again at the manual settlement and again after a re-route.
RecoveryCap == \A e \in Entry : recovered[e] <= Amount[e]

\* The transfer row and the status agree: this is what tells the clawback
\* whether a live Stripe transfer must be reversed or debt be recorded.
TransferRow == \A e \in Entry : (xfer[e] # 0) <=> (status[e] = "transferred")

\* A voided entry was never reclaimed in part: voiding one that carries
\* clawback debt would take the earning and leave the debt (over-claw).
VoidIsClean == \A e \in Entry : status[e] = "voided" => reclaimed[e] = 0

\* A row is held exactly while it names a reason.
HeldForAReason == \A e \in Entry : (holdReason[e] # "none") <=> (status[e] = "held")

\* No entry is payable, paid or used to recover debt before its teacher
\* accepted the very agreement version it was stamped with (SC-014).
ConsentGate ==
    \A e \in Entry :
        \/ status[e] \in {"none", "voided"}
        \/ status[e] = "held" /\ holdReason[e] = "agreement_pending"
        \/ stamp[e] \in accepted[TeacherOf[e]]

\* The retry budget: only a parked entry (or one voided while parked) has
\* used it up, so nothing is retried past c_max_attempts.
RetryCap ==
    \A e \in Entry :
        /\ attempts[e] <= MaxAttempts
        /\ attempts[e] = MaxAttempts =>
              \/ status[e] = "held" /\ holdReason[e] = "transfer_failed"
              \/ status[e] = "voided"

\* Netting the manual queue first in, first out neither loses a cent of debt nor
\* shows one twice: the shares of the queued entries add up to the debt, or to
\* the worth of the whole queue when the debt is larger.
QueueCoversDebt ==
    \A t \in Teacher :
        LET queue == {e \in EntriesOf(t) : status[e] = "manual_due"}
            worth == SumFunctionOnSet([e \in Entry |-> Left(e)], queue)
        IN  SumFunctionOnSet([e \in Entry |-> FifoShare(e)], queue) = Capped(Debt(t), worth)

\* The queue may be settled in any order (20260811:264-266): settling one entry
\* leaves the share of the debt, and so the net pay, of every other as it was.
SharesKeptBySettling ==
    [][\A e, o \in Entry :
          /\ TeacherOf[e] = TeacherOf[o]
          /\ status[e] = "manual_due" /\ status'[e] \in {"manual_paid", "debt_recovered"}
          /\ status[o] = "manual_due" /\ status'[o] = "manual_due"
          => FifoShare(o)' = FifoShare(o)]_ledgerVars

\* A settled entry is final: no function re-opens it, and neither its
\* transfer nor the debt it recovered changes again.
SettledIsFinal ==
    [][\A e \in Entry : status[e] \in Terminal =>
          /\ status'[e] = status[e]
          /\ xfer'[e] = xfer[e]
          /\ recovered'[e] = recovered[e]]_ledgerVars

\* A hold ends only for its own cause, or because the entry is voided:
\* agreement_pending by consent to the stamped version, transfer_failed by the
\* requeue, a dispute's by the release of that same dispute.
HoldsEndByTheirCause ==
    [][\A e \in Entry : (status[e] = "held" /\ holdReason'[e] # holdReason[e]) =>
          \/ status'[e] = "voided"
          \/ /\ status'[e] = "pending"
             /\ \/ holdReason[e] = "agreement_pending" /\ stamp[e] \in accepted'[TeacherOf[e]]
                \/ holdReason[e] = "transfer_failed" /\ attempts'[e] = 0
                \/ holdReason[e] \in Dispute /\ \A t \in Teacher : holdReason[e] \notin holds'[t]
      ]_ledgerVars
=============================================================================
