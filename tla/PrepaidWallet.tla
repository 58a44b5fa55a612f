---------------------------- MODULE PrepaidWallet ----------------------------
(***************************************************************************)
(* The prepaid-hour wallet of one student: the packages a booking can be   *)
(* charged to (prepaid lots, and the plans that rank before them), the     *)
(* confirm that draws an hour, the cancellation, the attendance and the    *)
(* excuse that give one back, the expiry sweep, and the refund saga with   *)
(* the charge.refunded webhook.                                            *)
(*                                                                         *)
(* Each SQL function is one action, except the confirm: its transaction    *)
(* holds the row lock of the package it selected until it commits, and     *)
(* another confirm skips that row (FOR UPDATE SKIP LOCKED).  An expiry     *)
(* date is abstracted to whether it lies ahead, so packages of one kind    *)
(* are not ordered among themselves.                                       *)
(***************************************************************************)
EXTENDS Integers, Sequences, FiniteSets, Functions

CONSTANTS
    Lot,        \* prepaid lots: one payment each, never topped up
    Plan,       \* packages granted by the student's subscription
    Hours,      \* the sessions a package was bought with
    Booking,
    Excusable,  \* bookings for which an excuse may be submitted
    Request,    \* admin refund requests
    Decider,    \* the teacher and the administrators who may decide an excuse
    Handler,    \* concurrent deliveries of charge.refunded
    None

Package == Lot \cup Plan

ASSUME WalletAssumption ==
    /\ IsFiniteSet(Booking) /\ IsFiniteSet(Request)
    /\ Lot \cap Plan = {}
    /\ Hours \in [Package -> Nat \ {0}]
    /\ Excusable \subseteq Booking
    /\ None \notin Package \cup Booking \cup Request

VARIABLES
    package,    \* student_packages: status, sessions_used, expires_at > now()
    lock,       \* the booking whose open confirm holds a package's row
    booking,    \* bookings: status, use_prepaid_hours, student_package_id
    restored,   \* attendance_records.credit_restored_at IS NOT NULL
    excuse,     \* excuse_requests.status
    deciding,   \* what each decider is in the middle of
    request,    \* prepaid_refund_requests: status, package_id, hours
    saga,       \* where the admin action of a request stands
    refunds,    \* Stripe: the refunds on a lot's charge, newest first
    delivery,   \* the refunds a webhook handler has yet to walk
    log,        \* prepaid_hours_events, counted by what caused them
    given       \* history: how often a booking's session was credited back

walletVars == <<package, lock, booking, restored, excuse, deciding, request,
                saga, refunds, delivery, log, given>>

bookingSide == <<lock, booking, restored, excuse, deciding, given>>
refundSide == <<request, saga, refunds, delivery>>

Restoring == {"teacher_absent", "excused_carried"}
Idle == [booking |-> None, verdict |-> "none", step |-> "idle"]
NotRequested == [status |-> "none", lot |-> None, hours |-> 0]

Remaining(p) == Hours[p] - package[p].used
Unlocked(p) == \A b \in Booking : lock[p] # b
Confirming(b) == \E p \in Package : lock[p] = b

\* The guard the selection and the debit kernel share.
Chargeable(p) ==
    /\ package[p].status = "active"
    /\ package[p].used < Hours[p]
    /\ package[p].live

WalletInit ==
    /\ package = [p \in Package |->
                    [status |-> IF p \in Plan THEN "active" ELSE "none",
                     used |-> 0, live |-> TRUE]]
    /\ lock = [p \in Package |-> None]
    /\ booking = [b \in Booking |->
                    [status |-> "none", wallet |-> FALSE, charged |-> None]]
    /\ restored = [b \in Booking |-> FALSE]
    /\ excuse = [b \in Excusable |-> "none"]
    /\ deciding = [d \in Decider |-> Idle]
    /\ request = [r \in Request |-> NotRequested]
    /\ saga = [r \in Request |-> "idle"]
    /\ refunds = [l \in Lot |-> <<>>]
    /\ delivery = [h \in Handler |-> <<>>]
    /\ log = [draw |-> [b \in Booking |-> 0], restore |-> [b \in Booking |-> 0],
              refunded |-> [r \in Request |-> 0],
              external |-> [l \in Lot |-> 0]]
    /\ given = [b \in Booking |-> 0]

-----------------------------------------------------------------------------
(* The lot: granted by the payment, expired by the nightly sweep.          *)

\* payment_intent.succeeded: the unique payment reference makes a redelivery, or
\* a second capture, return the lot that is there.
Grant(l) ==
    /\ package[l].status = "none"
    /\ package' = [package EXCEPT ![l].status = "active"]
    /\ UNCHANGED <<bookingSide, refundSide, log>>

\* expires_at passes.  A plan's does not: one that expired is, to a confirm, like
\* one that is used up.
Lapse(l) ==
    /\ package[l].status = "active" /\ package[l].live
    /\ package' = [package EXCEPT ![l].live = FALSE]
    /\ UNCHANGED <<bookingSide, refundSide, log>>

\* SKIP LOCKED: a lot a confirm is drawing from is left for the next night.  Its
\* 'expired' event is left out.
SweepExpired(l) ==
    /\ package[l].status = "active" /\ ~package[l].live /\ Unlocked(l)
    /\ package' = [package EXCEPT ![l].status = "expired"]
    /\ UNCHANGED <<bookingSide, refundSide, log>>

-----------------------------------------------------------------------------
(* Bookings: created against a package that exists, charged at confirm.    *)

\* selectActivePackage is a check and not a hold; it does not read expires_at.
Book(b, wallet) ==
    /\ booking[b].status = "none"
    /\ \E p \in (IF wallet THEN Lot ELSE Package) :
          package[p].status = "active" /\ Remaining(p) > 0
    /\ booking' = [booking EXCEPT ![b].status = "pending", ![b].wallet = wallet]
    /\ UNCHANGED <<package, lock, restored, excuse, deciding, given, refundSide, log>>

\* Mutant: the student's choice of the wallet is forgotten at confirm.
Candidates_AnyPackage(b) == {p \in Package : Chargeable(p)}

\* The packages the confirm of b may be charged to, and its choice among them:
\* plans first, and of the rows no other transaction holds.
Candidates(b) ==
    {p \in (IF booking[b].wallet THEN Lot ELSE Package) : Chargeable(p)}

Selectable(b) ==
    LET open == {p \in Candidates(b) : Unlocked(p)} IN
    IF open \cap Plan # {} THEN open \cap Plan ELSE open

\* confirm_booking_with_session up to the selection.  With nothing selectable
\* the trigger raises no_package_credit and the booking stays pending.
ConfirmSelect(b) ==
    /\ booking[b].status = "pending" /\ ~Confirming(b)
    /\ \E p \in Selectable(b) : lock' = [lock EXCEPT ![p] = b]
    /\ UNCHANGED <<package, booking, restored, excuse, deciding, given, refundSide, log>>

\* The rest of it: deduct_package_session, the stamp, the sessions row, commit.
\* Its now() is the start of the transaction, so a lot that lapsed since counts.
ConfirmCommit(b, p) ==
    /\ lock[p] = b
    /\ package' = [package EXCEPT ![p].used = @ + 1, ![p].live = TRUE]
    /\ booking' = [booking EXCEPT ![b].status = "confirmed", ![b].charged = p]
    /\ log' = IF p \in Lot THEN [log EXCEPT !.draw[b] = @ + 1] ELSE log
    /\ lock' = [lock EXCEPT ![p] = None]
    /\ UNCHANGED <<restored, excuse, deciding, given, refundSide>>

\* The insert of the sessions row fails: everything rolls back.
ConfirmAbort(b, p) ==
    /\ lock[p] = b
    /\ lock' = [lock EXCEPT ![p] = None]
    /\ UNCHANGED <<package, booking, restored, excuse, deciding, given, refundSide, log>>

\* updateBookingStatus, through the status machine validate_booking_status.
\* completed and no_show both close a booking and leave its package alone.
CloseBooking(b) ==
    /\ booking[b].status = "confirmed"
    /\ booking' = [booking EXCEPT ![b].status = "closed"]
    /\ UNCHANGED <<package, lock, restored, excuse, deciding, given, refundSide, log>>

CancelPending(b) ==
    /\ booking[b].status = "pending" /\ ~Confirming(b)
    /\ booking' = [booking EXCEPT ![b].status = "cancelled"]
    /\ UNCHANGED <<package, lock, restored, excuse, deciding, given, refundSide, log>>

\* Mutant: the package is derived again instead of read from the stamp.
Credited_Rederived(b) ==
    IF booking[b].charged = None THEN None
    ELSE CHOOSE p \in Package :
            \A q \in Package : package[p].used >= package[q].used

\* The package a cancellation or an attendance credits: the one charged.
Credited(b) == booking[b].charged

\* The trigger restore_student_package: the charged package, never below zero;
\* no event, no new expiry, and no look at what attendance gave back.
CancelConfirmed(b) ==
    LET p == Credited(b) IN
    /\ booking[b].status = "confirmed"
    /\ booking' = [booking EXCEPT ![b].status = "cancelled"]
    /\ IF package[p].used > 0
       THEN /\ Unlocked(p)
            /\ package' = [package EXCEPT ![p].used = @ - 1]
            /\ given' = [given EXCEPT ![b] = @ + 1]
       ELSE UNCHANGED <<package, given>>
    /\ UNCHANGED <<lock, restored, excuse, deciding, refundSide, log>>

-----------------------------------------------------------------------------
(* finalize_attendance, called by an administrator for any booking and by  *)
(* an accepted excuse.  It does not read the booking's status.             *)

\* Mutant: the evidence is only written for a plan.
Restore_LotUnstamped(b) ==
    LET p == Credited(b) IN
    /\ p # None /\ package[p].used > 0 /\ Unlocked(p)
    /\ package' = [package EXCEPT ![p].used = @ - 1, ![p].status = "active"]
    /\ restored' = [restored EXCEPT ![b] = p \in Plan]
    /\ given' = [given EXCEPT ![b] = @ + 1]
    /\ log' = IF p \in Lot THEN [log EXCEPT !.restore[b] = @ + 1] ELSE log

\* The evidence, and not the outcome, makes the restore run once.  A booking
\* nothing was charged for is restored vacuously; a charged package with no used
\* session gives nothing back and leaves no evidence.  A lot comes back to life.
Restore(b) ==
    LET p == Credited(b) IN
    \/ /\ p = None
       /\ restored' = [restored EXCEPT ![b] = TRUE]
       /\ UNCHANGED <<package, given, log>>
    \/ /\ p # None /\ package[p].used = 0
       /\ UNCHANGED <<package, restored, given, log>>
    \/ /\ p # None /\ package[p].used > 0 /\ Unlocked(p)
       /\ package' = IF p \in Lot
                     THEN [package EXCEPT ![p].used = @ - 1,
                              ![p].status = "active", ![p].live = TRUE]
                     ELSE [package EXCEPT ![p].used = @ - 1]
       /\ restored' = [restored EXCEPT ![b] = TRUE]
       /\ given' = [given EXCEPT ![b] = @ + 1]
       /\ log' = IF p \in Lot THEN [log EXCEPT !.restore[b] = @ + 1] ELSE log

FinalizeAttendance(b, outcome) ==
    /\ booking[b].status # "none" /\ ~Confirming(b)
    /\ IF outcome \in Restoring /\ ~restored[b]
       THEN Restore(b)
       ELSE UNCHANGED <<package, restored, given, log>>

\* POST /api/attendance/record.
RecordAttendance(b, outcome) ==
    /\ FinalizeAttendance(b, outcome)
    /\ UNCHANGED <<lock, booking, excuse, deciding, refundSide>>

\* submitExcuse, in time: one per booking, whatever its status.
SubmitExcuse(b) ==
    /\ booking[b].status # "none" /\ excuse[b] = "none"
    /\ excuse' = [excuse EXCEPT ![b] = "pending"]
    /\ UNCHANGED <<package, lock, booking, restored, deciding, given, refundSide, log>>

\* decideExcuse reads the excuse,
ReadExcuse(d, b, verdict) ==
    /\ deciding[d] = Idle /\ excuse[b] = "pending"
    /\ deciding' = [deciding EXCEPT ![d] =
                      [booking |-> b, verdict |-> verdict, step |-> "write"]]
    /\ UNCHANGED <<package, lock, booking, restored, excuse, given, refundSide, log>>

\* writes the verdict where it is still pending, and does not look at whether a
\* row was written,
WriteVerdict(d) ==
    LET b == deciding[d].booking IN
    /\ deciding[d].step = "write"
    /\ excuse' = [excuse EXCEPT ![b] = IF @ = "pending" THEN deciding[d].verdict ELSE @]
    /\ deciding' = [deciding EXCEPT ![d] =
                      IF @.verdict = "accepted" THEN [@ EXCEPT !.step = "carry"] ELSE Idle]
    /\ UNCHANGED <<package, lock, booking, restored, given, refundSide, log>>

\* and carries the session over,
CarryOver(d) ==
    /\ deciding[d].step = "carry"
    /\ FinalizeAttendance(deciding[d].booking, "excused_carried")
    /\ deciding' = [deciding EXCEPT ![d] = Idle]
    /\ UNCHANGED <<lock, booking, excuse, refundSide>>

\* unless the request dies first.
DeciderCrash(d) ==
    /\ deciding[d] # Idle
    /\ deciding' = [deciding EXCEPT ![d] = Idle]
    /\ UNCHANGED <<package, lock, booking, restored, excuse, given, refundSide, log>>

-----------------------------------------------------------------------------
(* The refund saga: approvePrepaidRefund reserves, calls Stripe and        *)
(* releases on an error; the webhook finalizes.                            *)

\* Mutant: the hours left are not checked again under the lock.
Reserve_Unchecked(r, l, n) ==
    /\ request[r].status = "none"
    /\ package[l].status = "active" /\ Unlocked(l)
    /\ package' = [package EXCEPT ![l].used = @ + n]
    /\ request' = [request EXCEPT ![r] = [status |-> "pending", lot |-> l, hours |-> n]]
    /\ saga' = [saga EXCEPT ![r] = "reserved"]
    /\ UNCHANGED <<bookingSide, refunds, delivery, log>>

\* reserve_prepaid_refund: the hours are void from here on.
Reserve(r, l, n) ==
    /\ request[r].status = "none"
    /\ package[l].status = "active" /\ n <= Remaining(l) /\ Unlocked(l)
    /\ package' = [package EXCEPT ![l].used = @ + n]
    /\ request' = [request EXCEPT ![r] = [status |-> "pending", lot |-> l, hours |-> n]]
    /\ saga' = [saga EXCEPT ![r] = "reserved"]
    /\ UNCHANGED <<bookingSide, refunds, delivery, log>>

RefundedAtStripe(l) ==
    SumFunction([i \in DOMAIN refunds[l] |-> refunds[l][i].hours])

\* Stripe refunds no more of a charge than is left of it.
StripeRefund(l, by, n) ==
    /\ RefundedAtStripe(l) + n <= Hours[l]
    /\ refunds' = [refunds EXCEPT ![l] = <<[by |-> by, hours |-> n]>> \o @]

\* refunds.create answers; the request id is the idempotency key.
StripeAnswers(r) ==
    /\ saga[r] = "reserved"
    /\ StripeRefund(request[r].lot, r, request[r].hours)
    /\ saga' = [saga EXCEPT ![r] = "done"]
    /\ UNCHANGED <<package, bookingSide, request, delivery, log>>

\* It throws: Stripe refused, or carried it out and the answer was lost.
StripeThrows(r) ==
    /\ saga[r] = "reserved"
    /\ \/ StripeRefund(request[r].lot, r, request[r].hours)
       \/ UNCHANGED refunds
    /\ saga' = [saga EXCEPT ![r] = "failed"]
    /\ UNCHANGED <<package, bookingSide, request, delivery, log>>

\* Mutant: a release does not ask whether the request is still pending.
Release_AnyStatus(r) ==
    LET l == request[r].lot IN
    /\ saga[r] = "failed" /\ Unlocked(l)
    /\ saga' = [saga EXCEPT ![r] = "done"]
    /\ request' = [request EXCEPT ![r].status = "released"]
    /\ package' = [package EXCEPT ![l].used =
                      IF @ > request[r].hours THEN @ - request[r].hours ELSE 0]
    /\ UNCHANGED <<bookingSide, refunds, delivery, log>>

\* Mutant: a release sets the lot active, as an attendance restore does.
Release_Reactivates(r) ==
    LET l == request[r].lot IN
    /\ saga[r] = "failed" /\ request[r].status = "pending" /\ Unlocked(l)
    /\ saga' = [saga EXCEPT ![r] = "done"]
    /\ request' = [request EXCEPT ![r].status = "released"]
    /\ package' = [package EXCEPT ![l].status = "active", ![l].used =
                      IF @ > request[r].hours THEN @ - request[r].hours ELSE 0]
    /\ UNCHANGED <<bookingSide, refunds, delivery, log>>

\* release_prepaid_refund, whatever has become of the lot.
Release(r) ==
    LET l == request[r].lot IN
    /\ saga[r] = "failed"
    /\ saga' = [saga EXCEPT ![r] = "done"]
    /\ IF request[r].status = "pending"
       THEN /\ Unlocked(l)
            /\ request' = [request EXCEPT ![r].status = "released"]
            /\ package' = [package EXCEPT ![l].used =
                              IF @ > request[r].hours THEN @ - request[r].hours ELSE 0]
       ELSE UNCHANGED <<request, package>>
    /\ UNCHANGED <<bookingSide, refunds, delivery, log>>

\* The action dies, or its release fails and is only logged.
SagaStops(r) ==
    /\ saga[r] \in {"reserved", "failed"}
    /\ saga' = [saga EXCEPT ![r] = "done"]
    /\ UNCHANGED <<package, bookingSide, request, refunds, delivery, log>>

\* A refund in the Stripe dashboard: it carries no request id.
DashboardRefund(l, n) ==
    /\ package[l].status # "none"
    /\ StripeRefund(l, None, n)
    /\ UNCHANGED <<package, bookingSide, request, saga, delivery, log>>

\* charge.refunded carries the refunds the charge had when it was sent.
Deliver(h, l, n) ==
    /\ delivery[h] = <<>>
    /\ LET all == refunds[l]
           old == SubSeq(all, Len(all) - n + 1, Len(all))
       IN delivery' = [delivery EXCEPT ![h] =
                          [i \in 1..n |-> [lot |-> l, by |-> old[i].by]]]
    /\ UNCHANGED <<package, bookingSide, request, saga, refunds, log>>

\* finalize_prepaid_refund.  Of a released request it raises: the walk ends
\* there, with a 500 that has Stripe send the event again.
FinalizeRefund(h) ==
    LET r == Head(delivery[h]).by IN
    /\ delivery[h] # <<>> /\ r \in Request
    /\ IF request[r].status = "pending"
       THEN /\ request' = [request EXCEPT ![r].status = "succeeded"]
            /\ log' = [log EXCEPT !.refunded[r] = @ + request[r].hours]
       ELSE UNCHANGED <<request, log>>
    /\ delivery' = [delivery EXCEPT ![h] =
                      IF request[r].status = "released" THEN <<>> ELSE Tail(@)]
    /\ UNCHANGED <<package, bookingSide, saga, refunds>>

\* reconcile_external_prepaid_refund: whatever the amount, all that remains.
Reconcile(h) ==
    LET l == Head(delivery[h]).lot IN
    /\ delivery[h] # <<>> /\ Head(delivery[h]).by = None
    /\ Unlocked(l)
    /\ IF package[l].status = "active" /\ Remaining(l) > 0
       THEN /\ package' = [package EXCEPT ![l].used = Hours[l]]
            /\ log' = [log EXCEPT !.external[l] = @ + Remaining(l)]
       ELSE UNCHANGED <<package, log>>
    /\ delivery' = [delivery EXCEPT ![h] = Tail(@)]
    /\ UNCHANGED <<bookingSide, request, saga, refunds>>

HandlerCrash(h) ==
    /\ delivery[h] # <<>>
    /\ delivery' = [delivery EXCEPT ![h] = <<>>]
    /\ UNCHANGED <<package, bookingSide, request, saga, refunds, log>>

-----------------------------------------------------------------------------
BookingStep ==
    \E b \in Booking :
        \/ \E wallet \in BOOLEAN : Book(b, wallet)
        \/ ConfirmSelect(b)
        \/ \E p \in Package : ConfirmCommit(b, p) \/ ConfirmAbort(b, p)
        \/ CloseBooking(b) \/ CancelPending(b) \/ CancelConfirmed(b)
        \/ \E outcome \in Restoring : RecordAttendance(b, outcome)

ExcuseStep ==
    \/ \E b \in Excusable : SubmitExcuse(b)
    \/ \E d \in Decider :
        \/ \E b \in Excusable, v \in {"accepted", "rejected"} : ReadExcuse(d, b, v)
        \/ WriteVerdict(d)
        \/ CarryOver(d)
        \/ DeciderCrash(d)

LotStep == \E l \in Lot : Grant(l) \/ Lapse(l) \/ SweepExpired(l)

RefundStep ==
    \/ \E r \in Request :
        \/ \E l \in Lot : \E n \in 1..Hours[l] : Reserve(r, l, n)
        \/ StripeAnswers(r) \/ StripeThrows(r) \/ Release(r) \/ SagaStops(r)
    \/ \E l \in Lot : \E n \in 1..Hours[l] : DashboardRefund(l, n)
    \/ \E h \in Handler :
        \/ \E l \in Lot : \E n \in 1..Len(refunds[l]) : Deliver(h, l, n)
        \/ FinalizeRefund(h) \/ Reconcile(h) \/ HandlerCrash(h)

WalletNext == BookingStep \/ ExcuseStep \/ LotStep \/ RefundStep

WalletSpec == WalletInit /\ [][WalletNext]_walletVars

-----------------------------------------------------------------------------
(* Properties.                                                             *)

\* The rows are well formed; check_sessions_used keeps 0 <= used <= total.
WalletTypeOK ==
    /\ package \in [Package -> [status : {"none", "active", "expired"},
                                used : Nat, live : BOOLEAN]]
    /\ \A p \in Package : package[p].used <= Hours[p]
    /\ lock \in [Package -> Booking \cup {None}]
    /\ booking \in [Booking ->
          [status : {"none", "pending", "confirmed", "closed", "cancelled"},
           wallet : BOOLEAN, charged : Package \cup {None}]]
    /\ restored \in [Booking -> BOOLEAN]
    /\ excuse \in [Excusable -> {"none", "pending", "accepted", "rejected"}]
    /\ deciding \in [Decider -> [booking : Excusable \cup {None},
          verdict : {"none", "accepted", "rejected"}, step : {"idle", "write", "carry"}]]
    /\ request \in [Request -> [status : {"none", "pending", "succeeded", "released"},
          lot : Lot \cup {None}, hours : Nat]]
    /\ saga \in [Request -> {"idle", "reserved", "failed", "done"}]
    /\ given \in [Booking -> Nat]

\* An hour is spent, held or given back, never in two places: what a package
\* counts as used covers every session charged to it and not credited back, the
\* hours of every refund requested or paid, and those an external refund voided.
NoOversell ==
    \A p \in Package :
        LET session == [b \in Booking |-> 1 - given[b]]
            hours == [r \in Request |-> request[r].hours]
            charged == {b \in Booking : booking[b].charged = p}
            held == {r \in Request : /\ request[r].lot = p
                                     /\ request[r].status \in {"pending", "succeeded"}}
            external == IF p \in Lot THEN log.external[p] ELSE 0
        IN package[p].used >=
              SumFunctionOnSet(session, charged) + SumFunctionOnSet(hours, held) + external

\* The events table tells what happened once: one draw for a booking charged to
\* a lot, at most one restore of it and only with its evidence, one refunded
\* event for a request that succeeded, through redeliveries and crashes.
EventsExplained ==
    /\ \A b \in Booking :
          /\ log.draw[b] = IF booking[b].charged \in Lot THEN 1 ELSE 0
          /\ log.restore[b] <= log.draw[b]
          /\ log.restore[b] = 1 => restored[b]
    /\ \A r \in Request :
          log.refunded[r] =
              IF request[r].status = "succeeded" THEN request[r].hours ELSE 0

\* A booking that was confirmed, whatever became of it, was charged; and to a
\* lot if the student asked for the wallet.  The confirm fails closed.
ChargedAsAsked ==
    \A b \in Booking :
        /\ booking[b].status \in {"confirmed", "closed"} =>
              booking[b].charged # None
        /\ booking[b].wallet => booking[b].charged \in Lot \cup {None}

\* A refund request ends once: the release that follows a lost answer does not
\* undo a request the webhook finalized, nor the webhook one that was released.
RefundEndsOnce ==
    [][\A r \in Request :
          request[r].status \in {"succeeded", "released"} =>
              request'[r] = request[r]]_walletVars

\* An expired lot comes back only for the attendance of a session that was
\* charged to it, never for a draw in flight or for hours a refund releases.
ExpiredUnlessRestored ==
    [][\A l \in Lot :
          package[l].status = "expired" /\ package'[l].status # "expired" =>
              \E b \in Booking :
                  /\ booking[b].charged = l
                  /\ ~restored[b] /\ restored'[b]]_walletVars

(* What the repository says and the code does not keep.                    *)

\* "Teacher-absent restores a wallet hour exactly once": an hour is credited back
\* by the attendance of its session or by its cancellation, and not by both.
RestoredOnce == \A b \in Booking : booking[b].charged \in Lot => given[b] <= 1
=============================================================================
