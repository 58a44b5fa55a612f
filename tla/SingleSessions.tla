--------------------------- MODULE SingleSessions ---------------------------
(***************************************************************************)
(* One student's single sessions, each paid once in cash: the webhook      *)
(* handler that turns a succeeded payment intent into a booking, guarded   *)
(* by a sentinel row of the payment intent, and the administrator's refund *)
(* of a booking, which the charge.refunded webhook finishes.               *)
(***************************************************************************)
EXTENDS BillingEvents, FiniteSetsExt

CONSTANTS
    Charge,         \* the payment intents
    Assessment,     \* those that pay for an assessment
    RefundRequest

ASSUME SingleSessionsAssumption ==
    /\ Assessment \subseteq Charge
    /\ None \notin RefundRequest \cup {"dashboard"}
    /\ IsFiniteSet(Charge) /\ IsFiniteSet(Worker)

VARIABLES
    charge,     \* Stripe: the payment intent, and what refunded it
    sentinel,   \* billing_events: the row of each payment intent, 0 if there is none
    record,     \* payments: whether the charge is recorded, and its booking_id
    booking,    \* bookings, in the order they were created
    refund,     \* single_session_refund_requests
    admin       \* where approveSingleSessionRefund stands for each request

singleVars == <<charge, sentinel, record, booking, refund, admin>>

SingleInit ==
    /\ charge = [k \in Charge |-> [status |-> "none", by |-> None]]
    /\ sentinel = [k \in Charge |-> 0]
    /\ record = [k \in Charge |-> [status |-> "none", booking |-> 0]]
    /\ booking = <<>>
    /\ refund = [r \in RefundRequest |-> [status |-> "none", charge |-> None]]
    /\ admin = [r \in RefundRequest |-> "idle"]

\* A booking is live while it is pending or confirmed.
Linked(k) == record[k].booking # 0
BookingOf(k) == booking[record[k].booking]

----------------------------------------------------------------------------
(* Stripe, the teacher and the student. *)

PaymentEvent(k) == [type |-> "pi", about |-> k, status |-> "none", ref |-> None]
RefundEvent(k, r) == [type |-> "charge.refunded", about |-> k, status |-> "none", ref |-> r]

Charged(k) ==
    /\ charge[k].status = "none"
    /\ Happens(<<"charge", k>>)
    /\ charge' = [charge EXCEPT ![k].status = "succeeded"]
    /\ Emit(<<PaymentEvent(k)>>)
    /\ UNCHANGED <<acked, work, faults, sentinel, record, booking, refund, admin>>

\* A retried capture: another event for the same payment intent.
ChargedAgain(k) ==
    /\ charge[k].status = "succeeded"
    /\ Happens(<<"again", k>>)
    /\ Emit(<<PaymentEvent(k)>>)
    /\ UNCHANGED <<acked, work, faults, singleVars>>

Refunded(k, by) ==
    /\ charge' = [charge EXCEPT ![k] = [status |-> "refunded", by |-> by]]
    /\ Emit(<<RefundEvent(k, by)>>)

\* A refund from Stripe's dashboard names no request.
DashboardRefund(k) ==
    /\ charge[k].status = "succeeded"
    /\ Happens(<<"dashboard", k>>)
    /\ Refunded(k, "dashboard")
    /\ UNCHANGED <<acked, work, faults, sentinel, record, booking, refund, admin>>

\* The lesson is held, or the booking is cancelled.
EndBooking(k, status) ==
    /\ Linked(k) /\ BookingOf(k).status = "live"
    /\ Happens(<<status, k>>)
    /\ booking' = [booking EXCEPT ![record[k].booking].status = status]
    /\ UNCHANGED <<sent, acked, row, work, faults, charge, sentinel, record, refund, admin>>

----------------------------------------------------------------------------
(* handlePaymentIntentSucceeded.  Its reads and writes are separate calls. *)

ReadSentinel(w) ==
    LET k == About(w) IN
    /\ At(w, "sentinel")
    /\ IF sentinel[k] = 0 THEN Goto(w, "claim") ELSE GotoWith(w, "prior", None, sentinel[k])
    /\ UNCHANGED <<sent, acked, row, faults, agenda, singleVars>>

\* A sentinel whose payment is linked is done; any other is taken to be stale.
ReadPriorPayment(w) ==
    /\ At(w, "prior")
    /\ Goto(w, IF Linked(About(w)) THEN "mark" ELSE "unclaim")
    /\ UNCHANGED <<sent, acked, row, faults, agenda, singleVars>>

\* The delete names the row that was read.
DeleteStaleSentinel(w) ==
    LET k == About(w) IN
    /\ At(w, "unclaim")
    /\ sentinel' = [sentinel EXCEPT ![k] = IF @ = work[w].ref THEN 0 ELSE @]
    /\ Goto(w, "claim")
    /\ UNCHANGED <<sent, acked, row, faults, agenda, charge, record, booking, refund, admin>>

\* An id no row has and no handler remembers.
FreshRow ==
    LET used == {sentinel[k] : k \in Charge} \cup {work[w].ref : w \in Worker} IN
    Min(1..(Cardinality(Worker) + Cardinality(Charge) + 1) \ used)

\* A conflict is another delivery's sentinel: processed.
ClaimSentinel(w) ==
    LET k == About(w) IN
    /\ At(w, "claim")
    /\ IF sentinel[k] = 0
         THEN sentinel' = [sentinel EXCEPT ![k] = FreshRow] /\ GotoWith(w, "record", None, None)
         ELSE UNCHANGED sentinel /\ Goto(w, "mark")
    /\ UNCHANGED <<sent, acked, row, faults, agenda, charge, record, booking, refund, admin>>

\* A conflict is the row of an earlier delivery, which may have linked it.
RecordPayment(w) ==
    LET k == About(w) IN
    /\ At(w, "record")
    /\ record' = [record EXCEPT ![k].status = "succeeded"]
    /\ Goto(w, IF Linked(k) THEN "mark" ELSE "book")
    /\ UNCHANGED <<sent, acked, row, faults, agenda, charge, sentinel, booking, refund, admin>>

ActiveAssessments ==
    {b \in DOMAIN booking : booking[b].charge \in Assessment /\ booking[b].status # "cancelled"}

\* Mutants: the link is not guarded; the limit counts for every product.
Bookable_Relink(k) == k \in Assessment => ActiveAssessments = {}

\* create_single_session_booking and start_instant_session_booking: the booking
\* and the link of its payment in one transaction, or neither.
Bookable(k) == (k \in Assessment => ActiveAssessments = {}) /\ ~Linked(k)

Materialize(w) ==
    LET k == About(w) IN
    /\ At(w, "book")
    /\ IF Bookable(k)
         THEN /\ booking' = Append(booking, [charge |-> k, status |-> "live"])
              /\ record' = [record EXCEPT ![k].booking = Len(booking) + 1]
              /\ Goto(w, "mark")
         ELSE UNCHANGED <<booking, record>> /\ Goto(w, "release")
    /\ UNCHANGED <<sent, acked, row, faults, agenda, charge, sentinel, refund, admin>>

\* This delete names the payment intent, whoever's row it is.
ReleaseSentinel(w) ==
    /\ At(w, "release")
    /\ sentinel' = [sentinel EXCEPT ![About(w)] = 0]
    /\ Goto(w, "reject")
    /\ UNCHANGED <<sent, acked, row, faults, agenda, charge, record, booking, refund, admin>>

\* A failed read counts as nothing found, a failed delete is not looked at, a
\* failed write ends the handler: failed, and answered 200.
PaymentCallFails(w) ==
    /\ Fault
    /\ \/ At(w, "sentinel") /\ Goto(w, "claim")
       \/ At(w, "prior") /\ Goto(w, "unclaim")
       \/ At(w, "unclaim") /\ Goto(w, "claim")
       \/ At(w, "claim") /\ Goto(w, "reject")
       \/ At(w, "record") /\ Goto(w, "reject")
       \/ At(w, "book") /\ Goto(w, "release")
       \/ At(w, "release") /\ Goto(w, "reject")
    /\ UNCHANGED <<sent, acked, row, agenda, singleVars>>

----------------------------------------------------------------------------
(* charge.refunded: finalize_single_session_refund and its external twin. *)

\* _cancel_single_session_for_refund
CancelForRefund(k) ==
    booking' = [b \in DOMAIN booking |->
                   IF b = record[k].booking /\ booking[b].status = "live"
                     THEN [booking[b] EXCEPT !.status = "cancelled"] ELSE booking[b]]

RequestOf(w) == sent[work[w].event].ref

\* Mutant: bookkeeping only, as if the reservation had cancelled the booking.
FinalizeRefund_KeepsBooking(w) ==
    LET r == RequestOf(w) IN
    /\ At(w, "walk")
    /\ r \in RefundRequest
    /\ refund[r].status \in {"pending", "succeeded"}
    /\ refund' = [refund EXCEPT ![r].status = "succeeded"]
    /\ Goto(w, "find")
    /\ UNCHANGED <<sent, acked, row, faults, agenda, charge, sentinel, record, booking, admin>>

FinalizeRefund(w) ==
    LET r == RequestOf(w) IN
    /\ At(w, "walk")
    /\ r \in RefundRequest
    /\ refund[r].status \in {"pending", "succeeded"}
    /\ IF refund[r].status = "pending"
         THEN /\ CancelForRefund(refund[r].charge)
              /\ refund' = [refund EXCEPT ![r].status = "succeeded"]
         ELSE UNCHANGED <<booking, refund>>
    /\ Goto(w, "find")
    /\ UNCHANGED <<sent, acked, row, faults, agenda, charge, sentinel, record, admin>>

\* A released request: finalize raises.
FinalizeRaises(w) ==
    /\ At(w, "walk")
    /\ RequestOf(w) \in RefundRequest
    /\ refund[RequestOf(w)].status = "released"
    /\ Throw(w)
    /\ UNCHANGED <<faults, singleVars>>

\* No request: the booking of the payment intent, if it has one.
ReconcileExternal(w) ==
    LET k == About(w) IN
    /\ At(w, "walk")
    /\ RequestOf(w) \notin RefundRequest
    /\ IF k \in Charge /\ Linked(k) THEN CancelForRefund(k) ELSE UNCHANGED booking
    /\ Goto(w, "find")
    /\ UNCHANGED <<sent, acked, row, faults, agenda, charge, sentinel, record, refund, admin>>

----------------------------------------------------------------------------
(* approveSingleSessionRefund *)

AdminGoto(r, pc) == admin' = [admin EXCEPT ![r] = pc]

\* reserve_single_session_refund; what it refuses opens no request.
ReserveRefund(r, k) ==
    /\ Happens(<<"refund", r, k>>)
    /\ Linked(k) /\ BookingOf(k).status = "live"
    /\ \A q \in RefundRequest : refund[q].charge = k => refund[q].status = "released"
    /\ refund' = [refund EXCEPT ![r] = [status |-> "pending", charge |-> k]]
    /\ AdminGoto(r, "stripe")
    /\ UNCHANGED <<sent, acked, row, work, faults, charge, sentinel, record, booking>>

\* refunds.create of the whole charge.  Stripe refuses a charge that is already
\* refunded; the call may fail, and the answer to one that did not may be lost.
CreateStripeRefund(r) ==
    LET k == refund[r].charge IN
    /\ admin[r] = "stripe"
    /\ \/ /\ charge[k].status = "succeeded"
          /\ Refunded(k, r)
          /\ \/ AdminGoto(r, "done") /\ UNCHANGED faults
             \/ AdminGoto(r, "release") /\ Fault
       \/ /\ \/ charge[k].status = "refunded" /\ UNCHANGED faults
             \/ Fault
          /\ AdminGoto(r, "release")
          /\ UNCHANGED <<charge, sent, row>>
    /\ UNCHANGED <<acked, work, agenda, sentinel, record, booking, refund>>

\* release_single_session_refund, which refuses a request that succeeded.
ReleaseRefund(r) ==
    /\ admin[r] = "release"
    /\ refund' = [refund EXCEPT ![r].status = IF @ = "pending" THEN "released" ELSE @]
    /\ AdminGoto(r, "done")
    /\ UNCHANGED <<sent, acked, row, work, faults, agenda, charge, sentinel, record, booking>>

\* The action dies, or its release fails: the request stays pending.
StopAdmin(r) ==
    /\ admin[r] \in {"stripe", "release"}
    /\ Fault
    /\ AdminGoto(r, "stopped")
    /\ UNCHANGED <<sent, acked, row, work, agenda, charge, sentinel, record, booking, refund>>
=============================================================================
