---------------------------- MODULE ChargeClawback ----------------------------
(***************************************************************************)
(* The webhook side of the payouts: handleChargeRefunded,                  *)
(* handleChargeDisputed, handleChargeDisputeClosed and, under them,        *)
(* applyChargeClawbacks.  A hook is one delivery of an event being handled.*)
(* Stripe redelivers an event until it is processed and re-sends all the   *)
(* refunds of a charge with each new one, so any number of hooks work on   *)
(* the same refund or dispute, at the same time or again later, and in any *)
(* order.  A hook that throws, or dies, simply ends.                       *)
(***************************************************************************)
EXTENDS StripeTransfers

CONSTANTS
    Hook,
    Cents,      \* refund.amount or dispute.amount
    Total       \* charge.amount

ASSUME CentsAssumption ==
    /\ Cents \in [Source -> Nat \ {0}]
    /\ Total \in [Charge -> Nat \ {0}]
    /\ \A s \in Source : Cents[s] <= Total[SourceCharge[s]]

VARIABLES
    fate,       \* what happened to a source on Stripe
    placed,     \* disputes whose created event is processed
    step,       \* where a hook is
    src,        \* the refund or dispute it works on
    rows,       \* listed entries it has not dealt with yet
    cap,        \* remaining_cap_cents of a listed entry
    paid,       \* listed entries with a stripe_transfer_id
    known,      \* listed entries with source_already_applied
    plan        \* the reversal and the shortfall it asks to reserve

eventVars == <<fate, placed>>
hookVars  == <<step, src, rows, cap, paid, known, plan>>

Nothing == [entry |-> 0, reversal |-> 0, shortfall |-> 0]

HookTypeOK ==
    /\ fate \in [Source -> {"none", "open", "won", "lost"}]
    /\ placed \in SUBSET Dispute
    /\ step \in [Hook -> {"idle", "hold", "list", "work", "reserve", "reverse", "confirm"}]
    /\ src \in [Hook -> Source \cup {"none"}]
    /\ rows \in [Hook -> SUBSET Entry]
    /\ cap \in [Hook -> [Entry -> Nat]]
    /\ paid \in [Hook -> SUBSET Entry]
    /\ known \in [Hook -> SUBSET Entry]
    /\ plan \in [Hook -> [entry : Entry \cup {0}, reversal : Nat, shortfall : Nat]]

HookInit ==
    /\ fate = [s \in Source |-> "none"]
    /\ placed = {}
    /\ step = [h \in Hook |-> "idle"]
    /\ src = [h \in Hook |-> "none"]
    /\ rows = [h \in Hook |-> {}]
    /\ cap = [h \in Hook |-> [e \in Entry |-> 0]]
    /\ paid = [h \in Hook |-> {}]
    /\ known = [h \in Hook |-> {}]
    /\ plan = [h \in Hook |-> Nothing]

-----------------------------------------------------------------------------
(* computeProportionalReversalCents                                        *)

Share(e, s) == (Amount[e] * Cents[s]) \div Total[SourceCharge[s]]

Reversal(e, s, reversible) == Capped(Share(e, s), reversible)

Shortfall_Signed(e, s, reversible) == Share(e, s) - reversible    \* mutant

Shortfall(e, s, reversible) == Share(e, s) - Reversal(e, s, reversible)

-----------------------------------------------------------------------------
(* On Stripe and at the bank                                               *)

RefundMade(r) ==
    /\ fate[r] = "none"
    /\ fate' = [fate EXCEPT ![r] = "lost"]
    /\ UNCHANGED <<ledgerVars, stripeVars, placed, hookVars>>

DisputeFiled(d) ==
    /\ fate[d] = "none"
    /\ fate' = [fate EXCEPT ![d] = "open"]
    /\ UNCHANGED <<ledgerVars, stripeVars, placed, hookVars>>

DisputeDecided(d) ==
    /\ fate[d] = "open"
    /\ \E f \in {"won", "lost"} : fate' = [fate EXCEPT ![d] = f]
    /\ UNCHANGED <<ledgerVars, stripeVars, placed, hookVars>>

-----------------------------------------------------------------------------
HookAt(h, label) == step' = [step EXCEPT ![h] = label]

\* Forget the locals of a handler that is over.
End(h) ==
    /\ HookAt(h, "idle")
    /\ src' = [src EXCEPT ![h] = "none"]
    /\ rows' = [rows EXCEPT ![h] = {}]
    /\ cap' = [cap EXCEPT ![h] = [e \in Entry |-> 0]]
    /\ paid' = [paid EXCEPT ![h] = {}]
    /\ known' = [known EXCEPT ![h] = {}]
    /\ plan' = [plan EXCEPT ![h] = Nothing]

\* Go on with the next listed entry.
NextRow(h, e) ==
    /\ HookAt(h, "work")
    /\ rows' = [rows EXCEPT ![h] = @ \ {e}]
    /\ cap' = [cap EXCEPT ![h][e] = 0]
    /\ paid' = [paid EXCEPT ![h] = @ \ {e}]
    /\ known' = [known EXCEPT ![h] = @ \ {e}]
    /\ plan' = [plan EXCEPT ![h] = Nothing]
    /\ UNCHANGED src

\* materializeLinkedEntries, the first call of every handler but the release
Begin(h, s, label) ==
    /\ step[h] = "idle"
    /\ Materialize
    /\ src' = [src EXCEPT ![h] = s]
    /\ HookAt(h, label)
    /\ UNCHANGED <<stripeVars, eventVars, rows, cap, paid, known, plan>>

\* Mutant: a dispute that is merely filed costs the teacher.
BeginClawback_OnFiling(h, s) == fate[s] # "none" /\ Begin(h, s, "list")

\* charge.refunded, or charge.dispute.closed of a lost dispute
BeginClawback(h, s) == fate[s] = "lost" /\ Begin(h, s, "list")

\* charge.dispute.created, however late
BeginHold(h, d) == fate[d] # "none" /\ d \notin placed /\ Begin(h, d, "hold")

\* holdDisputedEntries; a handler that dies before markEvent is redelivered.
PlaceDisputeHold(h) ==
    /\ step[h] = "hold"
    /\ DisputeHold(src[h])
    /\ placed' = placed \cup {src[h]} \/ UNCHANGED placed
    /\ End(h)
    /\ UNCHANGED <<stripeVars, fate>>

\* Mutant: the outcome of the dispute is not looked at.
ReleaseWon_AnyStatus(d) ==
    /\ fate[d] # "none"
    /\ DisputeRelease(d)
    /\ UNCHANGED <<stripeVars, eventVars, hookVars>>

\* charge.dispute.closed of a won dispute: releaseDisputedEntries
ReleaseWon(d) ==
    /\ fate[d] = "won"
    /\ DisputeRelease(d)
    /\ UNCHANGED <<stripeVars, eventVars, hookVars>>

\* connect_clawback_list_entries: a snapshot, stale from here on
ListEntries(h) ==
    LET s == src[h]
        listed == {e \in FundedBy(SourceCharge[s]) : status[e] \notin {"none", "voided"}}
    IN  /\ step[h] = "list"
        /\ HookAt(h, "work")
        /\ rows' = [rows EXCEPT ![h] = listed]
        /\ cap' = [cap EXCEPT ![h] = [e \in Entry |-> IF e \in listed THEN Reclaimable(e) ELSE 0]]
        /\ paid' = [paid EXCEPT ![h] = {e \in listed : xfer[e] # 0}]
        /\ known' = [known EXCEPT ![h] = {e \in listed : claw[e][s] # 0 \/ resv[e][s] # 0}]
        /\ UNCHANGED <<ledgerVars, stripeVars, eventVars, src, plan>>

Requested_AllLeft(h, e) == cap[h][e]    \* mutant

\* What it asks connect_clawback_apply for
Requested(h, e) == Capped(Share(e, src[h]), cap[h][e])

\* Nothing left, or this source was applied to the unsettled entry before
SkipRow(h, e) ==
    /\ step[h] = "work" /\ e \in rows[h]
    /\ IF e \in paid[h] THEN e \notin known[h] /\ cap[h][e] = 0
                           ELSE e \in known[h] \/ Requested(h, e) = 0
    /\ NextRow(h, e)
    /\ UNCHANGED <<ledgerVars, stripeVars, eventVars>>

Applies(h, e) ==
    /\ step[h] = "work" /\ e \in rows[h] \ (paid[h] \cup known[h])
    /\ Requested(h, e) > 0

\* connect_clawback_apply voids, records, or finds nothing more to do.
ApplyClawback(h, e) ==
    /\ Applies(h, e)
    /\ ~RoutesToReversal(e)
    /\ \/ VoidClean(e, src[h], Requested(h, e))
       \/ RecordClawback(e, src[h], Requested(h, e))
       \/ /\ status[e] = "voided" \/ claw[e][src[h]] # 0 \/ Reclaimable(e) = 0
          /\ UNCHANGED ledgerVars
    /\ NextRow(h, e)
    /\ UNCHANGED <<stripeVars, eventVars>>

\* The entry was paid after it was listed: the RPC raises, Stripe redelivers.
ApplyRefused(h, e) ==
    /\ Applies(h, e)
    /\ RoutesToReversal(e)
    /\ End(h)
    /\ UNCHANGED <<ledgerVars, stripeVars, eventVars>>

\* reclaimSettledEntry: transfers.retrieve and the split; a source already
\* reserved resumes its own reservation whatever it asks for.
PlanReversal(h, e) ==
    LET rev == IF e \in known[h] THEN 0
               ELSE Capped(Reversal(e, src[h], ReversibleBalance(e)), cap[h][e])
        short == IF e \in known[h] THEN 0
                 ELSE Capped(Shortfall(e, src[h], ReversibleBalance(e)), cap[h][e] - rev)
    IN  /\ step[h] = "work" /\ e \in rows[h] \cap paid[h]
        /\ e \in known[h] \/ rev > 0 \/ short > 0
        /\ plan' = [plan EXCEPT ![h] = [entry |-> e, reversal |-> rev, shortfall |-> short]]
        /\ HookAt(h, "reserve")
        /\ UNCHANGED <<ledgerVars, stripeVars, eventVars, src, rows, cap, paid, known>>

\* The split rounds to nothing.
PlanNothing(h, e) ==
    /\ step[h] = "work" /\ e \in (rows[h] \cap paid[h]) \ known[h]
    /\ Share(e, src[h]) = 0 /\ cap[h][e] > 0
    /\ NextRow(h, e)
    /\ UNCHANGED <<ledgerVars, stripeVars, eventVars>>

\* connect_clawback_reserve_reversal, outcome 'reserved'
Reserve(h) ==
    LET e == plan[h].entry
    IN  /\ step[h] = "reserve"
        /\ ReserveReversal(e, src[h], plan[h].reversal, plan[h].shortfall)
        /\ IF resv'[e][src[h]] > 0
           THEN HookAt(h, "reverse") /\ UNCHANGED <<src, rows, cap, paid, known, plan>>
           ELSE NextRow(h, e)
        /\ UNCHANGED <<stripeVars, eventVars>>

\* Outcomes 'already_reserved' and 'nothing_to_reserve'
ReserveFinds(h) ==
    LET e == plan[h].entry
        s == src[h]
        unfinished == resv[e][s] > 0 /\ s \notin confirmed[e]
    IN  /\ step[h] = "reserve"
        /\ \/ resv[e][s] > 0 \/ claw[e][s] > 0
           \/ Reclaimable(e) = 0
        /\ IF unfinished
           THEN HookAt(h, "reverse") /\ UNCHANGED <<src, rows, cap, paid, known, plan>>
           ELSE NextRow(h, e)
        /\ UNCHANGED <<ledgerVars, stripeVars, eventVars>>

\* Mutant: Stripe is asked for the planned cents, not for the reserved ones.
ReverseTransfer_AsPlanned(h) ==
    /\ step[h] = "reverse"
    /\ CreateReversal(plan[h].entry, src[h], plan[h].reversal)
    /\ HookAt(h, "confirm")
    /\ UNCHANGED <<ledgerVars, eventVars, src, rows, cap, paid, known, plan>>

\* transfers.createReversal of the reserved cents, under the source's key
ReverseTransfer(h) ==
    LET e == plan[h].entry
    IN  /\ step[h] = "reverse"
        /\ CreateReversal(e, src[h], resv[e][src[h]])
        /\ \/ HookAt(h, "confirm") /\ UNCHANGED <<src, rows, cap, paid, known, plan>>
           \/ End(h)     \* only the answer is lost
        /\ UNCHANGED <<ledgerVars, eventVars>>

Confirm(h) ==
    /\ step[h] = "confirm"
    /\ ConfirmReversal(plan[h].entry, src[h])
    /\ NextRow(h, plan[h].entry)
    /\ UNCHANGED <<stripeVars, eventVars>>

\* The loop is over; a lost dispute also releases what it still holds.
FinishClawback(h) ==
    /\ step[h] = "work" /\ rows[h] = {}
    /\ IF src[h] \in Dispute THEN DisputeRelease(src[h]) ELSE UNCHANGED ledgerVars
    /\ End(h)
    /\ UNCHANGED <<stripeVars, eventVars>>

\* An RPC or Stripe call throws without effect, or the process dies.
HookFails(h) ==
    /\ step[h] # "idle"
    /\ End(h)
    /\ UNCHANGED <<ledgerVars, stripeVars, eventVars>>

Bank ==
    \/ \E r \in Refund : RefundMade(r)
    \/ \E d \in Dispute : DisputeFiled(d) \/ DisputeDecided(d)

HookStep(h) ==
    \/ \E s \in Source : BeginClawback(h, s)
    \/ \E d \in Dispute : BeginHold(h, d)
    \/ PlaceDisputeHold(h) \/ ListEntries(h) \/ Reserve(h) \/ ReserveFinds(h)
    \/ ReverseTransfer(h) \/ Confirm(h) \/ FinishClawback(h)
    \/ \E e \in Entry : \/ SkipRow(h, e) \/ ApplyClawback(h, e) \/ ApplyRefused(h, e)
                        \/ PlanReversal(h, e) \/ PlanNothing(h, e)
=============================================================================
