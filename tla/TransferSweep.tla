---------------------------- MODULE TransferSweep ----------------------------
(***************************************************************************)
(* runTransferSweep and settleEntry: the processes that pay the ledger's   *)
(* entries.  Several sweeps may run at once (the cron job and the button of*)
(* the administrator); a sweep may stall at any point, lose its leases, and*)
(* crash.  The Stripe call is outside every transaction and before the     *)
(* fenced write.  The rest of the program acts on the ledger between any   *)
(* two steps of a sweep.                                                   *)
(***************************************************************************)
EXTENDS StripeTransfers

CONSTANTS
    Sweep,
    AnswersGetLost  \* may a committed call of the store still look failed?

ASSUME AnswerAssumption == AnswersGetLost \in BOOLEAN

VARIABLES
    pc,         \* where a sweep is
    cur,        \* the entry of its Stripe or failed call, 0 if none
    todo,       \* claimed entries it has not settled yet
    manual,     \* those of todo it claimed on the manual rail
    left,       \* amountCents the claim returned for an entry
    debt,       \* runningDebtCents, seeded from the claim's snapshot
    token       \* claimedAt, the lease of its claim

sweepVars == <<pc, cur, todo, manual, left, debt, token>>
allVars   == <<ledgerVars, stripeVars, sweepVars>>

SweepTypeOK ==
    /\ pc \in [Sweep -> {"idle", "reclaim", "claim", "settle", "record", "fail"}]
    /\ cur \in [Sweep -> Entry \cup {0}]
    /\ todo \in [Sweep -> SUBSET Entry]
    /\ manual \in [Sweep -> SUBSET Entry]
    /\ left \in [Sweep -> [Entry -> Nat]]
    /\ debt \in [Sweep -> [Teacher -> Nat]]
    /\ token \in [Sweep -> Nat]

SweepInit ==
    /\ pc = [p \in Sweep |-> "idle"]
    /\ cur = [p \in Sweep |-> 0]
    /\ todo = [p \in Sweep |-> {}]
    /\ manual = [p \in Sweep |-> {}]
    /\ left = [p \in Sweep |-> [e \in Entry |-> 0]]
    /\ debt = [p \in Sweep |-> [t \in Teacher |-> 0]]
    /\ token = [p \in Sweep |-> 0]

-----------------------------------------------------------------------------
(* netEarningAgainstDebt                                                   *)

Cut(p, e) == Capped(left[p][e], debt[p][TeacherOf[e]])

Pay(p, e) == left[p][e] - Cut(p, e)

ClosesAsDebtRecovered(p, e) == Pay(p, e) = 0 /\ Cut(p, e) > 0

Owns(p, e) == Fenced(e, token[p])

SweepAt(p, label) == pc' = [pc EXCEPT ![p] = label]

\* The sweep is done with entry e; its locals go when the run ends.
Proceed(p, e, balance) ==
    LET rest == todo[p] \ {e}
    IN  /\ SweepAt(p, IF rest = {} THEN "idle" ELSE "settle")
        /\ cur' = [cur EXCEPT ![p] = 0]
        /\ todo' = [todo EXCEPT ![p] = rest]
        /\ manual' = [manual EXCEPT ![p] = @ \ {e}]
        /\ left' = [left EXCEPT ![p][e] = 0]
        /\ debt' = [debt EXCEPT ![p] = IF rest = {} THEN [t \in Teacher |-> 0] ELSE balance]
        /\ token' = [token EXCEPT ![p] = IF rest = {} THEN 0 ELSE @]

\* failed or abandoned: no recovery was written
Unsettled(p, e) == Proceed(p, e, debt[p])

\* Mutant: the running balance does not drop.
Settled_Unchanged(p, e) == Proceed(p, e, debt[p])

\* runningDebtCents.set, after the recovery is committed
Settled(p, e) == Proceed(p, e, [debt[p] EXCEPT ![TeacherOf[e]] = @ - Cut(p, e)])

-----------------------------------------------------------------------------
\* Step 0; a materialization that fails does not stop the run.
StartRun(p) ==
    /\ pc[p] = "idle"
    /\ Materialize \/ UNCHANGED ledgerVars
    /\ SweepAt(p, "reclaim")
    /\ UNCHANGED <<stripeVars, cur, todo, manual, left, debt, token>>

\* Step 6
ReclaimLeases(p) ==
    /\ pc[p] = "reclaim"
    /\ ReclaimLapsed
    /\ SweepAt(p, "claim")
    /\ UNCHANGED <<stripeVars, cur, todo, manual, left, debt, token>>

\* Step 1: the lease, the remaining value, the rail and the debt snapshot
ClaimEntries(p) ==
    LET batch == {e \in Entry : Claimable(e)}
    IN  /\ pc[p] = "claim"
        /\ Claim
        /\ SweepAt(p, "settle")
        /\ todo' = [todo EXCEPT ![p] = batch]
        /\ manual' = [manual EXCEPT ![p] = {e \in batch : method[TeacherOf[e]] = "manual"}]
        /\ left' = [left EXCEPT ![p] = [e \in Entry |-> IF e \in batch THEN Left(e) ELSE 0]]
        /\ debt' = [debt EXCEPT ![p] = [t \in Teacher |-> Debt(t)]]
        /\ token' = [token EXCEPT ![p] = clock + 1]
        /\ UNCHANGED <<stripeVars, cur>>

ClaimNothing(p) ==
    /\ pc[p] = "claim"
    /\ \A e \in Entry : ~Claimable(e)
    /\ SweepAt(p, "idle")
    /\ UNCHANGED <<ledgerVars, stripeVars, cur, todo, manual, left, debt, token>>

GoesToStripe(p, e) ==
    /\ pc[p] = "settle" /\ e \in todo[p] \ manual[p]
    /\ ~ClosesAsDebtRecovered(p, e)

\* Step 3: Stripe answers with the Transfer
TransferCreated(p, e) ==
    /\ GoesToStripe(p, e)
    /\ CreateTransfer(e, Pay(p, e))
    /\ cur' = [cur EXCEPT ![p] = e]
    /\ SweepAt(p, "record")
    /\ UNCHANGED <<ledgerVars, todo, manual, left, debt, token>>

\* Step 3: the call throws.  Stripe refused it, or never saw it, or created
\* the Transfer and only the answer was lost.
TransferThrows(p, e) ==
    /\ GoesToStripe(p, e)
    /\ CreateTransfer(e, Pay(p, e)) \/ UNCHANGED stripeVars
    /\ cur' = [cur EXCEPT ![p] = e]
    /\ SweepAt(p, "fail")
    /\ UNCHANGED <<ledgerVars, todo, manual, left, debt, token>>

\* The earning is consumed by debt: no settlement on either rail.
WritesDebt(p, e) ==
    /\ pc[p] = "settle" /\ e \in todo[p]
    /\ ClosesAsDebtRecovered(p, e)
    /\ RecordDebtRecovered(e, token[p], Cut(p, e))

\* Step 2b: the manual rail
WritesManual(p, e) ==
    /\ pc[p] = "settle" /\ e \in todo[p] \cap manual[p]
    /\ ~ClosesAsDebtRecovered(p, e)
    /\ RecordManualDue(e, token[p], Cut(p, e))

\* Mutant: the row carries the earning before the netting.
WritesPaid_Gross(p, e) ==
    /\ pc[p] = "record" /\ e = cur[p]
    /\ RecordTransferSucceeded(e, token[p], left[p][e], Cut(p, e))

\* Step 4: the row of the Transfer that Stripe answered with
WritesPaid(p, e) ==
    /\ pc[p] = "record" /\ e = cur[p]
    /\ RecordTransferSucceeded(e, token[p], Pay(p, e), Cut(p, e))

Writes(p, e) == WritesDebt(p, e) \/ WritesManual(p, e) \/ WritesPaid(p, e)

Settle(p, e) ==
    /\ Writes(p, e)
    /\ Settled(p, e)
    /\ UNCHANGED stripeVars

\* The write is committed, but to the sweep the call of the store throws: the
\* running balance keeps the debt that was just recovered.
AnswerLost(p, e) ==
    /\ AnswersGetLost
    /\ Writes(p, e)
    /\ cur' = [cur EXCEPT ![p] = e]
    /\ SweepAt(p, "fail")
    /\ UNCHANGED <<stripeVars, todo, manual, left, debt, token>>

\* A call of the store throws and nothing was committed.
StoreThrows(p, e) ==
    /\ \/ pc[p] = "settle" /\ e \in todo[p] /\ (ClosesAsDebtRecovered(p, e) \/ e \in manual[p])
       \/ pc[p] = "record" /\ e = cur[p]
    /\ cur' = [cur EXCEPT ![p] = e]
    /\ SweepAt(p, "fail")
    /\ UNCHANGED <<ledgerVars, stripeVars, todo, manual, left, debt, token>>

\* Step 5
RecordFailed(p) ==
    LET e == cur[p]
    IN  /\ pc[p] = "fail"
        /\ RecordTransferFailed(e, token[p])
        /\ Unsettled(p, e)
        /\ UNCHANGED stripeVars

\* A fenced write that hits no row, or a failure that could not be recorded:
\* the entry is abandoned to whoever owns its lease, or to the lease's end.
Abandon(p, e) ==
    /\ \/ pc[p] = "settle" /\ ~Owns(p, e) /\ (ClosesAsDebtRecovered(p, e) \/ e \in manual[p])
       \/ pc[p] = "record" /\ ~Owns(p, e) /\ e = cur[p]
       \/ pc[p] = "fail" /\ e = cur[p]
    /\ e \in todo[p]
    /\ Unsettled(p, e)
    /\ UNCHANGED <<ledgerVars, stripeVars>>

\* The process dies and its locals with it; the leases stay.
Crash(p) ==
    /\ pc[p] # "idle"
    /\ SweepAt(p, "idle")
    /\ cur' = [cur EXCEPT ![p] = 0]
    /\ todo' = [todo EXCEPT ![p] = {}]
    /\ manual' = [manual EXCEPT ![p] = {}]
    /\ left' = [left EXCEPT ![p] = [e \in Entry |-> 0]]
    /\ debt' = [debt EXCEPT ![p] = [t \in Teacher |-> 0]]
    /\ token' = [token EXCEPT ![p] = 0]
    /\ UNCHANGED <<ledgerVars, stripeVars>>

SweepStep(p) ==
    \/ StartRun(p) \/ ReclaimLeases(p) \/ ClaimEntries(p) \/ ClaimNothing(p)
    \/ RecordFailed(p)
    \/ \E e \in Entry : \/ Settle(p, e) \/ AnswerLost(p, e)
                        \/ TransferCreated(p, e) \/ TransferThrows(p, e)
                        \/ StoreThrows(p, e) \/ Abandon(p, e)

\* Everything else that touches the ledger while sweeps run; the handlers of the
\* webhooks materialize first, as a sweep does.
Surroundings ==
    /\ World \/ Consent \/ Admin \/ Materialize \/ WebhookFunctions
    /\ UNCHANGED <<stripeVars, sweepVars>>

SweepNext == Surroundings \/ \E p \in Sweep : SweepStep(p) \/ Crash(p)

AllInit == Init /\ StripeInit /\ SweepInit

SweepSpec == AllInit /\ [][SweepNext]_allVars

-----------------------------------------------------------------------------
\* Value conservation under fencing: an entry that closes has paid out its
\* whole worth, in cash and recovered debt, and not a cent more.  It rests on
\* the amount a sweep claimed staying current for as long as its lease does,
\* through stalls, stolen leases, re-routed rails and manual settlements.
SettledInFull ==
    \A e \in Entry :
        /\ status[e] = "transferred" => xfer[e] + recovered[e] = Amount[e]
        /\ status[e] = "debt_recovered" => recovered[e] = Amount[e]

\* The transfer row is what Stripe sent, although another sweep than the one
\* that wrote it may have made the call.
RowIsWhatStripeSent == \A e \in Entry : xfer[e] # 0 => sent[e] = xfer[e]

\* What a live lease protects: nobody else changes the remaining value.
LeaseKeepsClaim ==
    \A p \in Sweep : \A e \in todo[p] : Owns(p, e) => left[p][e] = Left(e)

\* The debt of a teacher is never recovered beyond what was clawed back: the
\* running balance of one sweep nets siblings against what is still owed.  It
\* holds of a sweep that runs alone on the Stripe rail and gets its answers; what
\* holds without these conditions is OverRecoveryIsStale.
NoOverRecovery == \A t \in Teacher : owed[t] >= 0

\* A sweep would net against more than the teacher still owes.
Stale(p, t) == debt[p][t] > Debt(t)

Acts(p) == pc'[p] # pc[p] \/ todo'[p] # todo[p]

\* Whose fault an over-recovery is, on both rails, with any number of sweeps and
\* with answers lost.  Only a sweep whose running balance is stale takes more off a
\* teacher's debt than is owed, never a manual settlement; and a balance goes
\* stale by a recovery alone: of another sweep or of a manual settlement, or one
\* of its own that was committed and whose answer it did not get.
OverRecoveryIsStale ==
    [][\A t \in Teacher :
          /\ owed'[t] < owed[t] /\ owed'[t] < 0 => \E p \in Sweep : Acts(p) /\ Stale(p, t)
          /\ \A p \in Sweep : ~Stale(p, t) /\ Stale(p, t)' =>
                /\ owed'[t] < owed[t]
                /\ Acts(p) => pc'[p] = "fail"]_allVars
=============================================================================
