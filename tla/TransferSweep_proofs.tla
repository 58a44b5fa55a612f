------------------------ MODULE TransferSweep_proofs ------------------------
(***************************************************************************)
(* For any number of sweeps, entries and teachers: every step of a sweep   *)
(* is a step of the ledger, a lease keeps what its sweep claimed current,  *)
(* an entry that settles has been paid and netted to its full worth, and   *)
(* nobody but a sweep with a stale balance recovers more than is owed.     *)
(***************************************************************************)
EXTENDS TransferSweep, ConnectLedgerSums_proofs

\* Claims are numbered, and no sweep holds a token from the future.
LeaseOrder ==
    /\ \A p \in Sweep : token[p] <= clock
    /\ \A e \in Entry : status[e] = "processing" => lease[e] \in 1..clock

ClaimBound == \A p \in Sweep, e \in Entry : left[p][e] <= Amount[e]

\* The entry of a call in flight is still to be settled.
CallInFlight == \A p \in Sweep : pc[p] \in {"record", "fail"} => cur[p] \in todo[p]

SweepInv ==
    /\ TypeOK /\ SweepTypeOK /\ StripeTypeOK
    /\ LeaseOrder /\ ClaimBound /\ CallInFlight
    /\ LeaseKeepsClaim /\ SettledInFull

-----------------------------------------------------------------------------
(* What a step of the ledger does to a leased entry.                       *)

\* An entry that is leased after a step either kept its lease and the debt it has
\* recovered, or was leased anew by a claim.
LEMMA LeaseStep ==
    ASSUME TypeOK, NEW x \in Entry, [LedgerNext]_ledgerVars, status'[x] = "processing"
    PROVE  \/ /\ status[x] = "processing"
              /\ lease'[x] = lease[x]
              /\ recovered'[x] = recovered[x]
           \/ clock' = clock + 1 /\ lease'[x] = clock + 1
<1> DEFINE Kept ==
       \/ status[x] = "processing" /\ lease'[x] = lease[x] /\ recovered'[x] = recovered[x]
       \/ clock' = clock + 1 /\ lease'[x] = clock + 1
<1> USE DEF claimVars, retryVars, debtVars, clawVars, teacherVars, consentVars, timeVars
<1>0. /\ status \in [Entry -> Status] /\ lease \in [Entry -> Nat]
      /\ recovered \in [Entry -> Nat]
    BY DEF TypeOK
<1>1. ASSUME NEW e \in Entry, Deliver(e)
      PROVE  Kept
    BY <1>0, <1>1 DEF Deliver
<1>2. ASSUME NEW e \in Entry, Mature(e)
      PROVE  Kept
    BY <1>0, <1>2 DEF Mature
<1>3. ASSUME NEW e \in Entry, BackoffEnds(e)
      PROVE  Kept
    BY <1>0, <1>3 DEF BackoffEnds
<1>4. CASE LeaseLapses
    BY <1>0, <1>4 DEF LeaseLapses
<1>5. ASSUME NEW v \in Version, PublishAgreement(v)
      PROVE  Kept
    BY <1>0, <1>5 DEF PublishAgreement
<1>6. ASSUME NEW t \in Teacher, SetPayoutsEnabled(t)
      PROVE  Kept
    BY <1>0, <1>6 DEF SetPayoutsEnabled
<1>7. CASE Materialize
    BY <1>0, <1>7 DEF Materialize, HeldFor, Consented
<1>8. ASSUME NEW t \in Teacher, AcceptAgreement(t)
      PROVE  Kept
    BY <1>0, <1>8 DEF AcceptAgreement, HeldFor, Release, EntriesOf, Consented
<1>9. CASE ReclaimLapsed
    BY <1>0, <1>9 DEF ReclaimLapsed
<1>10. CASE Claim
    BY <1>0, <1>10 DEF Claim, Claimable
<1>11. ASSUME NEW e \in Entry, NEW at \in 1..clock, RecordTransferFailed(e, at)
      PROVE  Kept
    BY <1>0, <1>11 DEF RecordTransferFailed, Fenced, Parks
<1>12. ASSUME NEW e \in Entry, NEW at \in 1..clock, NEW cut \in 0..Amount[e], RecordDebtRecovered(e, at, cut)
      PROVE  Kept
    BY <1>0, <1>12 DEF RecordDebtRecovered, Fenced, WriteDebtRecovery
<1>13. ASSUME NEW e \in Entry, NEW at \in 1..clock, NEW cut \in 0..Amount[e], RecordManualDue(e, at, cut)
      PROVE  Kept
    BY <1>0, <1>13 DEF RecordManualDue, Fenced, WriteDebtRecovery
<1>14. ASSUME NEW e \in Entry, NEW at \in 1..clock, NEW cut \in 0..Amount[e],
             NEW cents \in 1..Amount[e], RecordTransferSucceeded(e, at, cents, cut)
      PROVE  Kept
    BY <1>0, <1>14 DEF RecordTransferSucceeded, Fenced, WriteDebtRecovery
<1>15. ASSUME NEW e \in Entry, RequeueFailed(e)
      PROVE  Kept
    BY <1>0, <1>15 DEF RequeueFailed, HeldFor, Release
<1>16. ASSUME NEW e \in Entry, SettleManualDue(e)
      PROVE  Kept
    BY <1>0, <1>16 DEF SettleManualDue, WriteDebtRecovery
<1>17. ASSUME NEW t \in Teacher, NEW rail \in Rail, SetPayoutMethod(t, rail)
      PROVE  Kept
    BY <1>0, <1>17 DEF SetPayoutMethod, Rerouted, EntriesOf
<1>18. ASSUME NEW t \in Teacher, NEW h \in AdminHold, PlaceHold(t, h)
      PROVE  Kept
    BY <1>0, <1>18 DEF PlaceHold
<1>19. ASSUME NEW t \in Teacher, NEW h \in Lifted, LiftHold(t, h)
      PROVE  Kept
    BY <1>0, <1>19 DEF LiftHold
<1>20. ASSUME NEW d \in Dispute, DisputeHold(d)
      PROVE  Kept
    BY <1>0, <1>20 DEF DisputeHold
<1>21. ASSUME NEW d \in Dispute, DisputeRelease(d)
      PROVE  Kept
    BY <1>0, <1>21 DEF DisputeRelease, HeldFor, Release
<1>22. ASSUME NEW e \in Entry, NEW s \in Source, ConfirmReversal(e, s)
      PROVE  Kept
    BY <1>0, <1>22 DEF ConfirmReversal
<1>23. ASSUME NEW e \in Entry, NEW s \in Source, NEW cents \in 1..Amount[e], VoidClean(e, s, cents)
      PROVE  Kept
    BY <1>0, <1>23 DEF VoidClean, TakesWhole, RoutesToReversal
<1>24. ASSUME NEW e \in Entry, NEW s \in Source, NEW cents \in 1..Amount[e], RecordClawback(e, s, cents)
      PROVE  Kept
    BY <1>0, <1>24 DEF RecordClawback, WriteClawback
<1>25. ASSUME NEW e \in Entry, NEW s \in Source, NEW rev \in 0..Amount[e],
             NEW short \in 0..Amount[e], ReserveReversal(e, s, rev, short)
      PROVE  Kept
    BY <1>0, <1>25 DEF ReserveReversal, WriteClawback
<1>26. CASE UNCHANGED ledgerVars
    BY <1>26 DEF ledgerVars
<1> QED
    BY <1>1, <1>2, <1>3, <1>4, <1>5, <1>6, <1>7, <1>8, <1>9, <1>10, <1>11, <1>12, <1>13,
       <1>14, <1>15, <1>16, <1>17, <1>18, <1>19, <1>20, <1>21, <1>22, <1>23, <1>24, <1>25, <1>26
    DEF LedgerNext, World, Consent, Admin, SweepFunctions, WebhookFunctions

\* The number of claims never goes down.
LEMMA ClockStep ==
    ASSUME TypeOK, [LedgerNext]_ledgerVars
    PROVE  clock' \in Nat /\ clock <= clock'
<1> USE DEF ledgerVars, claimVars, retryVars, debtVars, clawVars, teacherVars, consentVars, timeVars
<1>0. clock \in Nat
    BY DEF TypeOK
<1>1. CASE Claim
    BY <1>0, <1>1 DEF Claim
<1>2. World \/ Consent \/ Admin => UNCHANGED clock
    BY DEF World, Consent, Admin, Deliver, Mature, BackoffEnds, LeaseLapses, PublishAgreement,
           SetPayoutsEnabled, AcceptAgreement, RequeueFailed, SettleManualDue, SetPayoutMethod,
           PlaceHold, LiftHold
<1>3. ASSUME NEW e \in Entry, NEW s \in Source, NEW a, NEW b,
             \/ ConfirmReversal(e, s) \/ VoidClean(e, s, a) \/ RecordClawback(e, s, a)
             \/ ReserveReversal(e, s, a, b)
      PROVE  UNCHANGED clock
    BY <1>3 DEF ConfirmReversal, VoidClean, RecordClawback, ReserveReversal
<1>4. ASSUME NEW d \in Dispute, DisputeHold(d) \/ DisputeRelease(d)
      PROVE  UNCHANGED clock
    BY <1>4 DEF DisputeHold, DisputeRelease
<1>5. Materialize \/ ReclaimLapsed => UNCHANGED clock
    BY DEF Materialize, ReclaimLapsed
<1>6. ASSUME NEW e \in Entry, NEW at, NEW cents, NEW cut,
             \/ RecordTransferFailed(e, at) \/ RecordDebtRecovered(e, at, cut)
             \/ RecordManualDue(e, at, cut) \/ RecordTransferSucceeded(e, at, cents, cut)
      PROVE  UNCHANGED clock
    BY <1>6 DEF RecordTransferFailed, RecordDebtRecovered, RecordManualDue, RecordTransferSucceeded
<1>7. WebhookFunctions => UNCHANGED clock
    BY <1>3, <1>4 DEF WebhookFunctions
<1>8. SweepFunctions => Claim \/ UNCHANGED clock
    BY <1>5, <1>6 DEF SweepFunctions
<1>9. [LedgerNext]_ledgerVars => Claim \/ UNCHANGED clock
    BY <1>2, <1>7, <1>8 DEF LedgerNext
<1> QED
    BY <1>0, <1>1, <1>9

-----------------------------------------------------------------------------
(* The steps of a sweep.                                                   *)

\* netEarningAgainstDebt splits the remaining value, with nothing negative.
LEMMA Netting ==
    ASSUME SweepTypeOK, NEW p \in Sweep, NEW e \in Entry
    PROVE  /\ Cut(p, e) \in Nat /\ Pay(p, e) \in Nat
           /\ Cut(p, e) + Pay(p, e) = left[p][e]
           /\ TeacherOf[e] \in Teacher
           /\ Cut(p, e) <= debt[p][TeacherOf[e]]
<1>1. left[p][e] \in Nat /\ TeacherOf[e] \in Teacher
    BY OwnerAssumption DEF SweepTypeOK
<1>2. debt[p][TeacherOf[e]] \in Nat
    BY <1>1 DEF SweepTypeOK
<1> QED
    BY <1>1, <1>2 DEF Cut, Pay, Capped

\* A fenced write of a sweep is one of the ledger's: its arguments are in range.
LEMMA SweepCalls ==
    ASSUME TypeOK, SweepTypeOK, LeaseOrder, ClaimBound, CallInFlight,
           NEW p \in Sweep, SweepStep(p) \/ Crash(p)
    PROVE  SweepFunctions \/ UNCHANGED ledgerVars
<1>1. ASSUME NEW e \in Entry, Fenced(e, token[p])
      PROVE  token[p] \in 1..clock
    BY <1>1 DEF Fenced, LeaseOrder
<1>2. ASSUME NEW e \in Entry
      PROVE  /\ Cut(p, e) \in 0..Amount[e]
             /\ Pay(p, e) > 0 => Pay(p, e) \in 1..Amount[e]
    <2>1. left[p][e] \in Nat /\ left[p][e] <= Amount[e] /\ Amount[e] \in Nat
        BY AmountAssumption DEF SweepTypeOK, ClaimBound
    <2> QED
        BY <2>1, Netting
<1>3. CASE StartRun(p)
    BY <1>3 DEF StartRun, SweepFunctions
<1>4. CASE ReclaimLeases(p)
    BY <1>4 DEF ReclaimLeases, SweepFunctions
<1>5. CASE ClaimEntries(p)
    BY <1>5 DEF ClaimEntries, SweepFunctions
<1>6. CASE ClaimNothing(p) \/ Crash(p)
    BY <1>6 DEF ClaimNothing, Crash
<1>7. ASSUME NEW e \in Entry, TransferCreated(p, e) \/ TransferThrows(p, e) \/ StoreThrows(p, e)
                              \/ Abandon(p, e)
      PROVE  UNCHANGED ledgerVars
    BY <1>7 DEF TransferCreated, TransferThrows, StoreThrows, Abandon
<1>8. ASSUME NEW e \in Entry, Settle(p, e) \/ AnswerLost(p, e)
      PROVE  SweepFunctions
    <2>1. CASE RecordDebtRecovered(e, token[p], Cut(p, e))
        <3>1. Fenced(e, token[p])
            BY <2>1 DEF RecordDebtRecovered
        <3> QED
            BY <1>1, <1>2, <2>1, <3>1 DEF SweepFunctions
    <2>2. CASE RecordManualDue(e, token[p], Cut(p, e))
        <3>1. Fenced(e, token[p])
            BY <2>2 DEF RecordManualDue
        <3> QED
            BY <1>1, <1>2, <2>2, <3>1 DEF SweepFunctions
    <2>3. CASE RecordTransferSucceeded(e, token[p], Pay(p, e), Cut(p, e))
        <3>1. Fenced(e, token[p]) /\ Pay(p, e) > 0
            BY <2>3 DEF RecordTransferSucceeded
        <3> QED
            BY <1>1, <1>2, <2>3, <3>1 DEF SweepFunctions
    <2> QED
        BY <1>8, <2>1, <2>2, <2>3
        DEF Settle, AnswerLost, Writes, WritesDebt, WritesManual, WritesPaid
<1>9. CASE RecordFailed(p)
    <2> DEFINE e == cur[p]
    <2>1. e \in Entry
        BY <1>9 DEF RecordFailed, CallInFlight, SweepTypeOK
    <2>2. RecordTransferFailed(e, token[p])
        BY <1>9 DEF RecordFailed
    <2>3. Fenced(e, token[p])
        BY <2>2 DEF RecordTransferFailed
    <2> HIDE DEF e
    <2> QED
        BY <1>1, <2>1, <2>2, <2>3 DEF SweepFunctions
<1> QED
    BY <1>3, <1>4, <1>5, <1>6, <1>7, <1>8, <1>9 DEF SweepStep

\* So every step of the sweeps and of what surrounds them is one of the ledger's.
LEMMA SweepImplements ==
    ASSUME TypeOK, SweepTypeOK, LeaseOrder, ClaimBound, CallInFlight, [SweepNext]_allVars
    PROVE  [LedgerNext]_ledgerVars
<1>1. CASE UNCHANGED allVars
    BY <1>1 DEF allVars
<1>2. CASE Surroundings
    BY <1>2 DEF Surroundings, LedgerNext, SweepFunctions
<1>3. ASSUME NEW p \in Sweep, SweepStep(p) \/ Crash(p)
      PROVE  [LedgerNext]_ledgerVars
    BY <1>3, SweepCalls DEF LedgerNext
<1> QED
    BY <1>1, <1>2, <1>3 DEF SweepNext

\* Between its claim and the end of its run a sweep only loses entries, and what
\* the claim told it of the others stays.
Keeps(p) ==
    /\ todo'[p] \subseteq todo[p]
    /\ todo'[p] # {} => token'[p] = token[p]
    /\ \A e \in todo'[p] : left'[p][e] = left[p][e]
    /\ \A e \in Entry : left'[p][e] \in {0, left[p][e]}
    /\ token'[p] \in {0, token[p]}
    /\ pc'[p] \in {"record", "fail"} => cur'[p] \in todo'[p]

\* Going on with the next entry leaves the other locals of a sweep alone.
LEMMA ProceedKeeps ==
    ASSUME SweepTypeOK, NEW p \in Sweep, NEW e \in Entry, NEW balance \in [Teacher -> Nat],
           Proceed(p, e, balance)
    PROVE  SweepTypeOK' /\ \A q \in Sweep : q = p \/ pc[q] \notin {"record", "fail"}
                                                  \/ cur[q] \in todo[q] => Keeps(q)
<1>1. SweepTypeOK'
    BY DEF SweepTypeOK, Proceed, SweepAt
<1>2. Keeps(p)
    BY DEF SweepTypeOK, Proceed, SweepAt, Keeps
<1>3. ASSUME NEW q \in Sweep, q # p, pc[q] \notin {"record", "fail"} \/ cur[q] \in todo[q]
      PROVE  Keeps(q)
    BY <1>3 DEF SweepTypeOK, Proceed, SweepAt, Keeps
<1> QED
    BY <1>1, <1>2, <1>3

\* The steps of the sweeps keep the types of their locals and of Stripe.
LEMMA LocalsTyped ==
    ASSUME TypeOK, SweepTypeOK, StripeTypeOK, CallInFlight, [SweepNext]_allVars
    PROVE  SweepTypeOK' /\ StripeTypeOK'
<1>1. CASE UNCHANGED allVars
    BY <1>1 DEF allVars, sweepVars, stripeVars, SweepTypeOK, StripeTypeOK
<1>2. CASE Surroundings
    BY <1>2 DEF Surroundings, sweepVars, stripeVars, SweepTypeOK, StripeTypeOK
<1>3. ASSUME NEW p \in Sweep, SweepStep(p) \/ Crash(p)
      PROVE  SweepTypeOK' /\ StripeTypeOK'
    <2>1. CASE StartRun(p)
        BY <2>1 DEF StartRun, SweepAt, stripeVars, SweepTypeOK, StripeTypeOK
    <2>2. CASE ReclaimLeases(p)
        BY <2>2 DEF ReclaimLeases, SweepAt, stripeVars, SweepTypeOK, StripeTypeOK
    <2>3. CASE ClaimEntries(p)
        <3>1. \A e \in Entry : Claimable(e) => Left(e) \in Nat
            BY AmountAssumption DEF TypeOK, Claimable, Left
        <3>2. \A t \in Teacher : Debt(t) \in Nat
            BY DEF TypeOK, Debt
        <3>3. clock + 1 \in Nat
            BY DEF TypeOK
        <3> HIDE DEF Left, Debt, Claimable
        <3> QED
            BY <2>3, <3>1, <3>2, <3>3 DEF ClaimEntries, SweepAt, stripeVars, SweepTypeOK, StripeTypeOK
    <2>4. CASE ClaimNothing(p)
        BY <2>4 DEF ClaimNothing, SweepAt, stripeVars, SweepTypeOK, StripeTypeOK
    <2>5. CASE Crash(p)
        BY <2>5 DEF Crash, SweepAt, stripeVars, SweepTypeOK, StripeTypeOK
    <2>6. ASSUME NEW e \in Entry, TransferCreated(p, e) \/ TransferThrows(p, e)
          PROVE  SweepTypeOK' /\ StripeTypeOK'
        <3>1. Pay(p, e) \in Nat
            BY Netting
        <3> HIDE DEF Pay
        <3>2. StripeTypeOK'
            BY <2>6, <3>1 DEF TransferCreated, TransferThrows, CreateTransfer, stripeVars, StripeTypeOK
        <3>3. SweepTypeOK'
            BY <2>6 DEF TransferCreated, TransferThrows, SweepAt, SweepTypeOK
        <3> QED
            BY <3>2, <3>3
    <2>7. ASSUME NEW e \in Entry, StoreThrows(p, e) \/ AnswerLost(p, e)
          PROVE  SweepTypeOK' /\ StripeTypeOK'
        BY <2>7 DEF StoreThrows, AnswerLost, SweepAt, stripeVars, SweepTypeOK, StripeTypeOK
    <2>8. ASSUME NEW e \in Entry, Settled(p, e) \/ Unsettled(p, e)
          PROVE  SweepTypeOK'
        <3>1. /\ debt[p] \in [Teacher -> Nat]
              /\ [debt[p] EXCEPT ![TeacherOf[e]] = @ - Cut(p, e)] \in [Teacher -> Nat]
            <4>1. debt[p] \in [Teacher -> Nat]
                BY DEF SweepTypeOK
            <4>2. debt[p][TeacherOf[e]] - Cut(p, e) \in Nat
                BY <4>1, Netting
            <4> QED
                BY <4>1, <4>2
        <3> QED
            BY <2>8, <3>1, ProceedKeeps DEF Settled, Unsettled
    <2>9. ASSUME NEW e \in Entry, Settle(p, e) \/ Abandon(p, e)
          PROVE  SweepTypeOK' /\ StripeTypeOK'
        BY <2>8, <2>9 DEF Settle, Abandon, stripeVars, StripeTypeOK
    <2>10. CASE RecordFailed(p)
        <3>1. cur[p] \in Entry
            BY <2>10 DEF RecordFailed, CallInFlight, SweepTypeOK
        <3> QED
            BY <2>8, <2>10, <3>1 DEF RecordFailed, stripeVars, StripeTypeOK
    <2> QED
        BY <1>3, <2>1, <2>2, <2>3, <2>4, <2>5, <2>6, <2>7, <2>9, <2>10 DEF SweepStep
<1> QED
    BY <1>1, <1>2, <1>3 DEF SweepNext

\* What a step does to the locals of a sweep: a claim sets them afresh, any other
\* step only drops entries from them.
LEMMA LocalStep ==
    ASSUME TypeOK, SweepTypeOK, CallInFlight, [SweepNext]_allVars, NEW q \in Sweep
    PROVE  Keeps(q) \/ ClaimEntries(q)
<1>0. pc[q] \notin {"record", "fail"} \/ cur[q] \in todo[q]
    BY DEF CallInFlight
<1>1. CASE UNCHANGED sweepVars
    BY <1>0, <1>1 DEF sweepVars, Keeps
<1>2. ASSUME NEW p \in Sweep, SweepStep(p) \/ Crash(p)
      PROVE  Keeps(q) \/ ClaimEntries(q)
    <2>1. CASE StartRun(p) \/ ReclaimLeases(p) \/ ClaimNothing(p)
        BY <1>0, <2>1 DEF StartRun, ReclaimLeases, ClaimNothing, SweepAt, SweepTypeOK, Keeps
    <2>2. CASE ClaimEntries(p)
        BY <1>0, <2>2 DEF ClaimEntries, SweepAt, SweepTypeOK, Keeps
    <2>3. CASE Crash(p)
        BY <1>0, <2>3 DEF Crash, SweepAt, SweepTypeOK, Keeps
    <2>4. ASSUME NEW e \in Entry, TransferCreated(p, e) \/ TransferThrows(p, e)
          PROVE  Keeps(q)
        BY <1>0, <2>4 DEF TransferCreated, TransferThrows, GoesToStripe, SweepAt, SweepTypeOK, Keeps
    <2>5. ASSUME NEW e \in Entry, StoreThrows(p, e) \/ AnswerLost(p, e)
          PROVE  Keeps(q)
        <3>1. e \in todo[p] /\ cur' = [cur EXCEPT ![p] = e]
            BY <2>5 DEF StoreThrows, AnswerLost, Writes, WritesDebt, WritesManual, WritesPaid,
                        CallInFlight
        <3> QED
            BY <1>0, <2>5, <3>1 DEF StoreThrows, AnswerLost, SweepAt, SweepTypeOK, Keeps
    <2>6. ASSUME NEW e \in Entry, Settled(p, e) \/ Unsettled(p, e)
          PROVE  Keeps(q)
        <3>1. /\ debt[p] \in [Teacher -> Nat]
              /\ [debt[p] EXCEPT ![TeacherOf[e]] = @ - Cut(p, e)] \in [Teacher -> Nat]
            <4>1. debt[p] \in [Teacher -> Nat]
                BY DEF SweepTypeOK
            <4>2. debt[p][TeacherOf[e]] - Cut(p, e) \in Nat
                BY <4>1, Netting
            <4> QED
                BY <4>1, <4>2
        <3>2. CASE Settled(p, e)
            BY <1>0, <3>1, <3>2, ProceedKeeps DEF Settled
        <3>3. CASE Unsettled(p, e)
            BY <1>0, <3>1, <3>3, ProceedKeeps DEF Unsettled
        <3> QED
            BY <2>6, <3>2, <3>3
    <2>7. ASSUME NEW e \in Entry, Settle(p, e) \/ Abandon(p, e)
          PROVE  Keeps(q)
        BY <2>6, <2>7 DEF Settle, Abandon
    <2>8. CASE RecordFailed(p)
        <3>1. cur[p] \in Entry
            BY <2>8 DEF RecordFailed, CallInFlight, SweepTypeOK
        <3> QED
            BY <2>6, <2>8, <3>1 DEF RecordFailed
    <2> QED
        BY <1>2, <2>1, <2>2, <2>3, <2>4, <2>5, <2>7, <2>8 DEF SweepStep
<1> QED
    BY <1>1, <1>2 DEF SweepNext, Surroundings, allVars

-----------------------------------------------------------------------------
(* The invariant, part by part.                                            *)

\* No lease and no token is newer than the last claim.
LEMMA LeaseOrderNext ==
    ASSUME SweepInv, [SweepNext]_allVars
    PROVE  LeaseOrder'
<1>0. TypeOK /\ SweepTypeOK /\ LeaseOrder /\ [LedgerNext]_ledgerVars
    BY SweepImplements DEF SweepInv
<1>1. clock \in Nat /\ clock' \in Nat /\ clock <= clock'
    BY <1>0, ClockStep DEF TypeOK
<1>2. ASSUME NEW p \in Sweep
      PROVE  token'[p] <= clock'
    <2>1. token[p] \in Nat /\ token[p] <= clock
        BY <1>0 DEF SweepTypeOK, LeaseOrder
    <2>2. CASE Keeps(p)
        BY <1>1, <2>1, <2>2 DEF Keeps
    <2>3. CASE ClaimEntries(p)
        BY <1>0, <1>1, <2>3 DEF ClaimEntries, Claim, SweepTypeOK
    <2> QED
        BY <1>0, <2>2, <2>3, LocalStep DEF SweepInv
<1>3. ASSUME NEW e \in Entry, status'[e] = "processing"
      PROVE  lease'[e] \in 1..clock'
    BY <1>0, <1>1, <1>3, LeaseStep DEF LeaseOrder, TypeOK
<1> QED
    BY <1>2, <1>3 DEF LeaseOrder

\* No claimed amount exceeds the earning, and the entry of a call in flight stays
\* among those still to settle.
LEMMA ClaimBoundNext ==
    ASSUME SweepInv, [SweepNext]_allVars
    PROVE  ClaimBound' /\ CallInFlight'
<1>0. TypeOK /\ SweepTypeOK /\ ClaimBound /\ CallInFlight
    BY DEF SweepInv
<1>1. ASSUME NEW p \in Sweep, NEW e \in Entry
      PROVE  left'[p][e] <= Amount[e] /\ (pc'[p] \in {"record", "fail"} => cur'[p] \in todo'[p])
    <2>1. left[p][e] \in Nat /\ left[p][e] <= Amount[e] /\ Amount[e] \in Nat
        BY <1>0, AmountAssumption DEF SweepTypeOK, ClaimBound
    <2>2. CASE Keeps(p)
        BY <2>1, <2>2 DEF Keeps
    <2>3. CASE ClaimEntries(p)
        <3>1. Left(e) <= Amount[e]
            BY <1>0, <2>1 DEF TypeOK, Left
        <3>2. left'[p][e] \in {0, Left(e)} /\ pc'[p] = "settle"
            BY <1>0, <2>3 DEF ClaimEntries, SweepAt, SweepTypeOK
        <3> QED
            BY <2>1, <3>1, <3>2
    <2> QED
        BY <1>0, <2>2, <2>3, LocalStep
<1>2. ASSUME NEW p \in Sweep
      PROVE  pc'[p] \in {"record", "fail"} => cur'[p] \in todo'[p]
    <2>1. CASE Keeps(p)
        BY <2>1 DEF Keeps
    <2>2. CASE ClaimEntries(p)
        BY <1>0, <2>2 DEF ClaimEntries, SweepAt, SweepTypeOK
    <2> QED
        BY <1>0, <2>1, <2>2, LocalStep
<1> QED
    BY <1>1, <1>2 DEF ClaimBound, CallInFlight

\* The amount a sweep claimed stays current while it owns the lease.
LEMMA LeaseKeepsClaimNext ==
    ASSUME SweepInv, [SweepNext]_allVars
    PROVE  LeaseKeepsClaim'
<1>0. TypeOK /\ SweepTypeOK /\ LeaseOrder /\ LeaseKeepsClaim /\ [LedgerNext]_ledgerVars
    BY SweepImplements DEF SweepInv
<1> SUFFICES ASSUME NEW p \in Sweep, NEW e \in todo'[p],
                    status'[e] = "processing", lease'[e] = token'[p]
             PROVE  left'[p][e] = Amount[e] - recovered'[e]
    BY DEF LeaseKeepsClaim, Owns, Fenced, Left
<1>1. SweepTypeOK'
    BY LocalsTyped DEF SweepInv
<1>2. e \in Entry
    BY <1>1 DEF SweepTypeOK
<1>3. CASE Keeps(p)
    <2>1. e \in todo[p] /\ token'[p] = token[p] /\ left'[p][e] = left[p][e]
        BY <1>3 DEF Keeps
    <2>2. token[p] <= clock /\ token[p] \in Nat /\ clock \in Nat
        BY <1>0 DEF LeaseOrder, SweepTypeOK, TypeOK
    <2>3. status[e] = "processing" /\ lease'[e] = lease[e] /\ recovered'[e] = recovered[e]
        BY <1>0, <1>2, <2>1, <2>2, LeaseStep
    <2> QED
        BY <1>0, <2>1, <2>3 DEF LeaseKeepsClaim, Owns, Fenced, Left
<1>4. CASE ClaimEntries(p)
    BY <1>0, <1>2, <1>4
    DEF ClaimEntries, Claim, SweepTypeOK, Left, debtVars
<1> QED
    BY <1>3, <1>4, LocalStep DEF SweepInv

\* What makes an entry 'transferred' or 'debt_recovered'.
LEMMA SettlingSteps ==
    ASSUME TypeOK, [SweepNext]_allVars, NEW x \in Entry,
           status[x] \notin {"transferred", "debt_recovered"}
    PROVE  \/ status'[x] \notin {"transferred", "debt_recovered"}
           \/ \E e \in Entry : SettleManualDue(e)
           \/ \E p \in Sweep, e \in Entry : WritesPaid(p, e) \/ WritesDebt(p, e)
<1> DEFINE Unpaid == status'[x] \notin {"transferred", "debt_recovered"}
<1> USE DEF claimVars, retryVars, debtVars, clawVars, teacherVars, consentVars, timeVars
<1>0. status \in [Entry -> Status]
    BY DEF TypeOK
<1>1. ASSUME NEW e \in Entry, Deliver(e)
      PROVE  Unpaid
    BY <1>0, <1>1 DEF Deliver
<1>2. ASSUME NEW e \in Entry, Mature(e)
      PROVE  Unpaid
    BY <1>0, <1>2 DEF Mature
<1>3. ASSUME NEW e \in Entry, BackoffEnds(e)
      PROVE  Unpaid
    BY <1>0, <1>3 DEF BackoffEnds
<1>4. CASE LeaseLapses
    BY <1>0, <1>4 DEF LeaseLapses
<1>5. ASSUME NEW v \in Version, PublishAgreement(v)
      PROVE  Unpaid
    BY <1>0, <1>5 DEF PublishAgreement
<1>6. ASSUME NEW t \in Teacher, SetPayoutsEnabled(t)
      PROVE  Unpaid
    BY <1>0, <1>6 DEF SetPayoutsEnabled
<1>7. ASSUME Materialize
      PROVE  Unpaid
    BY <1>0, <1>7 DEF Materialize, HeldFor, Consented
<1>8. ASSUME NEW t \in Teacher, AcceptAgreement(t)
      PROVE  Unpaid
    BY <1>0, <1>8 DEF AcceptAgreement, HeldFor, Release, EntriesOf, Consented
<1>9. ASSUME ReclaimLapsed
      PROVE  Unpaid
    BY <1>0, <1>9 DEF ReclaimLapsed
<1>10. ASSUME Claim
      PROVE  Unpaid
    BY <1>0, <1>10 DEF Claim, Claimable
<1>11. ASSUME NEW e, NEW at, RecordTransferFailed(e, at)
      PROVE  Unpaid
    BY <1>0, <1>11 DEF RecordTransferFailed, Fenced, Parks
<1>12. ASSUME NEW e, NEW at, NEW cut, RecordManualDue(e, at, cut)
      PROVE  Unpaid
    BY <1>0, <1>12 DEF RecordManualDue, Fenced
<1>13. ASSUME NEW e \in Entry, RequeueFailed(e)
      PROVE  Unpaid
    BY <1>0, <1>13 DEF RequeueFailed, HeldFor, Release
<1>14. ASSUME NEW t \in Teacher, NEW rail \in Rail, SetPayoutMethod(t, rail)
      PROVE  Unpaid
    BY <1>0, <1>14 DEF SetPayoutMethod, Rerouted, EntriesOf
<1>15. ASSUME NEW t \in Teacher, NEW h \in AdminHold, PlaceHold(t, h)
      PROVE  Unpaid
    BY <1>0, <1>15 DEF PlaceHold
<1>16. ASSUME NEW t \in Teacher, NEW h \in Lifted, LiftHold(t, h)
      PROVE  Unpaid
    BY <1>0, <1>16 DEF LiftHold
<1>17. ASSUME NEW d \in Dispute, DisputeHold(d)
      PROVE  Unpaid
    BY <1>0, <1>17 DEF DisputeHold
<1>18. ASSUME NEW d \in Dispute, DisputeRelease(d)
      PROVE  Unpaid
    BY <1>0, <1>18 DEF DisputeRelease, HeldFor, Release
<1>19. ASSUME NEW e \in Entry, NEW s \in Source, ConfirmReversal(e, s)
      PROVE  Unpaid
    BY <1>0, <1>19 DEF ConfirmReversal
<1>20. ASSUME NEW e \in Entry, NEW s \in Source, NEW cents \in 1..Amount[e], VoidClean(e, s, cents)
      PROVE  Unpaid
    BY <1>0, <1>20 DEF VoidClean, TakesWhole, RoutesToReversal
<1>21. ASSUME NEW e \in Entry, NEW s \in Source, NEW cents \in 1..Amount[e], RecordClawback(e, s, cents)
      PROVE  Unpaid
    BY <1>0, <1>21 DEF RecordClawback, WriteClawback
<1>22. ASSUME NEW e \in Entry, NEW s \in Source, NEW rev \in 0..Amount[e],
             NEW short \in 0..Amount[e], ReserveReversal(e, s, rev, short)
      PROVE  Unpaid
    BY <1>0, <1>22 DEF ReserveReversal, WriteClawback
<1>23. CASE UNCHANGED ledgerVars
    BY <1>23 DEF ledgerVars
<1>24. CASE Surroundings /\ \A e \in Entry : ~SettleManualDue(e)
    BY <1>1, <1>2, <1>3, <1>4, <1>5, <1>6, <1>7, <1>8, <1>13, <1>14, <1>15, <1>16, <1>17,
       <1>18, <1>19, <1>20, <1>21, <1>22, <1>24
    DEF Surroundings, World, Consent, Admin, WebhookFunctions
<1>25. ASSUME NEW p \in Sweep, SweepStep(p) \/ Crash(p),
             \A e \in Entry : ~WritesPaid(p, e) /\ ~WritesDebt(p, e)
      PROVE  Unpaid
    <2>1. CASE StartRun(p) \/ ReclaimLeases(p) \/ ClaimEntries(p)
        <3>1. Materialize \/ ReclaimLapsed \/ Claim \/ status' = status
            BY <2>1 DEF StartRun, ReclaimLeases, ClaimEntries, ledgerVars
        <3>2. CASE status' = status
            BY <3>2
        <3> QED
            BY <1>7, <1>9, <1>10, <3>1, <3>2
    <2>2. ASSUME \/ ClaimNothing(p) \/ Crash(p)
                 \/ \E e \in Entry : \/ TransferCreated(p, e) \/ TransferThrows(p, e)
                                     \/ StoreThrows(p, e) \/ Abandon(p, e)
          PROVE  Unpaid
        <3>1. status' = status
            BY <2>2 DEF ClaimNothing, Crash, TransferCreated, TransferThrows, StoreThrows,
                        Abandon, ledgerVars, claimVars
        <3> QED
            BY <3>1
    <2>3. CASE RecordFailed(p) \/ \E e \in Entry : WritesManual(p, e)
        BY <1>11, <1>12, <2>3 DEF RecordFailed, WritesManual
    <2> QED
        BY <1>25, <2>1, <2>2, <2>3 DEF SweepStep, Settle, AnswerLost, Writes
<1> QED
    BY <1>23, <1>24, <1>25 DEF SweepNext, allVars

\* An entry that closes is settled for its whole worth.
LEMMA SettledInFullNext ==
    ASSUME SweepInv, [SweepNext]_allVars
    PROVE  SettledInFull'
<1>0. /\ TypeOK /\ SweepTypeOK /\ CallInFlight /\ LeaseKeepsClaim /\ SettledInFull
      /\ [LedgerNext]_ledgerVars
    BY SweepImplements DEF SweepInv
<1>1. recovered \in [Entry -> Nat] /\ status \in [Entry -> Status] /\ xfer \in [Entry -> Nat]
    BY <1>0 DEF TypeOK
<1> SUFFICES ASSUME NEW x \in Entry
             PROVE  /\ status'[x] = "transferred" => xfer'[x] + recovered'[x] = Amount[x]
                    /\ status'[x] = "debt_recovered" => recovered'[x] = Amount[x]
    BY DEF SettledInFull
<1> DEFINE Full ==
       /\ status'[x] = "transferred" => xfer'[x] + recovered'[x] = Amount[x]
       /\ status'[x] = "debt_recovered" => recovered'[x] = Amount[x]
<1>2. CASE status[x] \in {"transferred", "debt_recovered"}
    <2>1. status'[x] = status[x] /\ xfer'[x] = xfer[x] /\ recovered'[x] = recovered[x]
        BY <1>0, <1>2, SettledStays DEF Terminal
    <2> QED
        BY <1>0, <2>1 DEF SettledInFull
<1>3. CASE status[x] \notin {"transferred", "debt_recovered"}
    <2>1. CASE status'[x] \notin {"transferred", "debt_recovered"}
        BY <2>1
    <2>2. ASSUME NEW p \in Sweep, NEW e \in todo[p], e \in Entry, Fenced(e, token[p])
          PROVE  /\ recovered[e] + Cut(p, e) + Pay(p, e) = Amount[e]
                 /\ Cut(p, e) \in Nat /\ Pay(p, e) \in Nat
        <3>1. left[p][e] = Amount[e] - recovered[e]
            BY <1>0, <2>2 DEF LeaseKeepsClaim, Owns, Left
        <3>2. Amount[e] \in Nat /\ recovered[e] \in Nat
            BY <1>1, <2>2, AmountAssumption
        <3> QED
            BY <1>0, <2>2, <3>1, <3>2, Netting
    <2>3. ASSUME NEW p \in Sweep, NEW e \in Entry, WritesDebt(p, e)
          PROVE  Full
        <3>1. /\ e \in todo[p] /\ Pay(p, e) = 0
              /\ RecordDebtRecovered(e, token[p], Cut(p, e))
            BY <2>3 DEF WritesDebt, ClosesAsDebtRecovered
        <3>2. Fenced(e, token[p])
            BY <3>1 DEF RecordDebtRecovered
        <3>3. recovered[e] + Cut(p, e) = Amount[e]
            BY <1>1, <2>2, <3>1, <3>2
        <3> QED
            BY <1>1, <1>3, <3>1, <3>3 DEF RecordDebtRecovered, WriteDebtRecovery
    <2>4. ASSUME NEW p \in Sweep, NEW e \in Entry, WritesPaid(p, e)
          PROVE  Full
        <3>1. /\ e \in todo[p]
              /\ RecordTransferSucceeded(e, token[p], Pay(p, e), Cut(p, e))
            BY <1>0, <2>4 DEF WritesPaid, CallInFlight
        <3>2. Fenced(e, token[p])
            BY <3>1 DEF RecordTransferSucceeded
        <3>3. /\ recovered[e] + Cut(p, e) + Pay(p, e) = Amount[e]
              /\ Cut(p, e) \in Nat /\ Pay(p, e) \in Nat
            BY <2>2, <3>1, <3>2
        <3> HIDE DEF Cut, Pay
        <3> QED
            BY <1>1, <1>3, <3>1, <3>3 DEF RecordTransferSucceeded, WriteDebtRecovery
    <2>5. ASSUME NEW e \in Entry, SettleManualDue(e)
          PROVE  Full
        <3>1. PICK cut \in 0..Left(e) :
                  /\ WriteDebtRecovery(e, cut)
                  /\ status' = [status EXCEPT ![e] = IF cut = Left(e) THEN "debt_recovered"
                                                     ELSE "manual_paid"]
            BY <2>5 DEF SettleManualDue
        <3>2. Amount[e] \in Nat
            BY AmountAssumption
        <3> QED
            BY <1>1, <1>3, <3>1, <3>2 DEF WriteDebtRecovery, Left
    <2>6. \/ status'[x] \notin {"transferred", "debt_recovered"}
          \/ \E e \in Entry : SettleManualDue(e)
          \/ \E p \in Sweep, e \in Entry : WritesPaid(p, e) \/ WritesDebt(p, e)
        BY <1>0, <1>1, <1>3, SettlingSteps
    <2> QED
        BY <2>1, <2>3, <2>4, <2>5, <2>6
<1> QED
    BY <1>2, <1>3

-----------------------------------------------------------------------------
(* The row and the Transfer.                                               *)

\* Every entry a sweep still has to settle was claimed with something left.
TodoHasWorth == \A p \in Sweep : \A e \in todo[p] : left[p][e] > 0

\* A sweep about to record a Transfer was answered with what it is to record.
AnsweredInFull ==
    \A p \in Sweep : pc[p] = "record" =>
        sent[cur[p]] = Pay(p, cur[p]) /\ Pay(p, cur[p]) > 0

RowInv == SweepInv /\ TodoHasWorth /\ AnsweredInFull /\ RowIsWhatStripeSent

\* Stripe never changes a Transfer, and a sweep creates none while it works on
\* anything but a claimed entry of the Stripe rail.
LEMMA SentStays ==
    ASSUME StripeTypeOK, [SweepNext]_allVars, NEW x \in Entry, sent[x] # 0
    PROVE  sent'[x] = sent[x]
<1>1. ASSUME NEW e \in Entry, NEW cents, CreateTransfer(e, cents)
      PROVE  sent'[x] = sent[x]
    BY <1>1 DEF CreateTransfer, StripeTypeOK
<1>2. ASSUME NEW p \in Sweep, NEW e \in Entry, TransferCreated(p, e) \/ TransferThrows(p, e)
      PROVE  sent'[x] = sent[x]
    BY <1>1, <1>2 DEF TransferCreated, TransferThrows, stripeVars
<1> QED
    BY <1>2
    DEF SweepNext, SweepStep, Crash, Surroundings, StartRun, ReclaimLeases, ClaimEntries,
        ClaimNothing, RecordFailed, Settle, AnswerLost, StoreThrows, Abandon, allVars, stripeVars

\* Only a sweep that was answered writes a transfer row.
LEMMA RowSteps ==
    ASSUME [SweepNext]_allVars
    PROVE  UNCHANGED xfer \/ \E p \in Sweep, e \in Entry : WritesPaid(p, e)
<1>1. Surroundings => UNCHANGED xfer
    <2>1. World \/ Consent => UNCHANGED xfer
        BY DEF World, Consent, Deliver, Mature, BackoffEnds, LeaseLapses, PublishAgreement,
               SetPayoutsEnabled, AcceptAgreement
    <2>2. Admin => UNCHANGED xfer
        BY DEF Admin, RequeueFailed, SettleManualDue, SetPayoutMethod, PlaceHold, LiftHold
    <2>3. WebhookFunctions => UNCHANGED xfer
        <3>1. ASSUME NEW d \in Dispute, DisputeHold(d) \/ DisputeRelease(d)
              PROVE  UNCHANGED xfer
            BY <3>1 DEF DisputeHold, DisputeRelease
        <3>2. ASSUME NEW e \in Entry, NEW s \in Source, NEW a, NEW b,
                     \/ ConfirmReversal(e, s) \/ VoidClean(e, s, a) \/ RecordClawback(e, s, a)
                     \/ ReserveReversal(e, s, a, b)
              PROVE  UNCHANGED xfer
            BY <3>2 DEF ConfirmReversal, VoidClean, RecordClawback, ReserveReversal
        <3> QED
            BY <3>1, <3>2 DEF WebhookFunctions
    <2>4. Materialize => UNCHANGED xfer
        BY DEF Materialize
    <2> QED
        BY <2>1, <2>2, <2>3, <2>4 DEF Surroundings
<1>2. ASSUME NEW p \in Sweep, SweepStep(p) \/ Crash(p),
             \A e \in Entry : ~WritesPaid(p, e)
      PROVE  UNCHANGED xfer
    BY <1>2
    DEF SweepStep, Crash, StartRun, ReclaimLeases, ClaimEntries, ClaimNothing, RecordFailed,
        Settle, AnswerLost, Writes, WritesDebt, WritesManual, TransferCreated, TransferThrows,
        StoreThrows, Abandon, Materialize, ReclaimLapsed, Claim, RecordTransferFailed,
        RecordDebtRecovered, RecordManualDue, ledgerVars
<1>3. UNCHANGED allVars => UNCHANGED xfer
    BY DEF allVars, ledgerVars
<1> QED
    BY <1>1, <1>2, <1>3 DEF SweepNext

\* A sweep is about to record a Transfer because it was just answered, or nothing
\* it would record has changed.
LEMMA AboutToRecord ==
    ASSUME SweepTypeOK, [SweepNext]_allVars, NEW q \in Sweep, pc'[q] = "record"
    PROVE  \/ \E e \in Entry : TransferCreated(q, e)
           \/ /\ pc[q] = "record" /\ cur'[q] = cur[q]
              /\ left'[q] = left[q] /\ debt'[q] = debt[q]
<1> DEFINE Same == /\ pc[q] = "record" /\ cur'[q] = cur[q]
                   /\ left'[q] = left[q] /\ debt'[q] = debt[q]
<1>1. UNCHANGED sweepVars => Same
    BY DEF sweepVars
<1>2. ASSUME NEW p \in Sweep, SweepStep(p) \/ Crash(p), p # q
      PROVE  Same
    BY <1>2
    DEF SweepStep, Crash, StartRun, ReclaimLeases, ClaimEntries, ClaimNothing, RecordFailed,
        Settle, AnswerLost, TransferCreated, TransferThrows, StoreThrows, Abandon,
        Settled, Unsettled, Proceed, SweepAt, SweepTypeOK
<1>3. ASSUME SweepStep(q) \/ Crash(q), \A e \in Entry : ~TransferCreated(q, e)
      PROVE  FALSE
    BY <1>3
    DEF SweepStep, Crash, StartRun, ReclaimLeases, ClaimEntries, ClaimNothing, RecordFailed,
        Settle, AnswerLost, TransferThrows, StoreThrows, Abandon,
        Settled, Unsettled, Proceed, SweepAt, SweepTypeOK
<1> QED
    BY <1>1, <1>2, <1>3 DEF SweepNext, Surroundings, allVars

\* RowInv is inductive.
LEMMA RowInvNext ==
    ASSUME RowInv, SweepInv', [SweepNext]_allVars
    PROVE  RowInv'
<1>0. TypeOK /\ SweepTypeOK /\ StripeTypeOK /\ CallInFlight
    BY DEF RowInv, SweepInv
<1>1. TodoHasWorth'
    <2> SUFFICES ASSUME NEW p \in Sweep, NEW e \in todo'[p] PROVE left'[p][e] > 0
        BY DEF TodoHasWorth
    <2>1. CASE Keeps(p)
        BY <2>1 DEF Keeps, RowInv, TodoHasWorth
    <2>2. CASE ClaimEntries(p)
        BY <1>0, <2>2 DEF ClaimEntries, Claimable, SweepTypeOK
    <2> QED
        BY <1>0, <2>1, <2>2, LocalStep
<1>2. AnsweredInFull'
    <2> SUFFICES ASSUME NEW q \in Sweep, pc'[q] = "record"
                 PROVE  sent'[cur'[q]] = Pay(q, cur[q])' /\ Pay(q, cur[q])' > 0
        BY DEF AnsweredInFull
    <2>1. CASE \E e \in Entry : TransferCreated(q, e)
        <3>1. PICK e \in Entry : TransferCreated(q, e)
            BY <2>1
        <3>2. /\ cur'[q] = e /\ left' = left /\ debt' = debt
              /\ sent'[e] = Pay(q, e)
              /\ e \in todo[q] /\ ~(Pay(q, e) = 0 /\ Cut(q, e) > 0)
            BY <1>0, <3>1
            DEF TransferCreated, CreateTransfer, GoesToStripe, ClosesAsDebtRecovered,
                SweepTypeOK, StripeTypeOK
        <3>3. left[q][e] > 0
            BY <3>2 DEF RowInv, TodoHasWorth
        <3>4. Pay(q, e) > 0
            BY <1>0, <3>2, <3>3, Netting
        <3>5. Pay(q, cur[q])' = Pay(q, e)
            BY <3>2 DEF Pay, Cut
        <3> QED
            BY <3>2, <3>4, <3>5
    <2>2. CASE /\ pc[q] = "record" /\ cur'[q] = cur[q]
               /\ left'[q] = left[q] /\ debt'[q] = debt[q]
        <3>1. Pay(q, cur[q])' = Pay(q, cur[q])
            BY <2>2 DEF Pay, Cut
        <3>2. sent[cur[q]] = Pay(q, cur[q]) /\ Pay(q, cur[q]) > 0
            BY <2>2 DEF RowInv, AnsweredInFull
        <3>3. cur[q] \in Entry
            BY <1>0, <2>2 DEF CallInFlight, SweepTypeOK
        <3>4. sent'[cur[q]] = sent[cur[q]]
            BY <1>0, <3>2, <3>3, SentStays
        <3> QED
            BY <2>2, <3>1, <3>2, <3>4
    <2> QED
        BY <1>0, <2>1, <2>2, AboutToRecord
<1>3. RowIsWhatStripeSent'
    <2> SUFFICES ASSUME NEW x \in Entry, xfer'[x] # 0 PROVE sent'[x] = xfer'[x]
        BY DEF RowIsWhatStripeSent
    <2>1. xfer[x] # 0 => sent'[x] = xfer[x]
        BY <1>0, SentStays DEF RowInv, RowIsWhatStripeSent
    <2>2. ASSUME NEW p \in Sweep, NEW e \in Entry, WritesPaid(p, e)
          PROVE  sent'[x] = xfer'[x]
        <3>1. sent[e] = Pay(p, e) /\ Pay(p, e) > 0
            BY <2>2 DEF WritesPaid, RowInv, AnsweredInFull
        <3>2. xfer' = [xfer EXCEPT ![e] = Pay(p, e)]
            BY <2>2 DEF WritesPaid, RecordTransferSucceeded
        <3>3. sent'[e] = Pay(p, e)
            BY <1>0, <3>1, SentStays
        <3> HIDE DEF Pay
        <3> QED
            BY <1>0, <2>1, <3>2, <3>3 DEF TypeOK
    <2> QED
        BY <2>1, <2>2, RowSteps
<1> QED
    BY <1>1, <1>2, <1>3 DEF RowInv

-----------------------------------------------------------------------------
(* The theorems.                                                           *)

\* Every step keeps the inductive invariant.
LEMMA SweepInvNext ==
    ASSUME SweepInv, [SweepNext]_allVars
    PROVE  SweepInv'
<1>1. TypeOK'
    BY SweepImplements, TypeOKNext DEF SweepInv
<1> QED
    BY <1>1, LocalsTyped, LeaseOrderNext, ClaimBoundNext, LeaseKeepsClaimNext,
       SettledInFullNext DEF SweepInv

\* The sweeps start with nothing claimed and nothing sent.
LEMMA RowInvInit == AllInit => RowInv
<1> SUFFICES ASSUME AllInit PROVE RowInv
    OBVIOUS
<1>1. SweepTypeOK /\ StripeTypeOK /\ TypeOK
    BY TypeOKInit DEF AllInit, SweepInit, StripeInit, SweepTypeOK, StripeTypeOK
<1>2. LeaseOrder /\ CallInFlight /\ LeaseKeepsClaim /\ SettledInFull
    BY DEF AllInit, Init, SweepInit, LeaseOrder, CallInFlight, LeaseKeepsClaim, SettledInFull
<1>3. ClaimBound
    BY AmountAssumption DEF AllInit, SweepInit, ClaimBound
<1>4. TodoHasWorth /\ AnsweredInFull /\ RowIsWhatStripeSent
    BY DEF AllInit, Init, SweepInit, TodoHasWorth, AnsweredInFull, RowIsWhatStripeSent
<1> QED
    BY <1>1, <1>2, <1>3, <1>4 DEF RowInv, SweepInv

\* The inductive invariant holds of every behaviour of the sweeps.
LEMMA SweepInductive == SweepSpec => []RowInv
<1>1. RowInv /\ [SweepNext]_allVars => RowInv'
    BY SweepInvNext, RowInvNext DEF RowInv
<1> QED
    BY <1>1, RowInvInit, PTL DEF SweepSpec

\* The sweeps, whatever their number, use the ledger only through its functions,
\* with arguments in range, so every theorem on LedgerSpec holds of them.
THEOREM SweepRefines == SweepSpec => LedgerSpec
<1>1. AllInit => Init
    BY DEF AllInit
<1>2. RowInv /\ [SweepNext]_allVars => [LedgerNext]_ledgerVars
    BY SweepImplements DEF RowInv, SweepInv
<1> QED
    BY <1>1, <1>2, SweepInductive, PTL DEF SweepSpec, LedgerSpec

\* The locals of the sweeps and the objects on Stripe keep their types: no
\* netting ever leaves a negative amount or balance.
THEOREM SweepTypes == SweepSpec => [](SweepTypeOK /\ StripeTypeOK)
<1>1. RowInv => SweepTypeOK /\ StripeTypeOK
    BY DEF RowInv, SweepInv
<1> QED
    BY <1>1, SweepInductive, PTL

\* The remaining value a sweep claimed stays current as long as its lease does.
THEOREM LeaseProtects == SweepSpec => []LeaseKeepsClaim
<1>1. RowInv => LeaseKeepsClaim
    BY DEF RowInv, SweepInv
<1> QED
    BY <1>1, SweepInductive, PTL

\* Concurrent, stalled and crashed sweeps never settle an entry for more or for
\* less than it is worth.
THEOREM SettlesInFull == SweepSpec => []SettledInFull
<1>1. RowInv => SettledInFull
    BY DEF RowInv, SweepInv
<1> QED
    BY <1>1, SweepInductive, PTL

\* Whichever of several sweeps wrote the row, it carries the cents of the
\* Transfer that exists under the entry's key.
THEOREM RowsMatchStripe == SweepSpec => []RowIsWhatStripeSent
<1>1. RowInv => RowIsWhatStripeSent
    BY DEF RowInv
<1> QED
    BY <1>1, SweepInductive, PTL
-----------------------------------------------------------------------------
(* Who may recover more than is owed.                                      *)

Blames ==
    \A t \in Teacher :
        /\ owed'[t] < owed[t] /\ owed'[t] < 0 => \E p \in Sweep : Acts(p) /\ Stale(p, t)
        /\ \A p \in Sweep : ~Stale(p, t) /\ Stale(p, t)' =>
              /\ owed'[t] < owed[t]
              /\ Acts(p) => pc'[p] = "fail"

\* A step that recovers nothing, and leaves or lowers the balances or takes them
\* from the claim's snapshot, makes none of them stale.
LEMMA RaisedBlamesNobody ==
    ASSUME TypeOK, SweepTypeOK,
           \A t \in Teacher : owed'[t] \in Int /\ owed'[t] >= owed[t],
           \A p \in Sweep, t \in Teacher :
               debt'[p][t] \in Nat /\ (debt'[p][t] <= debt[p][t] \/ debt'[p][t] <= Debt(t))
    PROVE  Blames
<1> SUFFICES ASSUME NEW t \in Teacher, NEW p \in Sweep, ~Stale(p, t) PROVE ~Stale(p, t)'
    BY DEF Blames, TypeOK
<1>1. owed[t] \in Int /\ debt[p][t] \in Nat
    BY DEF TypeOK, SweepTypeOK
<1> QED
    BY <1>1 DEF Stale, Debt

\* A manual settlement takes its share of the debt, which is no more than is
\* owed.  The balance of a sweep that has claimed may go stale by it.
LEMMA ManualBlamesNobody ==
    ASSUME TypeOK, SweepTypeOK, RecoveryCap, NEW e \in Entry, SettleManualDue(e),
           UNCHANGED sweepVars
    PROVE  Blames
<1> DEFINE k == TeacherOf[e]
<1>0. k \in Teacher
    BY OwnerAssumption
<1>1. PICK cut \in 0..Left(e) : cut = FifoShare(e) /\ WriteDebtRecovery(e, cut)
    BY DEF SettleManualDue
<1>2. cut \in Nat /\ cut <= Debt(k)
    <2>1. Debt(k) \in Nat /\ Left(e) \in Nat
        BY <1>0, QueueTyped
    <2> DEFINE older == SumFunctionOnSet([o \in Entry |-> Left(o)], OlderDue(e))
    <2>2. older \in Nat
        <3>1. OlderDue(e) \in SUBSET Queue(k) /\ Worth = [o \in Entry |-> Left(o)]
            BY DEF OlderDue, Queue, EntriesOf, Worth
        <3> QED
            BY <1>0, <3>1, QueueTyped
    <2>3. FifoShare(e) = IF Debt(k) - older > 0 THEN Capped(Debt(k) - older, Left(e)) ELSE 0
        BY DEF FifoShare
    <2> HIDE DEF older
    <2> QED
        BY <1>1, <2>1, <2>2, <2>3 DEF Capped
<1>3. /\ owed' = [owed EXCEPT ![k] = @ - cut]
      /\ UNCHANGED <<pc, todo, debt>>
    BY <1>1 DEF WriteDebtRecovery, sweepVars
<1> SUFFICES ASSUME NEW t \in Teacher
             PROVE  /\ owed'[t] < owed[t] => owed'[t] >= 0
                    /\ \A p \in Sweep : ~Stale(p, t) /\ Stale(p, t)' => owed'[t] < owed[t]
    BY <1>3 DEF Blames, Acts, TypeOK
<1>4. owed[t] \in Int /\ owed'[t] \in Int /\ (t # k => owed'[t] = owed[t])
          /\ (t = k => owed'[t] = owed[t] - cut)
    BY <1>0, <1>2, <1>3 DEF TypeOK
<1>5. owed'[t] < owed[t] => owed'[t] >= 0
    BY <1>2, <1>4 DEF Debt
<1>6. ASSUME NEW p \in Sweep, ~Stale(p, t), Stale(p, t)' PROVE owed'[t] < owed[t]
    <2>1. debt[p][t] \in Nat /\ debt'[p][t] = debt[p][t]
        BY <1>3 DEF SweepTypeOK
    <2> QED
        BY <1>4, <1>6, <2>1 DEF Stale, Debt
<1> QED
    BY <1>5, <1>6

\* What is not the record of a sweep or a manual settlement only raises debts.
Raises == \A t \in Teacher : owed'[t] \in Int /\ owed'[t] >= owed[t]

LEMMA WorldRaises ==
    ASSUME TypeOK, World \/ Consent \/ Materialize \/ ReclaimLapsed \/ Claim \/ UNCHANGED ledgerVars
    PROVE  Raises
<1> USE DEF debtVars
<1>1. UNCHANGED owed
    BY DEF World, Consent, Deliver, Mature, BackoffEnds, LeaseLapses, PublishAgreement,
           SetPayoutsEnabled, AcceptAgreement, Materialize, ReclaimLapsed, Claim, ledgerVars
<1> QED
    BY <1>1 DEF Raises, TypeOK

LEMMA AdminRaises ==
    ASSUME TypeOK, Admin, \A e \in Entry : ~SettleManualDue(e)
    PROVE  Raises
<1> USE DEF debtVars
<1>1. UNCHANGED owed
    BY DEF Admin, RequeueFailed, SetPayoutMethod, PlaceHold, LiftHold
<1> QED
    BY <1>1 DEF Raises, TypeOK

LEMMA WebhooksRaise ==
    ASSUME TypeOK, WebhookFunctions
    PROVE  Raises
<1> USE DEF debtVars
<1>1. ASSUME NEW e \in Entry, NEW s \in Source, NEW n \in Nat, WriteClawback(e, s, n)
      PROVE  Raises
    BY <1>1, OwnerAssumption DEF WriteClawback, Raises, TypeOK
<1>2. UNCHANGED owed => Raises
    BY DEF Raises, TypeOK
<1>3. ASSUME NEW d \in Dispute, DisputeHold(d) \/ DisputeRelease(d) PROVE Raises
    BY <1>2, <1>3 DEF DisputeHold, DisputeRelease
<1>4. ASSUME NEW e \in Entry, NEW s \in Source, ConfirmReversal(e, s) PROVE Raises
    BY <1>2, <1>4 DEF ConfirmReversal
<1>5. ASSUME NEW e \in Entry, NEW s \in Source, NEW cents, VoidClean(e, s, cents)
      PROVE  Raises
    BY <1>2, <1>5 DEF VoidClean
<1>6. ASSUME NEW e \in Entry, NEW s \in Source, NEW cents \in 1..Amount[e],
             RecordClawback(e, s, cents)
      PROVE  Raises
    <2>1. Capped(cents, Reclaimable(e)) \in Nat
        BY AmountAssumption DEF Capped, Reclaimable, TypeOK
    <2> QED
        BY <1>1, <1>6, <2>1 DEF RecordClawback
<1>7. ASSUME NEW e \in Entry, NEW s \in Source, NEW rev \in 0..Amount[e],
             NEW short \in 0..Amount[e], ReserveReversal(e, s, rev, short)
      PROVE  Raises
    <2>1. Reclaimable(e) \in Nat
        BY AmountAssumption DEF Reclaimable, TypeOK
    <2>2. Capped(short, Reclaimable(e) - Capped(rev, Reclaimable(e))) \in Nat
        BY <2>1, AmountAssumption DEF Capped
    <2> QED
        BY <1>1, <1>7, <2>2 DEF ReserveReversal
<1> QED
    BY <1>3, <1>4, <1>5, <1>6, <1>7 DEF WebhookFunctions

\* Around the sweeps nobody recovers but the manual settlement.
LEMMA SurroundingsBlame ==
    ASSUME TypeOK, SweepTypeOK, RecoveryCap, UNCHANGED sweepVars,
           World \/ Consent \/ Admin \/ Materialize \/ WebhookFunctions \/ UNCHANGED ledgerVars
    PROVE  Blames
<1>1. CASE \E e \in Entry : SettleManualDue(e)
    BY <1>1, ManualBlamesNobody
<1>2. CASE \A e \in Entry : ~SettleManualDue(e)
    <2>1. Raises
        BY <1>2, WorldRaises, AdminRaises, WebhooksRaise
    <2>2. \A p \in Sweep, t \in Teacher : debt'[p][t] \in Nat /\ debt'[p][t] <= debt[p][t]
        BY DEF SweepTypeOK, sweepVars
    <2> QED
        BY <2>1, <2>2, RaisedBlamesNobody DEF Raises
<1> QED
    BY <1>1, <1>2

\* A sweep that is done with an entry keeps the balance it goes on with, or
\* forgets it with the run.
LEMMA ProceedLowers ==
    ASSUME SweepTypeOK, NEW p \in Sweep, NEW e \in Entry,
           NEW balance \in [Teacher -> Nat], Proceed(p, e, balance)
    PROVE  \E d \in [Teacher -> Nat] :
               debt' = [debt EXCEPT ![p] = d] /\ \A t \in Teacher : d[t] <= balance[t]
<1>1. CASE todo[p] \ {e} = {}
    <2>1. debt' = [debt EXCEPT ![p] = [t \in Teacher |-> 0]]
        BY <1>1 DEF Proceed
    <2>2. PICK zero \in [Teacher -> Nat] : zero = [t \in Teacher |-> 0]
        OBVIOUS
    <2>3. \A t \in Teacher : zero[t] <= balance[t]
        BY <2>2
    <2> QED
        BY <2>1, <2>2, <2>3
<1>2. CASE todo[p] \ {e} # {}
    <2>1. debt' = [debt EXCEPT ![p] = balance]
        BY <1>2 DEF Proceed
    <2>2. \A t \in Teacher : balance[t] <= balance[t]
        OBVIOUS
    <2> QED
        BY <2>1, <2>2
<1> QED
    BY <1>1, <1>2

\* What a sweep records comes off the debt.  If its balance was not stale, that is
\* no more than is owed, and the balance drops with the debt unless the answer is
\* lost.  Another sweep's balance may go stale by it.
LEMMA WritesBlame ==
    ASSUME TypeOK, SweepTypeOK, NEW p \in Sweep, NEW e \in Entry, Settle(p, e) \/ AnswerLost(p, e)
    PROVE  Blames
<1> DEFINE n == Cut(p, e)
           k == TeacherOf[e]
<1>1. n \in Nat /\ n <= debt[p][k] /\ k \in Teacher
    BY Netting
<1>2. Writes(p, e) /\ owed' = [owed EXCEPT ![k] = @ - n]
    BY DEF Settle, AnswerLost, Writes, WritesDebt, WritesManual, WritesPaid,
           RecordDebtRecovered, RecordManualDue, RecordTransferSucceeded, WriteDebtRecovery
<1>3. Acts(p)
    <2>1. pc[p] \in {"settle", "record"} /\ (pc[p] = "settle" => e \in todo[p])
        BY <1>2 DEF Writes, WritesDebt, WritesManual, WritesPaid
    <2>2. CASE Settle(p, e)
        <3>1. pc'[p] \in {"idle", "settle"} /\ todo'[p] = todo[p] \ {e}
            BY <2>2 DEF Settle, Settled, Proceed, SweepAt, SweepTypeOK
        <3> QED
            BY <2>1, <3>1 DEF Acts
    <2>3. CASE AnswerLost(p, e)
        BY <2>1, <2>3 DEF AnswerLost, SweepAt, Acts, SweepTypeOK
    <2> QED
        BY <2>2, <2>3
<1>4. ASSUME NEW q \in Sweep, q # p
      PROVE  ~Acts(q) /\ \A t \in Teacher : debt'[q][t] = debt[q][t]
    BY <1>4 DEF Settle, Settled, Proceed, AnswerLost, SweepAt, Acts, SweepTypeOK
<1>5. \/ pc'[p] = "fail" /\ UNCHANGED debt
      \/ \A t \in Teacher : /\ debt'[p][t] \in Nat
                            /\ debt'[p][t] <= IF t = k THEN debt[p][t] - n ELSE debt[p][t]
    <2>1. CASE AnswerLost(p, e)
        BY <2>1 DEF AnswerLost, SweepAt, SweepTypeOK
    <2>2. CASE Settle(p, e)
        <3> DEFINE b == [debt[p] EXCEPT ![k] = @ - n]
        <3>1. Proceed(p, e, b)
            BY <2>2 DEF Settle, Settled
        <3> HIDE DEF n
        <3>2. b \in [Teacher -> Nat] /\ \A t \in Teacher : b[t] = IF t = k THEN debt[p][t] - n ELSE debt[p][t]
            BY <1>1 DEF SweepTypeOK
        <3> HIDE DEF b
        <3>3. PICK d \in [Teacher -> Nat] :
                  debt' = [debt EXCEPT ![p] = d] /\ \A t \in Teacher : d[t] <= b[t]
            BY <3>1, <3>2, ProceedLowers
        <3>4. debt'[p] = d
            BY <3>3 DEF SweepTypeOK
        <3>5. ASSUME NEW t \in Teacher
              PROVE  d[t] \in Nat /\ d[t] <= IF t = k THEN debt[p][t] - n ELSE debt[p][t]
            BY <3>2, <3>3
        <3> QED
            BY <3>4, <3>5
    <2> QED
        BY <2>1, <2>2
<1> HIDE DEF n
<1> SUFFICES ASSUME NEW t \in Teacher
             PROVE  /\ owed'[t] < owed[t] /\ owed'[t] < 0 => Stale(p, t)
                    /\ \A q \in Sweep : ~Stale(q, t) /\ Stale(q, t)' =>
                          /\ owed'[t] < owed[t]
                          /\ Acts(q) => pc'[q] = "fail"
    BY <1>3 DEF Blames
<1>6. owed[t] \in Int /\ owed'[t] \in Int /\ owed'[t] = IF t = k THEN owed[t] - n ELSE owed[t]
    BY <1>1, <1>2 DEF TypeOK
<1>7. debt[p][t] \in Nat
    BY DEF SweepTypeOK
<1>8. owed'[t] < owed[t] /\ owed'[t] < 0 => Stale(p, t)
    BY <1>1, <1>6, <1>7 DEF Stale, Debt
<1>9. ASSUME NEW q \in Sweep, ~Stale(q, t), Stale(q, t)', debt'[q][t] = debt[q][t]
      PROVE  owed'[t] < owed[t]
    BY <1>6, <1>9 DEF Stale, Debt, SweepTypeOK
<1>10. ASSUME ~Stale(p, t), Stale(p, t)' PROVE owed'[t] < owed[t] /\ pc'[p] = "fail"
    <2>1. CASE pc'[p] = "fail" /\ UNCHANGED debt
        BY <1>9, <1>10, <2>1
    <2>2. CASE debt'[p][t] \in Nat /\ debt'[p][t] <= IF t = k THEN debt[p][t] - n ELSE debt[p][t]
        BY <1>1, <1>6, <1>7, <1>10, <2>2 DEF Stale, Debt
    <2> QED
        BY <1>5, <2>1, <2>2
<1> QED
    BY <1>4, <1>8, <1>9, <1>10

\* Every step of a sweep but those records leaves the debts, or claims them anew.
LEMMA SweepBlames ==
    ASSUME TypeOK, SweepTypeOK, CallInFlight, NEW p \in Sweep, SweepStep(p) \/ Crash(p)
    PROVE  Blames
<1> USE DEF debtVars
<1>0. \A q \in Sweep, t \in Teacher : debt[q][t] \in Nat /\ debt[q][t] <= debt[q][t]
    BY DEF SweepTypeOK
<1>1. ASSUME Raises, UNCHANGED debt PROVE Blames
    BY <1>0, <1>1, RaisedBlamesNobody DEF Raises
<1>2. ASSUME Raises, NEW d \in [Teacher -> Nat], debt' = [debt EXCEPT ![p] = d],
             \A t \in Teacher : d[t] <= debt[p][t] \/ d[t] <= Debt(t)
      PROVE  Blames
    <2>1. \A q \in Sweep, t \in Teacher :
              debt'[q][t] \in Nat /\ (debt'[q][t] <= debt[q][t] \/ debt'[q][t] <= Debt(t))
        BY <1>0, <1>2 DEF SweepTypeOK
    <2> QED
        BY <1>2, <2>1, RaisedBlamesNobody DEF Raises
<1>3. CASE StartRun(p)
    BY <1>1, <1>3, WorldRaises DEF StartRun
<1>4. CASE ReclaimLeases(p)
    BY <1>1, <1>4, WorldRaises DEF ReclaimLeases
<1>5. CASE ClaimEntries(p)
    <2>1. Raises /\ debt' = [debt EXCEPT ![p] = [t \in Teacher |-> Debt(t)]]
        BY <1>5, WorldRaises DEF ClaimEntries
    <2>2. \A t \in Teacher : Debt(t) \in Nat /\ Debt(t) <= Debt(t)
        BY DEF TypeOK, Debt
    <2>3. PICK d : d = [t \in Teacher |-> Debt(t)]
        OBVIOUS
    <2> HIDE DEF Debt
    <2>4. d \in [Teacher -> Nat] /\ \A t \in Teacher : d[t] <= Debt(t)
        BY <2>2, <2>3
    <2> QED
        BY <1>2, <2>1, <2>3, <2>4
<1>6. CASE ClaimNothing(p)
    BY <1>1, <1>6, WorldRaises DEF ClaimNothing
<1>7. ASSUME NEW e \in Entry, Settle(p, e) \/ AnswerLost(p, e) PROVE Blames
    BY <1>7, WritesBlame
<1>8. ASSUME NEW e \in Entry, TransferCreated(p, e) \/ TransferThrows(p, e) \/ StoreThrows(p, e)
      PROVE  Blames
    BY <1>1, <1>8, WorldRaises DEF TransferCreated, TransferThrows, StoreThrows
<1>9. ASSUME NEW e \in Entry, Raises, Unsettled(p, e) PROVE Blames
    <2>1. debt[p] \in [Teacher -> Nat]
        BY DEF SweepTypeOK
    <2>2. PICK d \in [Teacher -> Nat] :
              debt' = [debt EXCEPT ![p] = d] /\ \A t \in Teacher : d[t] <= debt[p][t]
        BY <1>9, <2>1, ProceedLowers DEF Unsettled
    <2> QED
        BY <1>2, <1>9, <2>2
<1>10. ASSUME NEW e \in Entry, Abandon(p, e) PROVE Blames
    BY <1>9, <1>10, WorldRaises DEF Abandon
<1>11. CASE RecordFailed(p)
    <2>1. cur[p] \in Entry
        BY <1>11 DEF RecordFailed, CallInFlight, SweepTypeOK
    <2>2. Raises
        BY <1>11 DEF RecordFailed, RecordTransferFailed, Raises, TypeOK
    <2> QED
        BY <1>9, <1>11, <2>1, <2>2 DEF RecordFailed
<1>12. CASE Crash(p)
    <2>1. Raises /\ debt' = [debt EXCEPT ![p] = [t \in Teacher |-> 0]]
        BY <1>12, WorldRaises DEF Crash
    <2>2. PICK d \in [Teacher -> Nat] : d = [t \in Teacher |-> 0]
        OBVIOUS
    <2>3. \A t \in Teacher : d[t] <= debt[p][t]
        BY <2>2 DEF SweepTypeOK
    <2> QED
        BY <1>2, <2>1, <2>2, <2>3
<1> QED
    BY <1>3, <1>4, <1>5, <1>6, <1>7, <1>8, <1>10, <1>11, <1>12 DEF SweepStep

\* Over every number of sweeps, on both rails, with stalls, crashes and lost answers:
\* nobody but a sweep with a stale balance recovers more than a teacher owes, and
\* only another recovery, or the lost answer of its own, makes a balance stale.
THEOREM StaleSweepsOverRecover == SweepSpec => OverRecoveryIsStale
<1>1. SweepSpec => []IndInv
    BY SweepRefines, Inductive, PTL
<1>2. RowInv /\ IndInv /\ [SweepNext]_allVars => [Blames]_allVars
    <2> SUFFICES ASSUME RowInv, IndInv, SweepNext PROVE Blames
        OBVIOUS
    <2>1. TypeOK /\ SweepTypeOK /\ CallInFlight /\ RecoveryCap
        BY DEF RowInv, SweepInv, IndInv
    <2> QED
        BY <2>1, SurroundingsBlame, SweepBlames DEF SweepNext, Surroundings
<1>3. [Blames]_allVars => [\A t \in Teacher :
          /\ owed'[t] < owed[t] /\ owed'[t] < 0 => \E p \in Sweep : Acts(p) /\ Stale(p, t)
          /\ \A p \in Sweep : ~Stale(p, t) /\ Stale(p, t)' =>
                /\ owed'[t] < owed[t]
                /\ Acts(p) => pc'[p] = "fail"]_allVars
    BY DEF Blames
<1> QED
    BY <1>1, <1>2, <1>3, SweepInductive, PTL DEF SweepSpec, OverRecoveryIsStale
=============================================================================
