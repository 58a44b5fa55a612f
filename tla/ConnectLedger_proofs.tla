------------------------ MODULE ConnectLedger_proofs ------------------------
(***************************************************************************)
(* The ledger's guarantees for every set of teachers, entries, charges,    *)
(* refunds and disputes, every amount and every retry budget.  Its callers *)
(* are any: LedgerNext calls each SQL function with every argument.        *)
(***************************************************************************)
EXTENDS ConnectLedger, TLAPS

\* The empty ledger has the types of its rows.
LEMMA TypeOKInit == Init => TypeOK
BY DEF Init, TypeOK, Status, Reason, Hold

\* A debt recovery within the cap leaves the two amounts it changes typed.
LEMMA RecoveryTyped ==
    ASSUME recovered \in [Entry -> Nat], owed \in [Teacher -> Int],
           NEW e \in Entry, NEW cut \in Nat, WriteDebtRecovery(e, cut)
    PROVE  /\ recovered' \in [Entry -> Nat]
           /\ owed' \in [Teacher -> Int]
<1>1. recovered' \in [Entry -> Nat]
    BY DEF WriteDebtRecovery
<1>2. TeacherOf[e] \in Teacher
    BY OwnerAssumption
<1>3. owed' \in [Teacher -> Int]
    BY <1>2 DEF WriteDebtRecovery
<1> QED
    BY <1>1, <1>3

\* A clawback row leaves the rows and the balance typed.
LEMMA ClawbackTyped ==
    ASSUME claw \in [Entry -> [Source -> Nat]], owed \in [Teacher -> Int],
           NEW e \in Entry, NEW s \in Source, NEW cents \in Nat, WriteClawback(e, s, cents)
    PROVE  /\ claw' \in [Entry -> [Source -> Nat]]
           /\ owed' \in [Teacher -> Int]
<1>1. claw' \in [Entry -> [Source -> Nat]]
    BY DEF WriteClawback
<1>2. TeacherOf[e] \in Teacher
    BY OwnerAssumption
<1>3. owed' \in [Teacher -> Int]
    BY <1>2 DEF WriteClawback
<1> QED
    BY <1>1, <1>3

\* What is left to reclaim of an entry is a number of cents.
LEMMA ReclaimableTyped ==
    ASSUME reclaimed \in [Entry -> Nat], NEW e \in Entry
    PROVE  Reclaimable(e) \in Nat
BY AmountAssumption DEF Reclaimable

\* Every function of the ledger keeps the types.
LEMMA TypeOKNext == TypeOK /\ [LedgerNext]_ledgerVars => TypeOK'
<1> SUFFICES ASSUME TypeOK, [LedgerNext]_ledgerVars PROVE TypeOK'
    OBVIOUS
<1> USE DEF TypeOK, claimVars, retryVars, debtVars, clawVars, teacherVars, consentVars, timeVars
<1>1. ASSUME NEW e \in Entry, Deliver(e) PROVE TypeOK'
    BY <1>1 DEF Deliver
<1>2. ASSUME NEW e \in Entry, Mature(e) PROVE TypeOK'
    BY <1>2 DEF Mature
<1>3. ASSUME NEW e \in Entry, BackoffEnds(e) PROVE TypeOK'
    BY <1>3 DEF BackoffEnds
<1>4. CASE LeaseLapses
    BY <1>4 DEF LeaseLapses
<1>5. ASSUME NEW v \in Version, PublishAgreement(v) PROVE TypeOK'
    BY <1>5 DEF PublishAgreement
<1>6. ASSUME NEW t \in Teacher, SetPayoutsEnabled(t) PROVE TypeOK'
    BY <1>6 DEF SetPayoutsEnabled
<1>7. CASE Materialize
    BY <1>7 DEF Materialize, Status, Reason
<1>8. ASSUME NEW t \in Teacher, AcceptAgreement(t) PROVE TypeOK'
    BY <1>8 DEF AcceptAgreement, Release, Status, Reason
<1>9. CASE ReclaimLapsed
    BY <1>9 DEF ReclaimLapsed, Status
<1>10. CASE Claim
    BY <1>10 DEF Claim, Status
<1>11. ASSUME NEW e \in Entry, NEW at \in 1..clock, RecordTransferFailed(e, at) PROVE TypeOK'
    BY <1>11 DEF RecordTransferFailed, Status, Reason
<1>12. ASSUME NEW e \in Entry, NEW at \in 1..clock, NEW cut \in 0..Amount[e],
              RecordDebtRecovered(e, at, cut)
       PROVE  TypeOK'
    <2>1. cut \in Nat /\ WriteDebtRecovery(e, cut)
        BY <1>12, AmountAssumption DEF RecordDebtRecovered
    <2> QED
        BY <1>12, <2>1, RecoveryTyped DEF RecordDebtRecovered, Status
<1>13. ASSUME NEW e \in Entry, NEW at \in 1..clock, NEW cut \in 0..Amount[e],
              RecordManualDue(e, at, cut)
       PROVE  TypeOK'
    <2>1. cut \in Nat /\ WriteDebtRecovery(e, cut)
        BY <1>13, AmountAssumption DEF RecordManualDue
    <2> QED
        BY <1>13, <2>1, RecoveryTyped DEF RecordManualDue, Status
<1>14. ASSUME NEW e \in Entry, NEW at \in 1..clock, NEW cut \in 0..Amount[e],
              NEW cents \in 1..Amount[e], RecordTransferSucceeded(e, at, cents, cut)
       PROVE  TypeOK'
    <2>1. cut \in Nat /\ WriteDebtRecovery(e, cut) /\ cents \in Nat
        BY <1>14, AmountAssumption DEF RecordTransferSucceeded
    <2> QED
        BY <1>14, <2>1, RecoveryTyped DEF RecordTransferSucceeded, Status
<1>15. ASSUME NEW e \in Entry, RequeueFailed(e) PROVE TypeOK'
    BY <1>15 DEF RequeueFailed, Release, Status, Reason
<1>16. ASSUME NEW e \in Entry, SettleManualDue(e) PROVE TypeOK'
    <2>1. PICK cut \in 0..Left(e) :
              /\ WriteDebtRecovery(e, cut)
              /\ status' = [status EXCEPT ![e] = IF cut = Left(e) THEN "debt_recovered"
                                                 ELSE "manual_paid"]
        BY <1>16 DEF SettleManualDue
    <2>2. cut \in Nat
        BY AmountAssumption DEF Left
    <2> QED
        BY <1>16, <2>1, <2>2, RecoveryTyped DEF SettleManualDue, Status
<1>17. ASSUME NEW t \in Teacher, NEW rail \in Rail, SetPayoutMethod(t, rail) PROVE TypeOK'
    BY <1>17 DEF SetPayoutMethod, Status
<1>18. ASSUME NEW t \in Teacher, NEW h \in AdminHold, PlaceHold(t, h) PROVE TypeOK'
    BY <1>18 DEF PlaceHold, Hold
<1>19. ASSUME NEW t \in Teacher, NEW h \in Lifted, LiftHold(t, h) PROVE TypeOK'
    BY <1>19 DEF LiftHold
<1>20. ASSUME NEW d \in Dispute, DisputeHold(d) PROVE TypeOK'
    BY <1>20 DEF DisputeHold, Status, Reason, Hold
<1>21. ASSUME NEW d \in Dispute, DisputeRelease(d) PROVE TypeOK'
    BY <1>21 DEF DisputeRelease, Release, Status, Reason
<1>22. ASSUME NEW e \in Entry, NEW s \in Source, ConfirmReversal(e, s) PROVE TypeOK'
    BY <1>22 DEF ConfirmReversal
<1>23. ASSUME NEW e \in Entry, NEW s \in Source, NEW cents \in 1..Amount[e],
              VoidClean(e, s, cents)
       PROVE  TypeOK'
    BY <1>23 DEF VoidClean, Status, Reason
<1>24. ASSUME NEW e \in Entry, NEW s \in Source, NEW cents \in 1..Amount[e],
              RecordClawback(e, s, cents)
       PROVE  TypeOK'
    <2> DEFINE apply == Capped(cents, Reclaimable(e))
    <2>1. apply \in Nat
        BY ReclaimableTyped, AmountAssumption DEF Capped
    <2>2. claw' \in [Entry -> [Source -> Nat]] /\ owed' \in [Teacher -> Int]
        BY <1>24, <2>1, ClawbackTyped DEF RecordClawback
    <2>3. reclaimed' \in [Entry -> Nat]
        BY <1>24, <2>1 DEF RecordClawback
    <2> QED
        BY <1>24, <2>2, <2>3 DEF RecordClawback
<1>25. ASSUME NEW e \in Entry, NEW s \in Source, NEW rev \in 0..Amount[e],
              NEW short \in 0..Amount[e], ReserveReversal(e, s, rev, short)
       PROVE  TypeOK'
    <2> DEFINE r == Capped(rev, Reclaimable(e))
               c == Capped(short, Reclaimable(e) - r)
    <2>1. r \in Nat /\ c \in Nat
        BY ReclaimableTyped, AmountAssumption DEF Capped
    <2>2. claw' \in [Entry -> [Source -> Nat]] /\ owed' \in [Teacher -> Int]
        BY <1>25, <2>1, ClawbackTyped DEF ReserveReversal
    <2>3. reclaimed' \in [Entry -> Nat] /\ resv' \in [Entry -> [Source -> Nat]]
        BY <1>25, <2>1 DEF ReserveReversal
    <2> QED
        BY <1>25, <2>2, <2>3 DEF ReserveReversal
<1>26. CASE UNCHANGED ledgerVars
    BY <1>26 DEF ledgerVars
<1> QED
    BY <1>1, <1>2, <1>3, <1>4, <1>5, <1>6, <1>7, <1>8, <1>9, <1>10, <1>11, <1>12, <1>13,
       <1>14, <1>15, <1>16, <1>17, <1>18, <1>19, <1>20, <1>21, <1>22, <1>23, <1>24, <1>25,
       <1>26
    DEF LedgerNext, World, Consent, Admin, SweepFunctions, WebhookFunctions

-----------------------------------------------------------------------------
(* Which functions write what.                                             *)

\* Only a clawback and a reservation change how much of an entry is reclaimed,
\* and each by at most what is left of it.
LEMMA Reclaims ==
    ASSUME [LedgerNext]_ledgerVars
    PROVE  \/ UNCHANGED reclaimed
           \/ \E e \in Entry, s \in Source : \E cents \in 1..Amount[e] : RecordClawback(e, s, cents)
           \/ \E e \in Entry, s \in Source : \E rev, short \in 0..Amount[e] :
                 ReserveReversal(e, s, rev, short)
<1> USE DEF ledgerVars, claimVars, retryVars, debtVars, clawVars, teacherVars, consentVars, timeVars
<1>1. World \/ Consent \/ Admin => UNCHANGED reclaimed
    BY DEF World, Consent, Admin, Deliver, Mature, BackoffEnds, LeaseLapses, PublishAgreement,
           SetPayoutsEnabled, AcceptAgreement, RequeueFailed, SettleManualDue, SetPayoutMethod,
           PlaceHold, LiftHold
<1>2. SweepFunctions => UNCHANGED reclaimed
    BY DEF SweepFunctions, Materialize, ReclaimLapsed, Claim, RecordTransferFailed,
           RecordDebtRecovered, RecordManualDue, RecordTransferSucceeded
<1>3. ASSUME NEW e \in Entry, NEW s \in Source, NEW cents \in 1..Amount[e],
             ConfirmReversal(e, s) \/ VoidClean(e, s, cents)
      PROVE  UNCHANGED reclaimed
    BY <1>3 DEF ConfirmReversal, VoidClean
<1>4. ASSUME NEW d \in Dispute, DisputeHold(d) \/ DisputeRelease(d)
      PROVE  UNCHANGED reclaimed
    BY <1>4 DEF DisputeHold, DisputeRelease
<1>5. ASSUME NEW e \in Entry, NEW s \in Source, ConfirmReversal(e, s)
      PROVE  UNCHANGED reclaimed
    BY <1>5 DEF ConfirmReversal
<1> QED
    BY <1>1, <1>2, <1>3, <1>4, <1>5 DEF LedgerNext, WebhookFunctions

\* The clamp of the two clawback functions keeps NeverOverClaw.
LEMMA NeverOverClawNext ==
    ASSUME TypeOK, NeverOverClaw, [LedgerNext]_ledgerVars
    PROVE  NeverOverClaw'
<1>1. CASE UNCHANGED reclaimed
    BY <1>1 DEF NeverOverClaw
<1>2. ASSUME NEW e \in Entry, NEW s \in Source, NEW cents \in 1..Amount[e],
             RecordClawback(e, s, cents)
      PROVE  NeverOverClaw'
    <2>1. reclaimed \in [Entry -> Nat]
        BY DEF TypeOK
    <2> DEFINE apply == Capped(cents, Reclaimable(e))
    <2>2. apply \in Nat /\ reclaimed[e] + apply <= Amount[e]
        BY <2>1, AmountAssumption DEF Capped, Reclaimable, NeverOverClaw
    <2>3. reclaimed' = [reclaimed EXCEPT ![e] = @ + apply]
        BY <1>2 DEF RecordClawback
    <2> HIDE DEF apply
    <2> QED
        BY <2>1, <2>2, <2>3 DEF NeverOverClaw
<1>3. ASSUME NEW e \in Entry, NEW s \in Source, NEW rev \in 0..Amount[e],
             NEW short \in 0..Amount[e], ReserveReversal(e, s, rev, short)
      PROVE  NeverOverClaw'
    <2>1. reclaimed \in [Entry -> Nat]
        BY DEF TypeOK
    <2> DEFINE r == Capped(rev, Reclaimable(e))
               c == Capped(short, Reclaimable(e) - r)
    <2>2. r \in Nat /\ c \in Nat /\ reclaimed[e] + r + c <= Amount[e]
        BY <2>1, AmountAssumption DEF Capped, Reclaimable, NeverOverClaw
    <2>3. reclaimed' = [reclaimed EXCEPT ![e] = @ + r + c]
        BY <1>3 DEF ReserveReversal
    <2> HIDE DEF r, c
    <2> QED
        BY <2>1, <2>2, <2>3 DEF NeverOverClaw
<1> QED
    BY <1>1, <1>2, <1>3, Reclaims

-----------------------------------------------------------------------------
(* The status machine.  The invariants on one entry's row are inductive    *)
(* together: VoidIsClean needs TransferRow (a reversal is reserved only    *)
(* against a transfer row), ConsentGate and RetryCap need HeldForAReason.  *)

Sound(x) ==
    /\ xfer[x] # 0 <=> status[x] = "transferred"
    /\ status[x] = "voided" => reclaimed[x] = 0
    /\ holdReason[x] # "none" <=> status[x] = "held"
    /\ \/ status[x] \in {"none", "voided"}
       \/ status[x] = "held" /\ holdReason[x] = "agreement_pending"
       \/ stamp[x] \in accepted[TeacherOf[x]]
    /\ attempts[x] <= MaxAttempts
    /\ attempts[x] = MaxAttempts =>
          \/ status[x] = "held" /\ holdReason[x] = "transfer_failed"
          \/ status[x] = "voided"

\* Each entry keeps what its status says of its other columns, whichever
\* function runs.
LEMMA SoundNext ==
    ASSUME TypeOK, NEW x \in Entry, Sound(x), [LedgerNext]_ledgerVars
    PROVE  Sound(x)'
<1> USE DEF claimVars, retryVars, debtVars, clawVars, teacherVars, consentVars, timeVars
<1>0. /\ status \in [Entry -> Status] /\ holdReason \in [Entry -> Reason]
      /\ attempts \in [Entry -> Nat] /\ stamp \in [Entry -> Version]
      /\ reclaimed \in [Entry -> Nat] /\ xfer \in [Entry -> Nat]
      /\ accepted \in [Teacher -> SUBSET Version]
      /\ TeacherOf[x] \in Teacher
    BY OwnerAssumption DEF TypeOK
<1>1. ASSUME NEW e \in Entry, Deliver(e)
      PROVE  Sound(x)'
    BY <1>0, <1>1, BoundAssumption, ReasonAssumption DEF Sound, Deliver
<1>2. ASSUME NEW e \in Entry, Mature(e)
      PROVE  Sound(x)'
    BY <1>0, <1>2, BoundAssumption, ReasonAssumption DEF Sound, Mature
<1>3. ASSUME NEW e \in Entry, BackoffEnds(e)
      PROVE  Sound(x)'
    BY <1>0, <1>3, BoundAssumption, ReasonAssumption DEF Sound, BackoffEnds
<1>4. CASE LeaseLapses
    BY <1>0, <1>4, BoundAssumption, ReasonAssumption DEF Sound, LeaseLapses
<1>5. ASSUME NEW v \in Version, PublishAgreement(v)
      PROVE  Sound(x)'
    BY <1>0, <1>5, BoundAssumption, ReasonAssumption DEF Sound, PublishAgreement
<1>6. ASSUME NEW t \in Teacher, SetPayoutsEnabled(t)
      PROVE  Sound(x)'
    BY <1>0, <1>6, BoundAssumption, ReasonAssumption DEF Sound, SetPayoutsEnabled
<1>7. CASE Materialize
    BY <1>0, <1>7, BoundAssumption, ReasonAssumption DEF Sound, Materialize, HeldFor, Consented
<1>8. ASSUME NEW t \in Teacher, AcceptAgreement(t)
      PROVE  Sound(x)'
    BY <1>0, <1>8, BoundAssumption, ReasonAssumption DEF Sound, AcceptAgreement, HeldFor, Release, EntriesOf, Consented
<1>9. CASE ReclaimLapsed
    BY <1>0, <1>9, BoundAssumption, ReasonAssumption DEF Sound, ReclaimLapsed
<1>10. CASE Claim
    BY <1>0, <1>10, BoundAssumption, ReasonAssumption DEF Sound, Claim, Claimable
<1>11. ASSUME NEW e \in Entry, NEW at \in 1..clock, RecordTransferFailed(e, at)
      PROVE  Sound(x)'
    BY <1>0, <1>11, BoundAssumption, ReasonAssumption DEF Sound, RecordTransferFailed, Fenced, Parks
<1>12. ASSUME NEW e \in Entry, NEW at \in 1..clock, NEW cut \in 0..Amount[e], RecordDebtRecovered(e, at, cut)
      PROVE  Sound(x)'
    BY <1>0, <1>12, BoundAssumption, ReasonAssumption DEF Sound, RecordDebtRecovered, Fenced
<1>13. ASSUME NEW e \in Entry, NEW at \in 1..clock, NEW cut \in 0..Amount[e], RecordManualDue(e, at, cut)
      PROVE  Sound(x)'
    BY <1>0, <1>13, BoundAssumption, ReasonAssumption DEF Sound, RecordManualDue, Fenced
<1>14. ASSUME NEW e \in Entry, NEW at \in 1..clock, NEW cut \in 0..Amount[e],
             NEW cents \in 1..Amount[e], RecordTransferSucceeded(e, at, cents, cut)
      PROVE  Sound(x)'
    BY <1>0, <1>14, BoundAssumption, ReasonAssumption DEF Sound, RecordTransferSucceeded, Fenced
<1>15. ASSUME NEW e \in Entry, RequeueFailed(e)
      PROVE  Sound(x)'
    BY <1>0, <1>15, BoundAssumption, ReasonAssumption DEF Sound, RequeueFailed, HeldFor, Release
<1>16. ASSUME NEW e \in Entry, SettleManualDue(e)
      PROVE  Sound(x)'
    BY <1>0, <1>16, BoundAssumption, ReasonAssumption DEF Sound, SettleManualDue
<1>17. ASSUME NEW t \in Teacher, NEW rail \in Rail, SetPayoutMethod(t, rail)
      PROVE  Sound(x)'
    BY <1>0, <1>17, BoundAssumption, ReasonAssumption DEF Sound, SetPayoutMethod, Rerouted, EntriesOf
<1>18. ASSUME NEW t \in Teacher, NEW h \in AdminHold, PlaceHold(t, h)
      PROVE  Sound(x)'
    BY <1>0, <1>18, BoundAssumption, ReasonAssumption DEF Sound, PlaceHold
<1>19. ASSUME NEW t \in Teacher, NEW h \in Lifted, LiftHold(t, h)
      PROVE  Sound(x)'
    BY <1>0, <1>19, BoundAssumption, ReasonAssumption DEF Sound, LiftHold
<1>20. ASSUME NEW d \in Dispute, DisputeHold(d)
      PROVE  Sound(x)'
    BY <1>0, <1>20, BoundAssumption, ReasonAssumption DEF Sound, DisputeHold
<1>21. ASSUME NEW d \in Dispute, DisputeRelease(d)
      PROVE  Sound(x)'
    BY <1>0, <1>21, BoundAssumption, ReasonAssumption DEF Sound, DisputeRelease, HeldFor, Release
<1>22. ASSUME NEW e \in Entry, NEW s \in Source, ConfirmReversal(e, s)
      PROVE  Sound(x)'
    BY <1>0, <1>22, BoundAssumption, ReasonAssumption DEF Sound, ConfirmReversal
<1>23. ASSUME NEW e \in Entry, NEW s \in Source, NEW cents \in 1..Amount[e], VoidClean(e, s, cents)
      PROVE  Sound(x)'
    BY <1>0, <1>23, BoundAssumption, ReasonAssumption DEF Sound, VoidClean, TakesWhole, RoutesToReversal
<1>24. ASSUME NEW e \in Entry, NEW s \in Source, NEW cents \in 1..Amount[e], RecordClawback(e, s, cents)
      PROVE  Sound(x)'
    BY <1>0, <1>24, BoundAssumption, ReasonAssumption DEF Sound, RecordClawback, WriteClawback
<1>25. ASSUME NEW e \in Entry, NEW s \in Source, NEW rev \in 0..Amount[e],
             NEW short \in 0..Amount[e], ReserveReversal(e, s, rev, short)
      PROVE  Sound(x)'
    BY <1>0, <1>25, BoundAssumption, ReasonAssumption DEF Sound, ReserveReversal, WriteClawback
<1>26. CASE UNCHANGED ledgerVars
    BY <1>26 DEF ledgerVars, Sound
<1> QED
    BY <1>1, <1>2, <1>3, <1>4, <1>5, <1>6, <1>7, <1>8, <1>9, <1>10, <1>11, <1>12, <1>13, <1>14, <1>15, <1>16, <1>17, <1>18, <1>19, <1>20, <1>21, <1>22, <1>23, <1>24, <1>25, <1>26
    DEF LedgerNext, World, Consent, Admin, SweepFunctions, WebhookFunctions

-----------------------------------------------------------------------------
(* Debt recovery and the two action properties.                            *)

\* Only the three settlements of a sweep and the manual one recover debt.
LEMMA Recovers ==
    ASSUME recovered \in [Entry -> Nat], [LedgerNext]_ledgerVars
    PROVE  \/ UNCHANGED recovered
           \/ \E e \in Entry, cut \in Nat :
                 status[e] \in {"processing", "manual_due"} /\ WriteDebtRecovery(e, cut)
<1> USE DEF ledgerVars, claimVars, retryVars, debtVars, clawVars, teacherVars, consentVars, timeVars
<1>1. World \/ Consent => UNCHANGED recovered
    BY DEF World, Consent, Deliver, Mature, BackoffEnds, LeaseLapses, PublishAgreement,
           SetPayoutsEnabled, AcceptAgreement
<1>2. WebhookFunctions => UNCHANGED recovered
    <2>1. ASSUME NEW d \in Dispute, DisputeHold(d) \/ DisputeRelease(d)
          PROVE  UNCHANGED recovered
        BY <2>1 DEF DisputeHold, DisputeRelease
    <2>2. ASSUME NEW e \in Entry, NEW s \in Source, NEW cents,
                 ConfirmReversal(e, s) \/ VoidClean(e, s, cents) \/ RecordClawback(e, s, cents)
          PROVE  UNCHANGED recovered
        BY <2>2 DEF ConfirmReversal, VoidClean, RecordClawback
    <2>3. ASSUME NEW e \in Entry, NEW s \in Source, NEW rev, NEW short,
                 ReserveReversal(e, s, rev, short)
          PROVE  UNCHANGED recovered
        BY <2>3 DEF ReserveReversal
    <2> QED
        BY <2>1, <2>2, <2>3 DEF WebhookFunctions
<1>3. ASSUME NEW e \in Entry, RequeueFailed(e) PROVE UNCHANGED recovered
    BY <1>3 DEF RequeueFailed
<1>4. ASSUME NEW t \in Teacher, NEW rail \in Rail, SetPayoutMethod(t, rail)
      PROVE  UNCHANGED recovered
    BY <1>4 DEF SetPayoutMethod
<1>5. ASSUME NEW t \in Teacher, NEW h, PlaceHold(t, h) \/ LiftHold(t, h)
      PROVE  UNCHANGED recovered
    BY <1>5 DEF PlaceHold, LiftHold
<1>6. ASSUME NEW e \in Entry, SettleManualDue(e)
      PROVE  \E cut \in Nat : status[e] = "manual_due" /\ WriteDebtRecovery(e, cut)
    BY <1>6, AmountAssumption DEF SettleManualDue, Left
<1>7. Materialize \/ ReclaimLapsed \/ Claim => UNCHANGED recovered
    BY DEF Materialize, ReclaimLapsed, Claim
<1>8. ASSUME NEW e \in Entry, NEW at, RecordTransferFailed(e, at) PROVE UNCHANGED recovered
    BY <1>8 DEF RecordTransferFailed
<1>9. ASSUME NEW e \in Entry, NEW at, NEW cents, NEW cut \in 0..Amount[e],
             \/ RecordDebtRecovered(e, at, cut)
             \/ RecordManualDue(e, at, cut)
             \/ RecordTransferSucceeded(e, at, cents, cut)
      PROVE  \E c \in Nat : status[e] = "processing" /\ WriteDebtRecovery(e, c)
    BY <1>9, AmountAssumption
    DEF RecordDebtRecovered, RecordManualDue, RecordTransferSucceeded, Fenced
<1> QED
    BY <1>1, <1>2, <1>3, <1>4, <1>5, <1>6, <1>7, <1>8, <1>9
    DEF LedgerNext, Admin, SweepFunctions

\* The recovery-cap trigger keeps RecoveryCap.
LEMMA RecoveryCapNext ==
    ASSUME TypeOK, RecoveryCap, [LedgerNext]_ledgerVars
    PROVE  RecoveryCap'
<1>1. recovered \in [Entry -> Nat]
    BY DEF TypeOK
<1>2. CASE UNCHANGED recovered
    BY <1>2 DEF RecoveryCap
<1>3. ASSUME NEW e \in Entry, NEW cut \in Nat, WriteDebtRecovery(e, cut)
      PROVE  RecoveryCap'
    BY <1>1, <1>3, AmountAssumption DEF WriteDebtRecovery, RecoveryCap
<1> QED
    BY <1>1, <1>2, <1>3, Recovers

\* The status and the transfer row of a settled entry stay.
LEMMA StatusFinal ==
    ASSUME TypeOK, NEW x \in Entry, status[x] \in Terminal, [LedgerNext]_ledgerVars
    PROVE  status'[x] = status[x] /\ xfer'[x] = xfer[x]
<1> USE DEF Terminal, claimVars, retryVars, debtVars, clawVars, teacherVars, consentVars, timeVars
<1>0. status \in [Entry -> Status] /\ xfer \in [Entry -> Nat]
    BY DEF TypeOK
<1>1. ASSUME NEW e \in Entry, Deliver(e)
      PROVE  status'[x] = status[x] /\ xfer'[x] = xfer[x]
    BY <1>0, <1>1 DEF Deliver
<1>2. ASSUME NEW e \in Entry, Mature(e)
      PROVE  status'[x] = status[x] /\ xfer'[x] = xfer[x]
    BY <1>0, <1>2 DEF Mature
<1>3. ASSUME NEW e \in Entry, BackoffEnds(e)
      PROVE  status'[x] = status[x] /\ xfer'[x] = xfer[x]
    BY <1>0, <1>3 DEF BackoffEnds
<1>4. CASE LeaseLapses
    BY <1>0, <1>4 DEF LeaseLapses
<1>5. ASSUME NEW v \in Version, PublishAgreement(v)
      PROVE  status'[x] = status[x] /\ xfer'[x] = xfer[x]
    BY <1>0, <1>5 DEF PublishAgreement
<1>6. ASSUME NEW t \in Teacher, SetPayoutsEnabled(t)
      PROVE  status'[x] = status[x] /\ xfer'[x] = xfer[x]
    BY <1>0, <1>6 DEF SetPayoutsEnabled
<1>7. CASE Materialize
    BY <1>0, <1>7 DEF Materialize, HeldFor, Consented
<1>8. ASSUME NEW t \in Teacher, AcceptAgreement(t)
      PROVE  status'[x] = status[x] /\ xfer'[x] = xfer[x]
    BY <1>0, <1>8 DEF AcceptAgreement, HeldFor, Release, EntriesOf, Consented
<1>9. CASE ReclaimLapsed
    BY <1>0, <1>9 DEF ReclaimLapsed
<1>10. CASE Claim
    BY <1>0, <1>10 DEF Claim, Claimable
<1>11. ASSUME NEW e \in Entry, NEW at \in 1..clock, RecordTransferFailed(e, at)
      PROVE  status'[x] = status[x] /\ xfer'[x] = xfer[x]
    BY <1>0, <1>11 DEF RecordTransferFailed, Fenced, Parks
<1>12. ASSUME NEW e \in Entry, NEW at \in 1..clock, NEW cut \in 0..Amount[e], RecordDebtRecovered(e, at, cut)
      PROVE  status'[x] = status[x] /\ xfer'[x] = xfer[x]
    BY <1>0, <1>12 DEF RecordDebtRecovered, Fenced
<1>13. ASSUME NEW e \in Entry, NEW at \in 1..clock, NEW cut \in 0..Amount[e], RecordManualDue(e, at, cut)
      PROVE  status'[x] = status[x] /\ xfer'[x] = xfer[x]
    BY <1>0, <1>13 DEF RecordManualDue, Fenced
<1>14. ASSUME NEW e \in Entry, NEW at \in 1..clock, NEW cut \in 0..Amount[e],
             NEW cents \in 1..Amount[e], RecordTransferSucceeded(e, at, cents, cut)
      PROVE  status'[x] = status[x] /\ xfer'[x] = xfer[x]
    BY <1>0, <1>14 DEF RecordTransferSucceeded, Fenced
<1>15. ASSUME NEW e \in Entry, RequeueFailed(e)
      PROVE  status'[x] = status[x] /\ xfer'[x] = xfer[x]
    BY <1>0, <1>15 DEF RequeueFailed, HeldFor, Release
<1>16. ASSUME NEW e \in Entry, SettleManualDue(e)
      PROVE  status'[x] = status[x] /\ xfer'[x] = xfer[x]
    BY <1>0, <1>16 DEF SettleManualDue
<1>17. ASSUME NEW t \in Teacher, NEW rail \in Rail, SetPayoutMethod(t, rail)
      PROVE  status'[x] = status[x] /\ xfer'[x] = xfer[x]
    BY <1>0, <1>17 DEF SetPayoutMethod, Rerouted, EntriesOf
<1>18. ASSUME NEW t \in Teacher, NEW h \in AdminHold, PlaceHold(t, h)
      PROVE  status'[x] = status[x] /\ xfer'[x] = xfer[x]
    BY <1>0, <1>18 DEF PlaceHold
<1>19. ASSUME NEW t \in Teacher, NEW h \in Lifted, LiftHold(t, h)
      PROVE  status'[x] = status[x] /\ xfer'[x] = xfer[x]
    BY <1>0, <1>19 DEF LiftHold
<1>20. ASSUME NEW d \in Dispute, DisputeHold(d)
      PROVE  status'[x] = status[x] /\ xfer'[x] = xfer[x]
    BY <1>0, <1>20 DEF DisputeHold
<1>21. ASSUME NEW d \in Dispute, DisputeRelease(d)
      PROVE  status'[x] = status[x] /\ xfer'[x] = xfer[x]
    BY <1>0, <1>21 DEF DisputeRelease, HeldFor, Release
<1>22. ASSUME NEW e \in Entry, NEW s \in Source, ConfirmReversal(e, s)
      PROVE  status'[x] = status[x] /\ xfer'[x] = xfer[x]
    BY <1>0, <1>22 DEF ConfirmReversal
<1>23. ASSUME NEW e \in Entry, NEW s \in Source, NEW cents \in 1..Amount[e], VoidClean(e, s, cents)
      PROVE  status'[x] = status[x] /\ xfer'[x] = xfer[x]
    BY <1>0, <1>23 DEF VoidClean, TakesWhole, RoutesToReversal
<1>24. ASSUME NEW e \in Entry, NEW s \in Source, NEW cents \in 1..Amount[e], RecordClawback(e, s, cents)
      PROVE  status'[x] = status[x] /\ xfer'[x] = xfer[x]
    BY <1>0, <1>24 DEF RecordClawback, WriteClawback
<1>25. ASSUME NEW e \in Entry, NEW s \in Source, NEW rev \in 0..Amount[e],
             NEW short \in 0..Amount[e], ReserveReversal(e, s, rev, short)
      PROVE  status'[x] = status[x] /\ xfer'[x] = xfer[x]
    BY <1>0, <1>25 DEF ReserveReversal, WriteClawback
<1>26. CASE UNCHANGED ledgerVars
    BY <1>26 DEF ledgerVars
<1> QED
    BY <1>1, <1>2, <1>3, <1>4, <1>5, <1>6, <1>7, <1>8, <1>9, <1>10, <1>11, <1>12, <1>13,
       <1>14, <1>15, <1>16, <1>17, <1>18, <1>19, <1>20, <1>21, <1>22, <1>23, <1>24, <1>25, <1>26
    DEF LedgerNext, World, Consent, Admin, SweepFunctions, WebhookFunctions

\* A settled entry keeps its status, its transfer and its recovered debt.
LEMMA SettledStays ==
    ASSUME TypeOK, NEW x \in Entry, status[x] \in Terminal, [LedgerNext]_ledgerVars
    PROVE  status'[x] = status[x] /\ xfer'[x] = xfer[x] /\ recovered'[x] = recovered[x]
<1>1. status'[x] = status[x] /\ xfer'[x] = xfer[x]
    BY StatusFinal
<1>2. recovered \in [Entry -> Nat]
    BY DEF TypeOK
<1>3. ASSUME NEW e \in Entry, NEW cut \in Nat, status[e] \in {"processing", "manual_due"},
             WriteDebtRecovery(e, cut)
      PROVE  recovered'[x] = recovered[x]
    BY <1>2, <1>3 DEF WriteDebtRecovery, Terminal
<1> QED
    BY <1>1, <1>2, <1>3, Recovers

\* What a step may do to an entry that is held.
LEMMA HoldStep ==
    ASSUME TypeOK, NEW x \in Entry, Sound(x), [LedgerNext]_ledgerVars,
           status[x] = "held", holdReason'[x] # holdReason[x]
    PROVE  \/ status'[x] = "voided"
           \/ /\ status'[x] = "pending"
              /\ \/ holdReason[x] = "agreement_pending" /\ stamp[x] \in accepted'[TeacherOf[x]]
                 \/ holdReason[x] = "transfer_failed" /\ attempts'[x] = 0
                 \/ holdReason[x] \in Dispute /\ \A u \in Teacher : holdReason[x] \notin holds'[u]
<1> DEFINE Ended ==
       \/ status'[x] = "voided"
       \/ /\ status'[x] = "pending"
          /\ \/ holdReason[x] = "agreement_pending" /\ stamp[x] \in accepted'[TeacherOf[x]]
             \/ holdReason[x] = "transfer_failed" /\ attempts'[x] = 0
             \/ holdReason[x] \in Dispute /\ \A u \in Teacher : holdReason[x] \notin holds'[u]
<1> USE DEF claimVars, retryVars, debtVars, clawVars, teacherVars, consentVars, timeVars
<1>0. /\ status \in [Entry -> Status] /\ holdReason \in [Entry -> Reason]
      /\ attempts \in [Entry -> Nat] /\ stamp \in [Entry -> Version]
      /\ accepted \in [Teacher -> SUBSET Version] /\ holds \in [Teacher -> SUBSET Hold]
      /\ TeacherOf[x] \in Teacher
    BY OwnerAssumption DEF TypeOK
<1>1. ASSUME NEW e \in Entry, Deliver(e)
      PROVE  Ended
    BY <1>0, <1>1 DEF Deliver
<1>2. ASSUME NEW e \in Entry, Mature(e)
      PROVE  Ended
    BY <1>0, <1>2 DEF Mature
<1>3. ASSUME NEW e \in Entry, BackoffEnds(e)
      PROVE  Ended
    BY <1>0, <1>3 DEF BackoffEnds
<1>4. CASE LeaseLapses
    BY <1>0, <1>4 DEF LeaseLapses
<1>5. ASSUME NEW v \in Version, PublishAgreement(v)
      PROVE  Ended
    BY <1>0, <1>5 DEF PublishAgreement
<1>6. ASSUME NEW t \in Teacher, SetPayoutsEnabled(t)
      PROVE  Ended
    BY <1>0, <1>6 DEF SetPayoutsEnabled
<1>7. CASE Materialize
    BY <1>0, <1>7 DEF Materialize, HeldFor, Consented
<1>8. ASSUME NEW t \in Teacher, AcceptAgreement(t)
      PROVE  Ended
    BY <1>0, <1>8 DEF AcceptAgreement, HeldFor, Release, EntriesOf, Consented
<1>9. CASE ReclaimLapsed
    BY <1>0, <1>9 DEF ReclaimLapsed
<1>10. CASE Claim
    BY <1>0, <1>10 DEF Claim, Claimable
<1>11. ASSUME NEW e \in Entry, NEW at \in 1..clock, RecordTransferFailed(e, at)
      PROVE  Ended
    BY <1>0, <1>11 DEF RecordTransferFailed, Fenced, Parks
<1>12. ASSUME NEW e \in Entry, NEW at \in 1..clock, NEW cut \in 0..Amount[e], RecordDebtRecovered(e, at, cut)
      PROVE  Ended
    BY <1>0, <1>12 DEF RecordDebtRecovered, Fenced
<1>13. ASSUME NEW e \in Entry, NEW at \in 1..clock, NEW cut \in 0..Amount[e], RecordManualDue(e, at, cut)
      PROVE  Ended
    BY <1>0, <1>13 DEF RecordManualDue, Fenced
<1>14. ASSUME NEW e \in Entry, NEW at \in 1..clock, NEW cut \in 0..Amount[e],
             NEW cents \in 1..Amount[e], RecordTransferSucceeded(e, at, cents, cut)
      PROVE  Ended
    BY <1>0, <1>14 DEF RecordTransferSucceeded, Fenced
<1>15. ASSUME NEW e \in Entry, RequeueFailed(e)
      PROVE  Ended
    BY <1>0, <1>15 DEF RequeueFailed, HeldFor, Release
<1>16. ASSUME NEW e \in Entry, SettleManualDue(e)
      PROVE  Ended
    BY <1>0, <1>16 DEF SettleManualDue
<1>17. ASSUME NEW t \in Teacher, NEW rail \in Rail, SetPayoutMethod(t, rail)
      PROVE  Ended
    BY <1>0, <1>17 DEF SetPayoutMethod, Rerouted, EntriesOf
<1>18. ASSUME NEW t \in Teacher, NEW h \in AdminHold, PlaceHold(t, h)
      PROVE  Ended
    BY <1>0, <1>18 DEF PlaceHold
<1>19. ASSUME NEW t \in Teacher, NEW h \in Lifted, LiftHold(t, h)
      PROVE  Ended
    BY <1>0, <1>19 DEF LiftHold
<1>20. ASSUME NEW d \in Dispute, DisputeHold(d)
      PROVE  Ended
    BY <1>0, <1>20 DEF DisputeHold
<1>21. ASSUME NEW d \in Dispute, DisputeRelease(d)
      PROVE  Ended
    BY <1>0, <1>21 DEF DisputeRelease, HeldFor, Release
<1>22. ASSUME NEW e \in Entry, NEW s \in Source, ConfirmReversal(e, s)
      PROVE  Ended
    BY <1>0, <1>22 DEF ConfirmReversal
<1>23. ASSUME NEW e \in Entry, NEW s \in Source, NEW cents \in 1..Amount[e], VoidClean(e, s, cents)
      PROVE  Ended
    BY <1>0, <1>23 DEF VoidClean, TakesWhole, RoutesToReversal
<1>24. ASSUME NEW e \in Entry, NEW s \in Source, NEW cents \in 1..Amount[e], RecordClawback(e, s, cents)
      PROVE  Ended
    BY <1>0, <1>24 DEF RecordClawback, WriteClawback
<1>25. ASSUME NEW e \in Entry, NEW s \in Source, NEW rev \in 0..Amount[e],
             NEW short \in 0..Amount[e], ReserveReversal(e, s, rev, short)
      PROVE  Ended
    BY <1>0, <1>25 DEF ReserveReversal, WriteClawback
<1>26. CASE UNCHANGED ledgerVars
    BY <1>26 DEF ledgerVars
<1> QED
    BY <1>1, <1>2, <1>3, <1>4, <1>5, <1>6, <1>7, <1>8, <1>9, <1>10, <1>11, <1>12, <1>13,
       <1>14, <1>15, <1>16, <1>17, <1>18, <1>19, <1>20, <1>21, <1>22, <1>23, <1>24, <1>25, <1>26
    DEF LedgerNext, World, Consent, Admin, SweepFunctions, WebhookFunctions

-----------------------------------------------------------------------------
(* The theorems.                                                           *)

IndInv == TypeOK /\ NeverOverClaw /\ RecoveryCap /\ \A e \in Entry : Sound(e)

\* It holds at first, and every call keeps it.
LEMMA IndInvInit == Init => IndInv
<1>1. Init => TypeOK
    BY TypeOKInit
<1>2. Init => NeverOverClaw /\ RecoveryCap
    BY AmountAssumption DEF Init, NeverOverClaw, RecoveryCap
<1>3. ASSUME Init, NEW e \in Entry PROVE Sound(e)
    BY <1>3, BoundAssumption DEF Init, Sound
<1> QED
    BY <1>1, <1>2, <1>3 DEF IndInv

LEMMA IndInvNext == IndInv /\ [LedgerNext]_ledgerVars => IndInv'
BY TypeOKNext, NeverOverClawNext, RecoveryCapNext, SoundNext DEF IndInv

\* The inductive invariant holds of every behaviour of the ledger.
LEMMA Inductive == LedgerSpec => []IndInv
BY IndInvInit, IndInvNext, PTL DEF LedgerSpec

\* The ledger's rows keep their types under any calls.
THEOREM LedgerTypes == LedgerSpec => []TypeOK
<1>1. IndInv => TypeOK
    BY DEF IndInv
<1> QED
    BY <1>1, Inductive, PTL

\* Refunds and disputes together never take back more than an entry earned, and
\* the debts netted against an entry never exceed what it earned.
THEOREM LedgerCaps == LedgerSpec => [](NeverOverClaw /\ RecoveryCap)
<1>1. IndInv => NeverOverClaw /\ RecoveryCap
    BY DEF IndInv
<1> QED
    BY <1>1, Inductive, PTL

\* An entry has a transfer row exactly when it is `transferred`: only the fenced
\* records write either, and nothing rewrites a settled entry.
THEOREM LedgerRows == LedgerSpec => []TransferRow
<1>1. IndInv => TransferRow
    BY DEF IndInv, Sound, TransferRow
<1> QED
    BY <1>1, Inductive, PTL

\* connect_clawback_apply voids only an entry nothing was reclaimed from, so that
\* no void row leaves its teacher a debt on top.
THEOREM LedgerVoid == LedgerSpec => []VoidIsClean
<1>1. IndInv => VoidIsClean
    BY DEF IndInv, Sound, VoidIsClean
<1> QED
    BY <1>1, Inductive, PTL

\* A row is held exactly while it names a reason, so that the release of one
\* cause never frees what is held for another.
THEOREM LedgerHeld == LedgerSpec => []HeldForAReason
<1>1. IndInv => HeldForAReason
    BY DEF IndInv, Sound, HeldForAReason
<1> QED
    BY <1>1, Inductive, PTL

\* Nobody is paid for an entry stamped with terms its teacher did not accept.
THEOREM LedgerConsent == LedgerSpec => []ConsentGate
<1>1. IndInv => ConsentGate
    BY DEF IndInv, Sound, ConsentGate, Consented
<1> QED
    BY <1>1, Inductive, PTL

\* No transfer is tried more often than the retry budget allows.
THEOREM LedgerRetries == LedgerSpec => []RetryCap
<1>1. IndInv => RetryCap
    BY DEF IndInv, Sound, RetryCap
<1> QED
    BY <1>1, Inductive, PTL

\* No sequence of calls re-opens, re-pays or re-nets a settled entry.
THEOREM LedgerFinal == LedgerSpec => SettledIsFinal
<1>1. ASSUME IndInv, [LedgerNext]_ledgerVars, NEW e \in Entry, status[e] \in Terminal
      PROVE  status'[e] = status[e] /\ xfer'[e] = xfer[e] /\ recovered'[e] = recovered[e]
    BY <1>1, SettledStays DEF IndInv
<1>2. IndInv /\ [LedgerNext]_ledgerVars =>
          [\A e \in Entry : status[e] \in Terminal =>
              /\ status'[e] = status[e]
              /\ xfer'[e] = xfer[e]
              /\ recovered'[e] = recovered[e]]_ledgerVars
    BY <1>1
<1> QED
    BY <1>2, Inductive, PTL DEF LedgerSpec, SettledIsFinal

\* A hold ends only for its own cause.
THEOREM LedgerHolds == LedgerSpec => HoldsEndByTheirCause
<1>1. ASSUME IndInv, [LedgerNext]_ledgerVars, NEW e \in Entry,
             status[e] = "held", holdReason'[e] # holdReason[e]
      PROVE  \/ status'[e] = "voided"
             \/ /\ status'[e] = "pending"
                /\ \/ holdReason[e] = "agreement_pending" /\ stamp[e] \in accepted'[TeacherOf[e]]
                   \/ holdReason[e] = "transfer_failed" /\ attempts'[e] = 0
                   \/ holdReason[e] \in Dispute /\ \A t \in Teacher : holdReason[e] \notin holds'[t]
    BY <1>1, HoldStep DEF IndInv
<1>2. IndInv /\ [LedgerNext]_ledgerVars =>
          [\A e \in Entry : (status[e] = "held" /\ holdReason'[e] # holdReason[e]) =>
             \/ status'[e] = "voided"
             \/ /\ status'[e] = "pending"
                /\ \/ holdReason[e] = "agreement_pending" /\ stamp[e] \in accepted'[TeacherOf[e]]
                   \/ holdReason[e] = "transfer_failed" /\ attempts'[e] = 0
                   \/ holdReason[e] \in Dispute /\ \A t \in Teacher : holdReason[e] \notin holds'[t]
          ]_ledgerVars
    BY <1>1
<1> QED
    BY <1>2, Inductive, PTL DEF LedgerSpec, HoldsEndByTheirCause
=============================================================================
