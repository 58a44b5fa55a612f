----------------------- MODULE ConnectLedgerSums_proofs -----------------------
(***************************************************************************)
(* The ledger's arithmetic for every number of rows: the manual queue,     *)
(* netted first in first out, shares out the debt of its teacher exactly   *)
(* and in a way that settling one entry leaves alone; and the totals that  *)
(* the model keeps as state are the sums that the functions recompute.     *)
(***************************************************************************)
EXTENDS ConnectLedger_proofs, FiniteSums

\* Entries of a teacher and the sources of an entry's rows are finitely many.
LEMMA FinitelyMany ==
    /\ IsFiniteSet(Entry) /\ IsFiniteSet(Source)
    /\ \A t \in Teacher : IsFiniteSet(EntriesOf(t))
<1>1. \A t \in Teacher : EntriesOf(t) \in SUBSET Entry
    BY DEF EntriesOf
<1> QED
    BY <1>1, EntryAssumption, ChargeAssumption, FS_Subset

-----------------------------------------------------------------------------
(* The totals.                                                             *)

\* What an entry adds to the balance of its teacher
Net(e) == SumFunctionOnSet(claw[e], Source) - recovered[e]

EntryAddsUp ==
    \A e \in Entry :
        reclaimed[e] = SumFunctionOnSet([s \in Source |-> claw[e][s] + resv[e][s]], Source)

BalanceAddsUp ==
    \A t \in Teacher :
        owed[t] = SumFunctionOnSet([e \in Entry |-> Net(e)], EntriesOf(t))

\* Every step leaves the money alone, recovers debt, or takes back.
LEMMA MoneyMoves ==
    ASSUME recovered \in [Entry -> Nat], [LedgerNext]_ledgerVars
    PROVE  \/ UNCHANGED <<claw, resv, reclaimed, debtVars>>
           \/ /\ UNCHANGED <<claw, resv, reclaimed>>
              /\ \E e \in Entry, cut \in Nat : WriteDebtRecovery(e, cut)
           \/ \E e \in Entry, s \in Source : \E cents \in 1..Amount[e] : RecordClawback(e, s, cents)
           \/ \E e \in Entry, s \in Source : \E rev, short \in 0..Amount[e] :
                 ReserveReversal(e, s, rev, short)
<1> USE DEF claimVars, retryVars, debtVars, clawVars, teacherVars, consentVars, timeVars
<1>1. World \/ Consent => UNCHANGED <<claw, resv, reclaimed, debtVars>>
    BY DEF World, Consent, Deliver, Mature, BackoffEnds, LeaseLapses, PublishAgreement,
           SetPayoutsEnabled, AcceptAgreement
<1>2. Materialize \/ ReclaimLapsed \/ Claim => UNCHANGED <<claw, resv, reclaimed, debtVars>>
    BY DEF Materialize, ReclaimLapsed, Claim
<1>2a. ASSUME NEW e \in Entry, NEW at, RecordTransferFailed(e, at)
       PROVE  UNCHANGED <<claw, resv, reclaimed, debtVars>>
    BY <1>2a DEF RecordTransferFailed
<1>2b. ASSUME NEW e \in Entry, RequeueFailed(e)
       PROVE  UNCHANGED <<claw, resv, reclaimed, debtVars>>
    BY <1>2b DEF RequeueFailed
<1>2c. ASSUME NEW t \in Teacher, NEW x, SetPayoutMethod(t, x) \/ PlaceHold(t, x) \/ LiftHold(t, x)
       PROVE  UNCHANGED <<claw, resv, reclaimed, debtVars>>
    BY <1>2c DEF SetPayoutMethod, PlaceHold, LiftHold
<1>3. ASSUME NEW e \in Entry, SettleManualDue(e)
      PROVE  /\ UNCHANGED <<claw, resv, reclaimed>>
             /\ \E cut \in Nat : WriteDebtRecovery(e, cut)
    BY <1>3, AmountAssumption DEF SettleManualDue, Left
<1>4. ASSUME NEW e \in Entry, NEW at, NEW cents, NEW cut \in 0..Amount[e],
             \/ RecordDebtRecovered(e, at, cut)
             \/ RecordManualDue(e, at, cut)
             \/ RecordTransferSucceeded(e, at, cents, cut)
      PROVE  /\ UNCHANGED <<claw, resv, reclaimed>>
             /\ \E c \in Nat : WriteDebtRecovery(e, c)
    BY <1>4, AmountAssumption DEF RecordDebtRecovered, RecordManualDue, RecordTransferSucceeded
<1>5. ASSUME NEW d \in Dispute, DisputeHold(d) \/ DisputeRelease(d)
      PROVE  UNCHANGED <<claw, resv, reclaimed, debtVars>>
    BY <1>5 DEF DisputeHold, DisputeRelease
<1>6. ASSUME NEW e \in Entry, NEW s \in Source, NEW cents,
             ConfirmReversal(e, s) \/ VoidClean(e, s, cents)
      PROVE  UNCHANGED <<claw, resv, reclaimed, debtVars>>
    BY <1>6 DEF ConfirmReversal, VoidClean
<1>7. CASE UNCHANGED ledgerVars
    BY <1>7 DEF ledgerVars
<1>8. Admin => \/ UNCHANGED <<claw, resv, reclaimed, debtVars>>
               \/ /\ UNCHANGED <<claw, resv, reclaimed>>
                  /\ \E e \in Entry, cut \in Nat : WriteDebtRecovery(e, cut)
    BY <1>2b, <1>2c, <1>3 DEF Admin
<1>9. SweepFunctions => \/ UNCHANGED <<claw, resv, reclaimed, debtVars>>
                        \/ /\ UNCHANGED <<claw, resv, reclaimed>>
                           /\ \E e \in Entry, cut \in Nat : WriteDebtRecovery(e, cut)
    BY <1>2, <1>2a, <1>4 DEF SweepFunctions
<1> QED
    BY <1>1, <1>5, <1>6, <1>7, <1>8, <1>9 DEF LedgerNext, WebhookFunctions

\* A balance that moves with the net worth of one entry still adds up.
LEMMA BalanceMoves ==
    ASSUME TypeOK, BalanceAddsUp, NEW e \in Entry, NEW d \in Int,
           \A x \in Entry : Net(x) \in Int /\ Net(x)' \in Int,
           owed' = [owed EXCEPT ![TeacherOf[e]] = @ + d],
           Net(e)' = Net(e) + d,
           \A x \in Entry \ {e} : Net(x)' = Net(x)
    PROVE  BalanceAddsUp'
<1> SUFFICES ASSUME NEW t \in Teacher
             PROVE  owed'[t] = SumFunctionOnSet([x \in Entry |-> Net(x)'], EntriesOf(t))
    BY DEF BalanceAddsUp, EntriesOf
<1> DEFINE F == [x \in Entry |-> Net(x)]
           G == [x \in Entry |-> Net(x)']
<1>1. owed \in [Teacher -> Int] /\ owed[t] = SumFunctionOnSet(F, EntriesOf(t))
    BY DEF TypeOK, BalanceAddsUp
<1>2. \A x \in EntriesOf(t) : F[x] \in Int /\ G[x] \in Int
    BY DEF EntriesOf
<1>3. CASE TeacherOf[e] = t
    <2>1. e \in EntriesOf(t) /\ F[e] = Net(e) /\ G[e] = Net(e) + d
        BY <1>3 DEF EntriesOf
    <2>2. \A x \in EntriesOf(t) \ {e} : F[x] = G[x]
        BY DEF EntriesOf
    <2>3. owed'[t] = owed[t] + d
        BY <1>1, <1>3
    <2> HIDE DEF F, G
    <2>4. SumFunctionOnSet(G, EntriesOf(t)) = SumFunctionOnSet(F, EntriesOf(t)) - F[e] + G[e]
        BY <1>2, <2>1, <2>2, FinitelyMany, SumChange
    <2> QED
        BY <1>1, <2>1, <2>3, <2>4 DEF F, G
<1>4. CASE TeacherOf[e] # t
    <2>1. \A x \in EntriesOf(t) : F[x] = G[x]
        BY <1>4 DEF EntriesOf
    <2>2. owed'[t] = owed[t]
        BY <1>1, <1>4
    <2> HIDE DEF F, G
    <2>3. SumFunctionOnSet(F, EntriesOf(t)) = SumFunctionOnSet(G, EntriesOf(t))
        BY <2>1, FinitelyMany, SumSame
    <2> QED
        BY <1>1, <2>2, <2>3 DEF F, G
<1> QED
    BY <1>3, <1>4

\* Sums of rows of cents are numbers of cents.
LEMMA NetTyped ==
    ASSUME TypeOK, NEW x \in Entry
    PROVE  SumFunctionOnSet(claw[x], Source) \in Nat /\ Net(x) \in Int
<1>1. \A s \in Source : claw[x][s] \in Nat
    BY DEF TypeOK
<1>2. SumFunctionOnSet(claw[x], Source) \in Nat
    BY <1>1, FinitelyMany, SumNatural
<1>3. recovered[x] \in Nat
    BY DEF TypeOK
<1> QED
    BY <1>2, <1>3 DEF Net

\* So they are after a step.
LEMMA NetTypedNext ==
    ASSUME TypeOK', NEW x \in Entry
    PROVE  SumFunctionOnSet(claw'[x], Source) \in Nat /\ Net(x)' \in Int
<1>1. \A s \in Source : claw'[x][s] \in Nat
    BY DEF TypeOK
<1>2. SumFunctionOnSet(claw'[x], Source) \in Nat
    BY <1>1, FinitelyMany, SumNatural
<1>3. recovered'[x] \in Nat
    BY DEF TypeOK
<1> QED
    BY <1>2, <1>3 DEF Net

\* A clawback row written where there was none adds its cents to its entry and
\* to the balance of the entry's teacher.
LEMMA ClawbackAdds ==
    ASSUME TypeOK, TypeOK', BalanceAddsUp, NEW e \in Entry, NEW s \in Source, NEW c \in Nat,
           claw[e][s] = 0, WriteClawback(e, s, c), UNCHANGED recovered
    PROVE  BalanceAddsUp'
<1>1. /\ claw \in [Entry -> [Source -> Nat]] /\ claw' \in [Entry -> [Source -> Nat]]
      /\ claw' = [claw EXCEPT ![e][s] = c]
    BY DEF TypeOK, WriteClawback
<1>2. \A x \in Entry \ {e} : claw'[x] = claw[x]
    BY <1>1
<1>3. claw'[e][s] = c /\ \A y \in Source \ {s} : claw[e][y] = claw'[e][y]
    BY <1>1
<1>4. SumFunctionOnSet(claw'[e], Source)
         = SumFunctionOnSet(claw[e], Source) - claw[e][s] + claw'[e][s]
    <2> DEFINE F == claw[e]
               G == claw'[e]
    <2>1. \A y \in Source : F[y] \in Int /\ G[y] \in Int
        BY <1>1
    <2>2. \A y \in Source \ {s} : F[y] = G[y]
        BY <1>3
    <2> HIDE DEF F, G
    <2>3. SumFunctionOnSet(G, Source) = SumFunctionOnSet(F, Source) - F[s] + G[s]
        BY <2>1, <2>2, FinitelyMany, SumChange
    <2> QED
        BY <2>3 DEF F, G
<1>5. Net(e)' = Net(e) + c
    <2>1. recovered[e] \in Nat /\ SumFunctionOnSet(claw[e], Source) \in Nat
        BY NetTyped DEF TypeOK
    <2> QED
        BY <1>3, <1>4, <2>1 DEF Net
<1>6. \A x \in Entry \ {e} : Net(x)' = Net(x)
    BY <1>2 DEF Net
<1>7. \A x \in Entry : Net(x) \in Int /\ Net(x)' \in Int
    BY NetTyped, NetTypedNext
<1>8. owed' = [owed EXCEPT ![TeacherOf[e]] = @ + c] /\ c \in Int
    BY DEF WriteClawback
<1> QED
    BY <1>5, <1>6, <1>7, <1>8, BalanceMoves

\* A debt recovery takes its cut from its entry and from the balance.
LEMMA RecoverySubtracts ==
    ASSUME TypeOK, TypeOK', BalanceAddsUp, NEW e \in Entry, NEW cut \in Nat,
           WriteDebtRecovery(e, cut), UNCHANGED claw
    PROVE  BalanceAddsUp'
<1>1. recovered \in [Entry -> Nat] /\ recovered' = [recovered EXCEPT ![e] = @ + cut]
    BY DEF TypeOK, WriteDebtRecovery
<1>2. Net(e)' = Net(e) + (-cut)
    <2>1. SumFunctionOnSet(claw[e], Source) \in Nat
        BY NetTyped
    <2> QED
        BY <1>1, <2>1 DEF Net
<1>3. \A x \in Entry \ {e} : Net(x)' = Net(x)
    BY <1>1 DEF Net
<1>4. owed' = [owed EXCEPT ![TeacherOf[e]] = @ + (-cut)]
    BY OwnerAssumption DEF TypeOK, WriteDebtRecovery
<1>5. \A x \in Entry : Net(x) \in Int /\ Net(x)' \in Int
    BY NetTyped, NetTypedNext
<1>6. -cut \in Int
    OBVIOUS
<1> QED
    BY <1>2, <1>3, <1>4, <1>5, <1>6, BalanceMoves

\* The rows of one source against one entry, and the entry's total with them,
\* move by the same cents.
LEMMA TotalMoves ==
    ASSUME TypeOK, TypeOK', EntryAddsUp, NEW e \in Entry, NEW s \in Source,
           NEW d \in Nat, claw'[e][s] + resv'[e][s] = claw[e][s] + resv[e][s] + d,
           \A x \in Entry, y \in Source : x # e \/ y # s =>
               claw'[x][y] = claw[x][y] /\ resv'[x][y] = resv[x][y],
           reclaimed' = [reclaimed EXCEPT ![e] = @ + d]
    PROVE  EntryAddsUp'
<1> SUFFICES ASSUME NEW x \in Entry
             PROVE  reclaimed'[x] = SumFunctionOnSet([y \in Source |-> claw'[x][y] + resv'[x][y]], Source)
    BY DEF EntryAddsUp
<1> DEFINE F == [y \in Source |-> claw[x][y] + resv[x][y]]
           G == [y \in Source |-> claw'[x][y] + resv'[x][y]]
<1>1. /\ claw \in [Entry -> [Source -> Nat]] /\ resv \in [Entry -> [Source -> Nat]]
      /\ claw' \in [Entry -> [Source -> Nat]] /\ resv' \in [Entry -> [Source -> Nat]]
      /\ reclaimed \in [Entry -> Nat]
    BY DEF TypeOK
<1>2. \A y \in Source : F[y] \in Nat /\ G[y] \in Nat
    BY <1>1
<1>3. reclaimed[x] = SumFunctionOnSet(F, Source)
    BY DEF EntryAddsUp
<1>4. CASE x = e
    <2>1. G[s] = F[s] + d /\ reclaimed'[x] = reclaimed[x] + d
        BY <1>1, <1>4
    <2>2. \A y \in Source \ {s} : F[y] = G[y]
        BY <1>1
    <2> HIDE DEF F, G
    <2>3. SumFunctionOnSet(G, Source) = SumFunctionOnSet(F, Source) - F[s] + G[s]
        BY <1>2, <2>2, FinitelyMany, SumChange
    <2>4. SumFunctionOnSet(F, Source) \in Nat
        BY <1>1, <1>3
    <2>5. F[s] \in Nat /\ SumFunctionOnSet(G, Source) = SumFunctionOnSet(F, Source) + d
        BY <1>2, <2>1, <2>3, <2>4
    <2> QED
        BY <1>3, <2>1, <2>5 DEF F, G
<1>5. CASE x # e
    <2>1. \A y \in Source : F[y] = G[y]
        BY <1>1, <1>5
    <2>2. reclaimed'[x] = reclaimed[x]
        BY <1>1, <1>5
    <2> HIDE DEF F, G
    <2>3. SumFunctionOnSet(F, Source) = SumFunctionOnSet(G, Source)
        BY <2>1, FinitelyMany, SumSame
    <2> QED
        BY <1>3, <2>2, <2>3 DEF F, G
<1> QED
    BY <1>4, <1>5

\* Every step keeps the totals equal to the sums of their rows.
LEMMA TotalsNext ==
    ASSUME TypeOK, TypeOK', EntryAddsUp, BalanceAddsUp, [LedgerNext]_ledgerVars
    PROVE  EntryAddsUp' /\ BalanceAddsUp'
<1>1. CASE UNCHANGED <<claw, resv, reclaimed, debtVars>>
    BY <1>1 DEF EntryAddsUp, BalanceAddsUp, Net, debtVars
<1>2. ASSUME NEW e \in Entry, NEW cut \in Nat, WriteDebtRecovery(e, cut),
             UNCHANGED <<claw, resv, reclaimed>>
      PROVE  EntryAddsUp' /\ BalanceAddsUp'
    <2>1. EntryAddsUp'
        BY <1>2 DEF EntryAddsUp
    <2> QED
        BY <1>2, <2>1, RecoverySubtracts
<1>3. ASSUME NEW e \in Entry, NEW s \in Source, NEW cents \in 1..Amount[e],
             RecordClawback(e, s, cents)
      PROVE  EntryAddsUp' /\ BalanceAddsUp'
    <2> DEFINE apply == Capped(cents, Reclaimable(e))
    <2>1. apply \in Nat
        BY ReclaimableTyped, AmountAssumption DEF Capped, TypeOK
    <2>2. /\ claw[e][s] = 0 /\ WriteClawback(e, s, apply)
          /\ UNCHANGED recovered /\ UNCHANGED resv
          /\ reclaimed' = [reclaimed EXCEPT ![e] = @ + apply]
        BY <1>3 DEF RecordClawback
    <2> HIDE DEF apply
    <2>3. BalanceAddsUp'
        BY <2>1, <2>2, ClawbackAdds
    <2>4. claw'[e][s] + resv'[e][s] = claw[e][s] + resv[e][s] + apply
        BY <2>1, <2>2 DEF TypeOK, WriteClawback
    <2>5. \A x \in Entry, y \in Source : x # e \/ y # s =>
              claw'[x][y] = claw[x][y] /\ resv'[x][y] = resv[x][y]
        BY <2>2 DEF TypeOK, WriteClawback
    <2> QED
        BY <2>1, <2>2, <2>3, <2>4, <2>5, TotalMoves
<1>4. ASSUME NEW e \in Entry, NEW s \in Source, NEW rev \in 0..Amount[e],
             NEW short \in 0..Amount[e], ReserveReversal(e, s, rev, short)
      PROVE  EntryAddsUp' /\ BalanceAddsUp'
    <2> DEFINE r == Capped(rev, Reclaimable(e))
               c == Capped(short, Reclaimable(e) - r)
    <2>1. r \in Nat /\ c \in Nat /\ r + c \in Nat
        BY ReclaimableTyped, AmountAssumption DEF Capped, TypeOK
    <2>2. /\ claw[e][s] = 0 /\ resv[e][s] = 0 /\ WriteClawback(e, s, c)
          /\ UNCHANGED recovered /\ resv' = [resv EXCEPT ![e][s] = r]
          /\ reclaimed' = [reclaimed EXCEPT ![e] = @ + r + c]
        BY <1>4 DEF ReserveReversal
    <2> HIDE DEF r, c
    <2>3. BalanceAddsUp'
        BY <2>1, <2>2, ClawbackAdds
    <2>4. claw'[e][s] + resv'[e][s] = claw[e][s] + resv[e][s] + (r + c)
        BY <2>1, <2>2 DEF TypeOK, WriteClawback
    <2>5. \A x \in Entry, y \in Source : x # e \/ y # s =>
              claw'[x][y] = claw[x][y] /\ resv'[x][y] = resv[x][y]
        BY <2>2 DEF TypeOK, WriteClawback
    <2>6. reclaimed' = [reclaimed EXCEPT ![e] = @ + (r + c)]
        <3>1. reclaimed[e] + r + c = reclaimed[e] + (r + c)
            BY <2>1 DEF TypeOK
        <3> QED
            BY <2>2, <3>1
    <2> QED
        BY <2>1, <2>3, <2>4, <2>5, <2>6, TotalMoves
<1>5. recovered \in [Entry -> Nat]
    BY DEF TypeOK
<1> QED
    BY <1>1, <1>2, <1>3, <1>4, <1>5, MoneyMoves

\* An empty ledger adds up to nothing.
LEMMA TotalsInit == Init => EntryAddsUp /\ BalanceAddsUp
<1> SUFFICES ASSUME Init PROVE EntryAddsUp /\ BalanceAddsUp
    OBVIOUS
<1>1. EntryAddsUp
    <2> SUFFICES ASSUME NEW e \in Entry
                 PROVE  SumFunctionOnSet([s \in Source |-> claw[e][s] + resv[e][s]], Source) = 0
        BY DEF Init, EntryAddsUp
    <2> DEFINE F == [s \in Source |-> claw[e][s] + resv[e][s]]
    <2>1. \A s \in Source : F[s] = 0
        BY DEF Init
    <2> HIDE DEF F
    <2>2. SumFunctionOnSet(F, Source) = 0
        BY <2>1, FinitelyMany, SumZero
    <2> QED
        BY <2>2 DEF F
<1>2. \A e \in Entry : Net(e) = 0
    <2> SUFFICES ASSUME NEW e \in Entry PROVE Net(e) = 0
        OBVIOUS
    <2> DEFINE F == claw[e]
    <2>1. \A s \in Source : F[s] = 0
        BY DEF Init
    <2> HIDE DEF F
    <2>2. SumFunctionOnSet(F, Source) = 0
        BY <2>1, FinitelyMany, SumZero
    <2> QED
        BY <2>2 DEF F, Net, Init
<1>3. BalanceAddsUp
    <2> SUFFICES ASSUME NEW t \in Teacher
                 PROVE  SumFunctionOnSet([e \in Entry |-> Net(e)], EntriesOf(t)) = 0
        BY DEF Init, BalanceAddsUp
    <2> DEFINE F == [e \in Entry |-> Net(e)]
    <2>1. \A e \in EntriesOf(t) : F[e] = 0
        BY <1>2 DEF EntriesOf
    <2> HIDE DEF F
    <2>2. SumFunctionOnSet(F, EntriesOf(t)) = 0
        BY <2>1, FinitelyMany, SumZero
    <2> QED
        BY <2>2 DEF F
<1> QED
    BY <1>1, <1>3

\* The functions recompute these sums from the rows on every call; the model keeps
\* them as state.  After any sequence of calls the two agree, which is what allows
\* it to: a fact of the model's own bookkeeping, not a promise of the code.
LEMMA TotalsAreSums == LedgerSpec => [](EntryAddsUp /\ BalanceAddsUp)
<1>1. Init => EntryAddsUp /\ BalanceAddsUp
    BY TotalsInit
<1>2. IndInv /\ IndInv' /\ EntryAddsUp /\ BalanceAddsUp /\ [LedgerNext]_ledgerVars
         => EntryAddsUp' /\ BalanceAddsUp'
    BY TotalsNext DEF IndInv
<1> QED
    BY <1>1, <1>2, Inductive, PTL DEF LedgerSpec

-----------------------------------------------------------------------------
(* The manual queue.                                                       *)

Worth == [e \in Entry |-> Left(e)]

Queue(t) == {e \in EntriesOf(t) : status[e] = "manual_due"}

\* What the netting of an entry is made of: its older siblings are entries, and
\* their worth, like its own, is a number of cents.
LEMMA QueueTyped ==
    ASSUME TypeOK, RecoveryCap, NEW t \in Teacher
    PROVE  /\ Debt(t) \in Nat
           /\ \A e \in Entry : Left(e) \in Nat /\ Worth[e] = Left(e)
           /\ IsFiniteSet(Queue(t)) /\ Queue(t) \subseteq Entry
           /\ \A Q \in SUBSET Queue(t) : IsFiniteSet(Q) /\ SumFunctionOnSet(Worth, Q) \in Nat
<1>1. Debt(t) \in Nat
    BY DEF TypeOK, Debt
<1>2. \A e \in Entry : Left(e) \in Nat /\ Worth[e] = Left(e)
    BY AmountAssumption DEF TypeOK, RecoveryCap, Left, Worth
<1>3. Queue(t) \subseteq Entry /\ IsFiniteSet(EntriesOf(t)) /\ Queue(t) \in SUBSET EntriesOf(t)
    BY FinitelyMany DEF Queue, EntriesOf
<1>4. IsFiniteSet(Queue(t))
    BY <1>3, FS_Subset
<1>5. ASSUME NEW Q \in SUBSET Queue(t)
      PROVE  IsFiniteSet(Q) /\ SumFunctionOnSet(Worth, Q) \in Nat
    <2>1. IsFiniteSet(Q)
        BY <1>4, FS_Subset
    <2>2. \A e \in Q : Worth[e] \in Nat
        BY <1>2, <1>3
    <2> QED
        BY <2>1, <2>2, SumNatural
<1> QED
    BY <1>1, <1>2, <1>3, <1>4, <1>5

\* The share of a queued entry, in terms of the queue.
LEMMA ShareOfQueued ==
    ASSUME NEW t \in Teacher, NEW e \in Queue(t)
    PROVE  /\ OlderDue(e) = {o \in Queue(t) : o < e}
           /\ FifoShare(e) = LET unclaimed == Debt(t) - SumFunctionOnSet(Worth, OlderDue(e))
                             IN  IF unclaimed > 0 THEN Capped(unclaimed, Left(e)) ELSE 0
<1>1. TeacherOf[e] = t
    BY DEF Queue, EntriesOf
<1>2. OlderDue(e) = {o \in Queue(t) : o < e}
    BY <1>1 DEF OlderDue, Queue
<1> QED
    BY <1>1, <1>2 DEF FifoShare, Worth

\* First in, first out, the queue shares out the debt or is used up by it.
LEMMA QueueShares ==
    ASSUME TypeOK, RecoveryCap, NEW t \in Teacher
    PROVE  SumFunctionOnSet([e \in Entry |-> FifoShare(e)], Queue(t))
              = Capped(Debt(t), SumFunctionOnSet(Worth, Queue(t)))
<1> DEFINE Share == [e \in Entry |-> FifoShare(e)]
           Below(n) == {e \in Queue(t) : e < n}
           P == {n \in Nat : SumFunctionOnSet(Share, Below(n))
                               = Capped(Debt(t), SumFunctionOnSet(Worth, Below(n)))}
<1>1. /\ Debt(t) \in Nat /\ Queue(t) \subseteq Nat /\ IsFiniteSet(Queue(t))
      /\ \A e \in Queue(t) : e \in Entry /\ Left(e) \in Nat /\ Worth[e] = Left(e)
      /\ \A n \in Nat : IsFiniteSet(Below(n)) /\ SumFunctionOnSet(Worth, Below(n)) \in Nat
    BY QueueTyped, EntryAssumption
<1>2. ASSUME NEW e \in Queue(t)
      PROVE  LET unclaimed == Debt(t) - SumFunctionOnSet(Worth, Below(e))
             IN  Share[e] = IF unclaimed > 0 THEN Capped(unclaimed, Left(e)) ELSE 0
    <2>1. e \in Entry /\ OlderDue(e) = Below(e)
        BY <1>1, ShareOfQueued
    <2>2. FifoShare(e) = LET unclaimed == Debt(t) - SumFunctionOnSet(Worth, OlderDue(e))
                         IN  IF unclaimed > 0 THEN Capped(unclaimed, Left(e)) ELSE 0
        BY ShareOfQueued
    <2> HIDE DEF Below
    <2> QED
        BY <2>1, <2>2
<1>3. ASSUME NEW e \in Queue(t) PROVE Share[e] \in Nat
    <2> DEFINE older == SumFunctionOnSet(Worth, Below(e))
    <2>1. older \in Nat /\ Debt(t) \in Nat /\ Left(e) \in Nat
        BY <1>1
    <2>2. Share[e] = IF Debt(t) - older > 0 THEN Capped(Debt(t) - older, Left(e)) ELSE 0
        BY <1>2
    <2> HIDE DEF older, Share
    <2> QED
        BY <2>1, <2>2 DEF Capped
<1>4. 0 \in P
    <2>1. Below(0) = {}
        BY <1>1
    <2> QED
        BY <1>1, <2>1, SumEmpty DEF Capped
<1>5. ASSUME NEW n \in Nat, n \in P PROVE n + 1 \in P
    <2>1. CASE n \notin Queue(t)
        <3>1. Below(n + 1) = Below(n)
            BY <1>1, <2>1
        <3> QED
            BY <1>5, <3>1
    <2>2. CASE n \in Queue(t)
        <3> DEFINE A == SumFunctionOnSet(Worth, Below(n))
                   B == SumFunctionOnSet(Share, Below(n))
        <3>1. Below(n + 1) = Below(n) \cup {n} /\ n \notin Below(n)
            BY <1>1, <2>2
        <3>2. SumFunctionOnSet(Worth, Below(n + 1)) = Left(n) + A
            <4>1. \A e \in Below(n) \cup {n} : Worth[e] \in Int
                BY <1>1, <2>2
            <4>2. IsFiniteSet(Below(n)) /\ Worth[n] = Left(n)
                BY <1>1, <2>2
            <4> HIDE DEF Below
            <4> QED
                BY <3>1, <4>1, <4>2, SumAdd
        <3>3. SumFunctionOnSet(Share, Below(n + 1)) = Share[n] + B
            <4>1. \A e \in Below(n) \cup {n} : Share[e] \in Int
                BY <1>3, <2>2
            <4>2. IsFiniteSet(Below(n))
                BY <1>1
            <4> HIDE DEF Below, Share
            <4> QED
                BY <3>1, <4>1, <4>2, SumAdd
        <3>4. B = Capped(Debt(t), A)
            BY <1>5
        <3>5. Share[n] = IF Debt(t) - A > 0 THEN Capped(Debt(t) - A, Left(n)) ELSE 0
            BY <1>2, <2>2
        <3>6. A \in Nat /\ Left(n) \in Nat /\ Debt(t) \in Nat
            BY <1>1, <2>2
        <3> HIDE DEF A, B, Share, Below
        <3>7. Share[n] + B = Capped(Debt(t), Left(n) + A)
            BY <3>4, <3>5, <3>6 DEF Capped
        <3>8. SumFunctionOnSet(Share, Below(n + 1))
                 = Capped(Debt(t), SumFunctionOnSet(Worth, Below(n + 1)))
            BY <3>2, <3>3, <3>7
        <3> QED
            BY <3>8 DEF P
    <2> QED
        BY <2>1, <2>2
<1>6. \A n \in Nat : n \in P
    <2> HIDE DEF P
    <2> QED
        BY <1>4, <1>5, NaturalInduction
<1>7. PICK n \in Nat : \A e \in Queue(t) : e < n
    BY <1>1, FiniteIsBounded
<1>8. Below(n) = Queue(t)
    BY <1>7
<1> QED
    BY <1>6, <1>8

\* The shares of the queued entries add up to the debt, or to the worth of the
\* whole queue when the debt is larger: no cent is lost and none counts twice.
THEOREM LedgerQueue == LedgerSpec => []QueueCoversDebt
<1>1. TypeOK /\ RecoveryCap => QueueCoversDebt
    BY QueueShares DEF QueueCoversDebt, Queue, Worth
<1>2. IndInv => TypeOK /\ RecoveryCap
    BY DEF IndInv
<1> QED
    BY <1>1, <1>2, Inductive, PTL

\* Only the administrator settles a queued entry, and with its share of the debt.
LEMMA WhoSettles ==
    ASSUME TypeOK, [LedgerNext]_ledgerVars, NEW e \in Entry,
           status[e] = "manual_due", status'[e] \in {"manual_paid", "debt_recovered"}
    PROVE  SettleManualDue(e)
<1> USE DEF claimVars, retryVars, debtVars, clawVars, teacherVars, consentVars, timeVars
<1>0. status \in [Entry -> Status]
    BY DEF TypeOK
<1>1. ~World
    BY DEF World, Deliver, Mature, BackoffEnds, LeaseLapses, PublishAgreement, SetPayoutsEnabled
<1>2. ~Consent
    BY <1>0 DEF Consent, AcceptAgreement, Release
<1>3. Admin => SettleManualDue(e)
    <2>1. ASSUME NEW x \in Entry, RequeueFailed(x) PROVE FALSE
        BY <1>0, <2>1 DEF RequeueFailed, Release
    <2>2. ASSUME NEW x \in Entry, x # e, SettleManualDue(x) PROVE FALSE
        BY <1>0, <2>2 DEF SettleManualDue
    <2>3. ASSUME NEW t \in Teacher, NEW rail \in Rail, SetPayoutMethod(t, rail) PROVE FALSE
        BY <1>0, <2>3 DEF SetPayoutMethod
    <2>4. ASSUME NEW t \in Teacher, NEW h, PlaceHold(t, h) \/ LiftHold(t, h) PROVE FALSE
        BY <2>4 DEF PlaceHold, LiftHold
    <2> QED
        BY <2>1, <2>2, <2>3, <2>4 DEF Admin
<1>4. ~SweepFunctions
    <2>1. ~Materialize /\ ~ReclaimLapsed /\ ~Claim
        BY <1>0 DEF Materialize, ReclaimLapsed, Claim
    <2>2. ASSUME NEW x \in Entry, NEW at, NEW cut, NEW cents,
                 \/ RecordTransferFailed(x, at) \/ RecordDebtRecovered(x, at, cut)
                 \/ RecordManualDue(x, at, cut) \/ RecordTransferSucceeded(x, at, cents, cut)
          PROVE  FALSE
        BY <1>0, <2>2 DEF RecordTransferFailed, RecordDebtRecovered, RecordManualDue,
                          RecordTransferSucceeded, Fenced
    <2> QED
        BY <2>1, <2>2 DEF SweepFunctions
<1>5. ~WebhookFunctions
    <2>1. ASSUME NEW d \in Dispute, DisputeHold(d) \/ DisputeRelease(d) PROVE FALSE
        BY <1>0, <2>1 DEF DisputeHold, DisputeRelease, Release
    <2>2. ASSUME NEW x \in Entry, NEW s \in Source, NEW cents,
                 ConfirmReversal(x, s) \/ VoidClean(x, s, cents) \/ RecordClawback(x, s, cents)
          PROVE  FALSE
        BY <1>0, <2>2 DEF ConfirmReversal, VoidClean, RecordClawback
    <2>3. ASSUME NEW x \in Entry, NEW s \in Source, NEW rev, NEW short,
                 ReserveReversal(x, s, rev, short)
          PROVE  FALSE
        BY <2>3 DEF ReserveReversal
    <2> QED
        BY <2>1, <2>2, <2>3 DEF WebhookFunctions
<1>6. ~UNCHANGED ledgerVars
    BY DEF ledgerVars
<1> QED
    BY <1>1, <1>2, <1>3, <1>4, <1>5, <1>6 DEF LedgerNext

\* Settling an entry with its share leaves the share of every sibling as it was.
LEMMA ShareKept ==
    ASSUME TypeOK, RecoveryCap, NEW e \in Entry, NEW o \in Entry, SettleManualDue(e),
           TeacherOf[e] = TeacherOf[o], status[o] = "manual_due", status'[o] = "manual_due"
    PROVE  FifoShare(o)' = FifoShare(o)
<1> DEFINE t == TeacherOf[e]
           older(x) == SumFunctionOnSet(Worth, OlderDue(x))
           after == SumFunctionOnSet(Worth', OlderDue(o) \ {e})
           share(D, sum, worth) == IF D - sum > 0 THEN Capped(D - sum, worth) ELSE 0
<1>1. PICK cut \in 0..Left(e) :
          /\ cut = FifoShare(e)
          /\ WriteDebtRecovery(e, cut)
          /\ status' = [status EXCEPT ![e] = IF cut = Left(e) THEN "debt_recovered" ELSE "manual_paid"]
    BY DEF SettleManualDue
<1>2. /\ t \in Teacher /\ TeacherOf[o] = t /\ e # o
      /\ e \in Queue(t) /\ o \in Queue(t) /\ e \in Nat /\ o \in Nat
    BY <1>1, OwnerAssumption, EntryAssumption DEF SettleManualDue, Queue, EntriesOf, TypeOK
<1>3. /\ Debt(t) \in Nat /\ Left(e) \in Nat /\ Left(o) \in Nat
      /\ Worth[e] = Left(e) /\ Worth[o] = Left(o)
      /\ \A x \in Queue(t) : Worth[x] \in Nat
    BY <1>2, QueueTyped
<1>4. /\ OlderDue(e) = {x \in Queue(t) : x < e}
      /\ OlderDue(o) = {x \in Queue(t) : x < o}
      /\ FifoShare(e) = share(Debt(t), older(e), Left(e))
      /\ FifoShare(o) = share(Debt(t), older(o), Left(o))
    BY <1>2, ShareOfQueued
<1>5. OlderDue(o)' = OlderDue(o) \ {e}
    <2>1. \A x \in Entry : x # e => status'[x] = status[x]
        BY <1>1 DEF TypeOK
    <2>2. status'[e] # "manual_due"
        BY <1>1 DEF TypeOK
    <2> QED
        BY <2>1, <2>2 DEF OlderDue, EntriesOf
<1>6. Debt(t)' = Debt(t) - cut
    <2>1. owed' = [owed EXCEPT ![t] = @ - cut] /\ owed[t] \in Int
        BY <1>1, <1>2 DEF WriteDebtRecovery, TypeOK
    <2>2. cut \in Nat /\ cut <= Debt(t)
        <3>1. older(e) \in Nat
            BY <1>2, <1>4, QueueTyped
        <3> QED
            BY <1>1, <1>3, <1>4, <3>1 DEF Capped
    <2>3. owed'[t] = owed[t] - cut /\ owed[t] \in Int
        BY <1>2, <2>1 DEF TypeOK
    <2>4. CASE owed[t] > 0
        BY <2>2, <2>3, <2>4 DEF Debt
    <2>5. CASE ~(owed[t] > 0)
        BY <2>2, <2>3, <2>5 DEF Debt
    <2> QED
        BY <2>4, <2>5
<1>7. Left(o)' = Left(o) /\ \A x \in Queue(t) \ {e} : Worth'[x] = Worth[x]
    <2>1. \A x \in Entry : x # e => recovered'[x] = recovered[x]
        BY <1>1 DEF WriteDebtRecovery, TypeOK
    <2> QED
        BY <1>2, <2>1 DEF Left, Worth, Queue, EntriesOf
<1>8. FifoShare(o)' = share(Debt(t)', after, Left(o)')
    BY <1>2, <1>5 DEF FifoShare, Worth
<1>9. after = SumFunctionOnSet(Worth, OlderDue(o) \ {e})
    <2> DEFINE F == Worth
               G == Worth'
               T == OlderDue(o) \ {e}
    <2>1. IsFiniteSet(T) /\ \A x \in T : G[x] = F[x]
        BY <1>2, <1>4, <1>7, QueueTyped
    <2> HIDE DEF F, G, T
    <2>2. SumFunctionOnSet(G, T) = SumFunctionOnSet(F, T)
        BY <2>1, SumSame
    <2> QED
        BY <2>2 DEF F, G, T
<1>10. /\ after \in Nat /\ older(o) \in Nat /\ older(e) \in Nat
       /\ e < o => older(o) = Left(e) + after /\ older(e) <= after
       /\ o < e => after = older(o) /\ older(o) + Left(o) <= older(e)
    <2>1. /\ IsFiniteSet(OlderDue(o)) /\ IsFiniteSet(OlderDue(e))
          /\ IsFiniteSet(OlderDue(o) \ {e})
          /\ older(o) \in Nat /\ older(e) \in Nat
          /\ SumFunctionOnSet(Worth, OlderDue(o) \ {e}) \in Nat
          /\ SumFunctionOnSet(Worth, OlderDue(e) \ {o}) \in Nat
        BY <1>2, <1>4, QueueTyped
    <2>2. /\ \A x \in OlderDue(o) : Worth[x] \in Nat
          /\ \A x \in OlderDue(e) : Worth[x] \in Nat
        BY <1>3, <1>4
    <2>3. ASSUME e < o
          PROVE  older(o) = Left(e) + after /\ older(e) <= after
        <3>1. e \in OlderDue(o)
            BY <1>2, <1>4, <2>3
        <3>2. older(o) = Worth[e] + SumFunctionOnSet(Worth, OlderDue(o) \ {e})
            BY <2>1, <2>2, <3>1, SumRemove
        <3>3. OlderDue(e) \in SUBSET (OlderDue(o) \ {e})
            <4>1. ASSUME NEW x \in OlderDue(e) PROVE x \in OlderDue(o) /\ x # e
                <5>1. x \in Queue(t) /\ x \in Nat /\ x < e
                    BY <1>4, EntryAssumption DEF Queue, EntriesOf
                <5>2. x < o /\ x # e
                    BY <1>2, <2>3, <5>1
                <5> QED
                    BY <1>4, <5>1, <5>2
            <4> QED
                BY <4>1
        <3>4. older(e) <= SumFunctionOnSet(Worth, OlderDue(o) \ {e})
            BY <2>1, <2>2, <3>3, SumPart
        <3> QED
            BY <1>3, <1>9, <3>2, <3>4
    <2>4. ASSUME o < e
          PROVE  after = older(o) /\ older(o) + Left(o) <= older(e)
        <3>1. OlderDue(o) \ {e} = OlderDue(o)
            BY <1>2, <1>4, <2>4
        <3>2. o \in OlderDue(e)
            BY <1>2, <1>4, <2>4
        <3>3. older(e) = Worth[o] + SumFunctionOnSet(Worth, OlderDue(e) \ {o})
            BY <2>1, <2>2, <3>2, SumRemove
        <3>4. OlderDue(o) \in SUBSET (OlderDue(e) \ {o}) /\ IsFiniteSet(OlderDue(e) \ {o})
            <4>1. ASSUME NEW x \in OlderDue(o) PROVE x \in OlderDue(e) /\ x # o
                <5>1. x \in Queue(t) /\ x \in Nat /\ x < o
                    BY <1>4, EntryAssumption DEF Queue, EntriesOf
                <5>2. x < e /\ x # o
                    BY <1>2, <2>4, <5>1
                <5> QED
                    BY <1>4, <5>1, <5>2
            <4>2. IsFiniteSet(OlderDue(e) \ {o})
                BY <2>1, FS_Subset
            <4> QED
                BY <4>1, <4>2
        <3>5. older(o) <= SumFunctionOnSet(Worth, OlderDue(e) \ {o})
            BY <2>2, <3>4, SumPart
        <3>6. after = older(o)
            BY <1>9, <3>1
        <3>7. older(e) = Left(o) + SumFunctionOnSet(Worth, OlderDue(e) \ {o})
            BY <1>3, <3>3
        <3>8. older(o) \in Nat /\ Left(o) \in Nat
            BY <1>3, <2>1
        <3> DEFINE rest == SumFunctionOnSet(Worth, OlderDue(e) \ {o})
        <3>9. rest \in Nat /\ older(o) <= rest /\ older(e) = Left(o) + rest
            BY <2>1, <3>5, <3>7
        <3> HIDE DEF rest, older
        <3>10. older(o) + Left(o) <= older(e)
            BY <3>8, <3>9
        <3> QED
            BY <3>6, <3>10
    <2> QED
        BY <1>9, <2>1, <2>3, <2>4
<1>11. cut = share(Debt(t), older(e), Left(e))
    BY <1>1, <1>4
<1> HIDE DEF older, after
<1>12. e < o \/ o < e
    BY <1>2
<1>13. share(Debt(t) - cut, after, Left(o)) = share(Debt(t), older(o), Left(o))
    <2>1. CASE e < o
        BY <1>3, <1>10, <1>11, <2>1 DEF Capped
    <2>2. CASE o < e
        BY <1>3, <1>10, <1>11, <2>2 DEF Capped
    <2> QED
        BY <1>12, <2>1, <2>2
<1> QED
    BY <1>4, <1>6, <1>7, <1>8, <1>13

\* The queue may be settled in any order: settling one entry leaves the share of
\* the debt, and so the net pay, of every other as it was (20260811:264-266).
THEOREM LedgerShares == LedgerSpec => SharesKeptBySettling
<1> DEFINE Kept ==
        \A e, o \in Entry :
            /\ TeacherOf[e] = TeacherOf[o]
            /\ status[e] = "manual_due" /\ status'[e] \in {"manual_paid", "debt_recovered"}
            /\ status[o] = "manual_due" /\ status'[o] = "manual_due"
            => FifoShare(o)' = FifoShare(o)
<1>1. ASSUME IndInv, [LedgerNext]_ledgerVars PROVE Kept
    BY <1>1, WhoSettles, ShareKept DEF IndInv
<1>2. IndInv /\ [LedgerNext]_ledgerVars => [Kept]_ledgerVars
    BY <1>1
<1> QED
    BY <1>2, Inductive, PTL DEF LedgerSpec, SharesKeptBySettling
=============================================================================
