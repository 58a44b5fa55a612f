------------------------ MODULE ConnectPayouts_proofs ------------------------
(***************************************************************************)
(* The composition, for any number of sweeps, webhook handlers, refunds,   *)
(* disputes and entries: its processes use the ledger only through its     *)
(* functions, and however they interleave a reversal is reserved first, a  *)
(* source takes back its share once, and only a source that was lost does. *)
(***************************************************************************)
EXTENDS ConnectPayouts, TransferSweep_proofs

-----------------------------------------------------------------------------
(* The arithmetic of a share.                                              *)

\* A part of a whole, rounded down, is no more than the whole.
LEMMA PartOfWhole ==
    ASSUME NEW a \in Nat, NEW c \in Nat, NEW t \in Nat \ {0}, c <= t
    PROVE  (a * c) \div t \in Nat /\ (a * c) \div t <= a
<1> DEFINE q == (a * c) \div t
<1>1. a * c \in Nat /\ a * c <= a * t
    <2>1. a * c \in Nat /\ a * t \in Nat /\ t - c \in Nat /\ a * (t - c) \in Nat
        OBVIOUS
    <2>2. a * t = a * c + a * (t - c)
        BY <2>1
    <2> QED
        BY <2>1, <2>2
<1>2. q \in Nat /\ q * t <= a * c
    BY <1>1
<1> HIDE DEF q
<1>3. ASSUME q > a PROVE FALSE
    <2>1. q - a - 1 \in Nat /\ (q - a - 1) * t \in Nat
        BY <1>2, <1>3
    <2>2. q * t = a * t + t + (q - a - 1) * t
        BY <1>2, <2>1
    <2> QED
        BY <1>1, <1>2, <2>1, <2>2
<1>4. q <= a
    BY <1>2, <1>3
<1> QED
    BY <1>2, <1>4 DEF q

\* The teacher's proportional share of a refund is at most the earning.
LEMMA ShareTyped ==
    ASSUME NEW e \in Entry, NEW s \in Source
    PROVE  Share(e, s) \in Nat /\ Share(e, s) <= Amount[e] /\ Amount[e] \in Nat
<1>1. SourceCharge[s] \in Charge /\ Amount[e] \in Nat /\ Cents[s] \in Nat
    BY AmountAssumption, ChargeAssumption, CentsAssumption
<1>2. Total[SourceCharge[s]] \in Nat \ {0} /\ Cents[s] <= Total[SourceCharge[s]]
    BY <1>1, CentsAssumption
<1> QED
    BY <1>1, <1>2, PartOfWhole DEF Share

\* Capping by naturals.
LEMMA CappedTyped ==
    ASSUME NEW n \in Nat, NEW m \in Nat
    PROVE  Capped(n, m) \in Nat /\ Capped(n, m) <= n /\ Capped(n, m) <= m
BY DEF Capped

-----------------------------------------------------------------------------
(* The inductive invariant.  What a handler carries from one call to the   *)
(* next stays true while others act: its source stays lost, its rows are   *)
(* funded by the source's charge, what it asks to reserve is one share, the*)
(* reservation it is to reverse and the reversal it is to confirm exist.   *)

Working == {"list", "work", "reserve", "reverse", "confirm"}

LocalsOK ==
    /\ step \in [Hook -> {"idle", "hold", "list", "work", "reserve", "reverse", "confirm"}]
    /\ src \in [Hook -> Source \cup {"none"}]
    /\ rows \in [Hook -> SUBSET Entry]
    /\ cap \in [Hook -> [Entry -> Nat]]
    /\ paid \in [Hook -> SUBSET Entry]
    /\ known \in [Hook -> SUBSET Entry]
    /\ plan \in [Hook -> [entry : Entry \cup {0}, reversal : Nat, shortfall : Nat]]

EventsOK ==
    /\ fate \in [Source -> {"none", "open", "won", "lost"}]
    /\ placed \in SUBSET Dispute

HookSound(h) ==
    /\ step[h] = "idle" => rows[h] = {}
    /\ step[h] = "hold" => src[h] \in Dispute
    /\ step[h] \in Working => src[h] \in Source /\ fate[src[h]] = "lost"
    /\ \A e \in rows[h] : ChargeOf[e] = SourceCharge[src[h]]
    /\ \A e \in Entry : cap[h][e] <= Amount[e]
    /\ step[h] \in {"reserve", "reverse", "confirm"} => plan[h].entry \in rows[h]
    /\ step[h] = "reserve" =>
          plan[h].reversal + plan[h].shortfall <= Share(plan[h].entry, src[h])
    /\ step[h] = "reverse" => resv[plan[h].entry][src[h]] > 0
    /\ step[h] = "confirm" => undone[plan[h].entry][src[h]] # 0

\* What the rows and the reversal of an entry and a source say of each other
RowSound(e, s) ==
    /\ resv[e][s] > 0 => xfer[e] # 0
    /\ undone[e][s] # 0 => undone[e][s] = resv[e][s]
    /\ s \in confirmed[e] => undone[e][s] # 0
    /\ claw[e][s] + resv[e][s] <= Share(e, s)
    /\ claw[e][s] + resv[e][s] > 0 => fate[s] = "lost" /\ ChargeOf[e] = SourceCharge[s]

VoidSound(e) ==
    status[e] = "voided" => \E s \in Source :
        fate[s] = "lost" /\ ChargeOf[e] = SourceCharge[s] /\ Share(e, s) = Amount[e]

BalanceSound(e) == AmountReversed(e) <= sent[e]

Sheet ==
    /\ \A e \in Entry : VoidSound(e) /\ BalanceSound(e)
    /\ \A e \in Entry, s \in Source : RowSound(e, s)

HookInv == LocalsOK /\ EventsOK /\ Sheet /\ \A h \in Hook : HookSound(h)

LEMMA HookTypeParts == HookTypeOK <=> LocalsOK /\ EventsOK
BY DEF HookTypeOK, LocalsOK, EventsOK

\* At first nothing was reclaimed and no handler runs.
LEMMA HookInvInit == PayoutInit => HookInv
<1> SUFFICES ASSUME PayoutInit PROVE HookInv
    OBVIOUS
<1> USE DEF PayoutInit, AllInit
<1>1. LocalsOK /\ EventsOK
    BY DEF HookInit, LocalsOK, EventsOK, Nothing
<1>2. ASSUME NEW h \in Hook PROVE HookSound(h)
    BY AmountAssumption DEF HookInit, HookSound, Working
<1>3. ASSUME NEW e \in Entry PROVE VoidSound(e) /\ BalanceSound(e)
    <2>1. VoidSound(e) /\ undone[e] = [s \in Source |-> 0] /\ sent[e] = 0
        BY DEF Init, StripeInit, VoidSound
    <2>2. AmountReversed(e) = 0
        <3> DEFINE F == undone[e]
        <3>1. \A s \in Source : F[s] = 0
            BY <2>1
        <3> HIDE DEF F
        <3>2. SumFunctionOnSet(F, Source) = 0
            BY <3>1, ChargeAssumption, SumZero
        <3> QED
            BY <3>2 DEF F, AmountReversed
    <2> QED
        BY <2>1, <2>2 DEF BalanceSound
<1>4. ASSUME NEW e \in Entry, NEW s \in Source PROVE RowSound(e, s)
    BY ShareTyped DEF Init, StripeInit, RowSound
<1> QED
    BY <1>1, <1>2, <1>3, <1>4 DEF HookInv, Sheet

-----------------------------------------------------------------------------
(* What a step leaves alone.                                               *)

\* It reclaims nothing, voids nothing and takes no transfer row away.
Quiet ==
    /\ UNCHANGED <<claw, resv, confirmed>>
    /\ \A e \in Entry : xfer[e] # 0 => xfer'[e] # 0
    /\ \A e \in Entry : status'[e] = "voided" => status[e] = "voided"

LostStays == \A s \in Source : fate[s] = "lost" => fate'[s] = "lost"

\* What another handler relies on does not go away.
Persists ==
    /\ LostStays
    /\ \A e \in Entry, s \in Source :
          /\ resv[e][s] > 0 => resv'[e][s] > 0
          /\ undone[e][s] # 0 => undone'[e][s] # 0

Untouched(h) ==
    /\ step'[h] = step[h] /\ src'[h] = src[h] /\ rows'[h] = rows[h] /\ cap'[h] = cap[h]
    /\ paid'[h] = paid[h] /\ known'[h] = known[h] /\ plan'[h] = plan[h]

\* A handler that does not act stays sound.
LEMMA OthersKept ==
    ASSUME LocalsOK, NEW h \in Hook, HookSound(h), Untouched(h), Persists
    PROVE  HookSound(h)'
<1>1. \A e \in rows[h] : e \in Entry
    BY DEF LocalsOK
<1>2. Share(plan[h].entry, src[h])' = Share(plan[h].entry, src[h])
    BY DEF Share, Untouched
<1>3. step[h] \in Working => src[h] \in Source
    BY DEF HookSound
<1> QED
    BY <1>1, <1>2, <1>3 DEF HookSound, Untouched, Persists, LostStays, Working

\* The locals of a handler that ends are forgotten.
LEMMA EndMoves ==
    ASSUME LocalsOK, NEW h \in Hook, End(h)
    PROVE  LocalsOK' /\ HookSound(h)' /\ \A k \in Hook : k # h => Untouched(k)
<1>1. LocalsOK' /\ \A k \in Hook : k # h => Untouched(k)
    BY DEF LocalsOK, End, HookAt, Untouched, Nothing
<1>2. step'[h] = "idle" /\ rows'[h] = {} /\ cap'[h] = [e \in Entry |-> 0]
    BY DEF LocalsOK, End, HookAt
<1>3. HookSound(h)'
    BY <1>2, AmountAssumption DEF HookSound, Working
<1> QED
    BY <1>1, <1>3

\* A handler that is done with an entry goes on with the others.
LEMMA NextRowMoves ==
    ASSUME LocalsOK, NEW h \in Hook, HookSound(h), step[h] \in Working, NEW e, NextRow(h, e),
           LostStays
    PROVE  LocalsOK' /\ HookSound(h)' /\ \A k \in Hook : k # h => Untouched(k)
<1>1. LocalsOK' /\ \A k \in Hook : k # h => Untouched(k)
    BY DEF LocalsOK, NextRow, HookAt, Untouched, Nothing
<1>2. /\ step'[h] = "work" /\ src'[h] = src[h] /\ rows'[h] = rows[h] \ {e}
      /\ \A x \in Entry : cap'[h][x] \in {0, cap[h][x]}
    BY DEF LocalsOK, NextRow, HookAt
<1>3. src[h] \in Source /\ fate'[src[h]] = "lost"
    BY DEF HookSound, LostStays
<1>4. HookSound(h)'
    BY <1>2, <1>3, AmountAssumption DEF HookSound, Working
<1> QED
    BY <1>1, <1>4

\* Steps that reclaim nothing keep what the rows say.
LEMMA SheetQuiet ==
    ASSUME Sheet, Quiet, LostStays, UNCHANGED undone, \A e \in Entry : BalanceSound(e)'
    PROVE  Sheet' /\ Persists
<1>1. ASSUME NEW e \in Entry, NEW s \in Source PROVE RowSound(e, s)'
    <2>1. RowSound(e, s) /\ Share(e, s)' = Share(e, s)
        BY DEF Sheet, Share
    <2> QED
        BY <2>1 DEF RowSound, Quiet, LostStays
<1>2. ASSUME NEW e \in Entry PROVE VoidSound(e)'
    <2>1. VoidSound(e) /\ \A s \in Source : Share(e, s)' = Share(e, s)
        BY DEF Sheet, Share
    <2> QED
        BY <2>1 DEF VoidSound, Quiet, LostStays
<1> QED
    BY <1>1, <1>2 DEF Sheet, Persists, Quiet

\* The balance of the Transfers nobody touches
LEMMA BalanceKept ==
    ASSUME Sheet, UNCHANGED stripeVars
    PROVE  \A e \in Entry : BalanceSound(e)'
BY DEF Sheet, BalanceSound, AmountReversed, stripeVars

\* The functions that are not the clawback's reclaim nothing.
LEMMA QuietFunctions ==
    ASSUME TypeOK,
           \/ World \/ Consent \/ Admin \/ Materialize \/ UNCHANGED ledgerVars
           \/ \E d \in Dispute : DisputeHold(d) \/ DisputeRelease(d)
    PROVE  Quiet
<1> USE DEF claimVars, retryVars, debtVars, clawVars, teacherVars, consentVars, timeVars
<1>0. status \in [Entry -> Status]
    BY DEF TypeOK
<1>1. World => Quiet
    BY DEF World, Deliver, Mature, BackoffEnds, LeaseLapses, PublishAgreement,
           SetPayoutsEnabled, Quiet
<1>2. Consent => Quiet
    BY <1>0 DEF Consent, AcceptAgreement, Release, Quiet
<1>3. Admin => Quiet
    <2>1. ASSUME NEW e \in Entry, RequeueFailed(e) PROVE Quiet
        BY <1>0, <2>1 DEF RequeueFailed, Release, Quiet
    <2>2. ASSUME NEW e \in Entry, SettleManualDue(e) PROVE Quiet
        <3>1. \A x \in Entry : status'[x] # status[x] =>
                  status'[x] \in {"debt_recovered", "manual_paid"}
            BY <1>0, <2>2 DEF SettleManualDue
        <3> QED
            BY <2>2, <3>1 DEF SettleManualDue, Quiet
    <2>3. ASSUME NEW t \in Teacher, NEW r \in Rail, SetPayoutMethod(t, r) PROVE Quiet
        BY <1>0, <2>3 DEF SetPayoutMethod, Quiet
    <2>4. ASSUME NEW t \in Teacher, NEW h, PlaceHold(t, h) \/ LiftHold(t, h) PROVE Quiet
        BY <2>4 DEF PlaceHold, LiftHold, Quiet
    <2> QED
        BY <2>1, <2>2, <2>3, <2>4 DEF Admin
<1>4. Materialize => Quiet
    BY <1>0 DEF Materialize, Quiet
<1>5. ASSUME NEW d \in Dispute, DisputeHold(d) \/ DisputeRelease(d) PROVE Quiet
    BY <1>0, <1>5 DEF DisputeHold, DisputeRelease, Release, Quiet
<1>6. UNCHANGED ledgerVars => Quiet
    BY DEF ledgerVars, Quiet
<1> QED
    BY <1>1, <1>2, <1>3, <1>4, <1>5, <1>6

\* Nor does a sweep.
LEMMA QuietSweep ==
    ASSUME TypeOK, SweepTypeOK, NEW p \in Sweep, SweepStep(p) \/ Crash(p)
    PROVE  Quiet
<1> USE DEF claimVars, retryVars, debtVars, clawVars, teacherVars, consentVars, timeVars
<1>0. status \in [Entry -> Status] /\ xfer \in [Entry -> Nat]
    BY DEF TypeOK
<1>1. UNCHANGED ledgerVars => Quiet
    BY DEF ledgerVars, Quiet
<1>2. Materialize \/ ReclaimLapsed \/ Claim => Quiet
    BY <1>0 DEF Materialize, ReclaimLapsed, Claim, Quiet
<1>3. ASSUME NEW e, NEW at, RecordTransferFailed(e, at) PROVE Quiet
    BY <1>0, <1>3 DEF RecordTransferFailed, Quiet
<1>4. ASSUME NEW e \in Entry, NEW at, NEW cut,
             RecordDebtRecovered(e, at, cut) \/ RecordManualDue(e, at, cut)
      PROVE  Quiet
    BY <1>0, <1>4 DEF RecordDebtRecovered, RecordManualDue, Quiet
<1>5. ASSUME NEW e \in Entry, NEW at, NEW cents, NEW cut,
             RecordTransferSucceeded(e, at, cents, cut)
      PROVE  Quiet
    BY <1>0, <1>5 DEF RecordTransferSucceeded, Quiet
<1>6. ASSUME NEW e \in Entry, Writes(p, e) PROVE Quiet
    BY <1>4, <1>5, <1>6 DEF Writes, WritesDebt, WritesManual, WritesPaid
<1> QED
    BY <1>1, <1>2, <1>3, <1>6
    DEF SweepStep, Crash, StartRun, ReclaimLeases, ClaimEntries, ClaimNothing, RecordFailed,
        Settle, AnswerLost, TransferCreated, TransferThrows, StoreThrows, Abandon

\* A Transfer is only ever created, so it keeps covering its reversals.
LEMMA BalanceOfSweep ==
    ASSUME StripeTypeOK, SweepTypeOK, Sheet, NEW p \in Sweep, SweepStep(p) \/ Crash(p)
    PROVE  UNCHANGED undone /\ \A e \in Entry : BalanceSound(e)'
<1>1. UNCHANGED stripeVars => UNCHANGED undone /\ \A e \in Entry : BalanceSound(e)'
    BY BalanceKept DEF stripeVars
<1>2. ASSUME NEW x \in Entry, CreateTransfer(x, Pay(p, x))
      PROVE  UNCHANGED undone /\ \A e \in Entry : BalanceSound(e)'
    <2>1. UNCHANGED undone /\ sent' = [sent EXCEPT ![x] = Pay(p, x)] /\ sent[x] \in {0, Pay(p, x)}
        BY <1>2 DEF CreateTransfer
    <2> SUFFICES ASSUME NEW e \in Entry PROVE BalanceSound(e)'
        BY <2>1
    <2>2. AmountReversed(e)' = AmountReversed(e) /\ AmountReversed(e) <= sent[e]
        BY <2>1 DEF AmountReversed, Sheet, BalanceSound
    <2>3. AmountReversed(e) \in Nat
        <3> DEFINE F == undone[e]
        <3>1. \A s \in Source : F[s] \in Nat
            BY DEF StripeTypeOK
        <3> HIDE DEF F
        <3>2. SumFunctionOnSet(F, Source) \in Nat
            BY <3>1, ChargeAssumption, SumNatural
        <3> QED
            BY <3>2 DEF F, AmountReversed
    <2>4. Pay(p, x) \in Nat /\ sent \in [Entry -> Nat]
        BY Netting DEF StripeTypeOK
    <2>5. sent[e] <= sent'[e] /\ sent'[e] \in Nat /\ sent[e] \in Nat
        <3> HIDE DEF Pay
        <3> QED
            BY <2>1, <2>4
    <2> QED
        BY <2>2, <2>3, <2>5 DEF BalanceSound
<1> QED
    BY <1>1, <1>2
    DEF SweepStep, Crash, StartRun, ReclaimLeases, ClaimEntries, ClaimNothing, RecordFailed,
        Settle, AnswerLost, TransferCreated, TransferThrows, StoreThrows, Abandon

-----------------------------------------------------------------------------
(* The steps of the handlers.  Each keeps the locals typed, its own handler*)
(* sound and what the rows say, and takes nothing another relies on.       *)

KeptBy(h) ==
    /\ LocalsOK' /\ EventsOK' /\ Sheet' /\ Persists /\ HookSound(h)'
    /\ \A k \in Hook : k # h => Untouched(k)

\* What holds before a step of handler h
Before(h) ==
    /\ TypeOK /\ StripeTypeOK
    /\ LocalsOK /\ EventsOK /\ Sheet /\ HookSound(h)

LEMMA BeginKept ==
    ASSUME NEW h \in Hook, Before(h),
           (\E s \in Source : BeginClawback(h, s)) \/ (\E d \in Dispute : BeginHold(h, d))
    PROVE  KeptBy(h)
<1>1. PICK s \in Source, label \in {"list", "hold"} :
          /\ step[h] = "idle" /\ Materialize
          /\ label = "list" => fate[s] = "lost"
          /\ label = "hold" => s \in Dispute
          /\ src' = [src EXCEPT ![h] = s]
          /\ step' = [step EXCEPT ![h] = label]
          /\ UNCHANGED <<stripeVars, eventVars, rows, cap, paid, known, plan>>
    BY DEF BeginClawback, BeginHold, Begin, HookAt, Source
<1>2. Quiet /\ LostStays /\ UNCHANGED undone
    BY <1>1, QuietFunctions DEF Before, LostStays, eventVars, stripeVars
<1>3. Sheet' /\ Persists
    BY <1>1, <1>2, BalanceKept, SheetQuiet DEF Before
<1>4. LocalsOK' /\ EventsOK' /\ \A k \in Hook : k # h => Untouched(k)
    BY <1>1 DEF Before, LocalsOK, EventsOK, eventVars, Untouched
<1>5. HookSound(h)'
    <2>1. rows'[h] = {} /\ step'[h] = label /\ src'[h] = s /\ cap'[h] = cap[h]
        BY <1>1 DEF Before, HookSound, LocalsOK
    <2> QED
        BY <1>1, <2>1 DEF Before, HookSound, LocalsOK, Working, eventVars
<1> QED
    BY <1>3, <1>4, <1>5 DEF KeptBy

\* A handler that only ends, or goes on with the next entry, around a call that
\* reclaims nothing
LEMMA GoneOn ==
    ASSUME NEW h \in Hook, Before(h), Quiet, UNCHANGED stripeVars, LostStays, EventsOK',
           End(h) \/ (step[h] \in Working /\ \E e : NextRow(h, e))
    PROVE  KeptBy(h)
<1>1. Sheet' /\ Persists
    BY BalanceKept, SheetQuiet DEF Before, stripeVars
<1> QED
    BY <1>1, EndMoves, NextRowMoves DEF Before, KeptBy

LEMMA PlaceDisputeHoldKept ==
    ASSUME NEW h \in Hook, Before(h), PlaceDisputeHold(h)
    PROVE  KeptBy(h)
<1>1. src[h] \in Dispute
    BY DEF Before, HookSound, PlaceDisputeHold
<1>2. Quiet
    BY <1>1, QuietFunctions DEF Before, PlaceDisputeHold
<1>3. End(h) /\ UNCHANGED stripeVars /\ LostStays /\ EventsOK'
    BY <1>1 DEF PlaceDisputeHold, LostStays, Before, EventsOK
<1> QED
    BY <1>2, <1>3, GoneOn

\* The steps that call nothing, or are refused
LEMMA NoCallKept ==
    ASSUME NEW h \in Hook, Before(h),
           \/ HookFails(h) \/ FinishClawback(h)
           \/ \E e \in Entry : SkipRow(h, e) \/ ApplyRefused(h, e) \/ PlanNothing(h, e)
    PROVE  KeptBy(h)
<1>1. UNCHANGED <<stripeVars, eventVars>>
    BY DEF HookFails, FinishClawback, SkipRow, ApplyRefused, PlanNothing
<1>2. LostStays /\ EventsOK'
    BY <1>1 DEF Before, EventsOK, eventVars, LostStays
<1>3. Quiet
    BY QuietFunctions
       DEF Before, HookFails, FinishClawback, SkipRow, ApplyRefused, PlanNothing
<1>4. End(h) \/ (step[h] \in Working /\ \E e : NextRow(h, e))
    BY DEF HookFails, FinishClawback, SkipRow, ApplyRefused, PlanNothing, Working
<1> QED
    BY <1>1, <1>2, <1>3, <1>4, GoneOn

\* A step of the handler alone: ledger, Stripe and bank stay.
LEMMA AloneKept ==
    ASSUME NEW h \in Hook, Before(h), UNCHANGED <<ledgerVars, stripeVars, eventVars>>
    PROVE  EventsOK' /\ Sheet' /\ Persists
<1>1. Quiet
    BY QuietFunctions DEF Before
<1>2. LostStays /\ UNCHANGED undone /\ EventsOK'
    BY DEF LostStays, stripeVars, eventVars, Before, EventsOK
<1> QED
    BY <1>1, <1>2, BalanceKept, SheetQuiet DEF Before

\* The list holds the entries of the source's charge, each up to what it earned.
LEMMA ListEntriesKept ==
    ASSUME NEW h \in Hook, Before(h), ListEntries(h)
    PROVE  KeptBy(h)
<1> DEFINE listed == {e \in FundedBy(SourceCharge[src[h]]) : status[e] \notin {"none", "voided"}}
           caps == [e \in Entry |-> IF e \in listed THEN Reclaimable(e) ELSE 0]
           settled == {e \in listed : xfer[e] # 0}
           applied == {e \in listed : claw[e][src[h]] # 0 \/ resv[e][src[h]] # 0}
<1>1. EventsOK' /\ Sheet' /\ Persists
    BY AloneKept DEF ListEntries
<1>2. \A e \in Entry : caps[e] \in Nat /\ caps[e] <= Amount[e]
    <2>1. ASSUME NEW e \in Entry PROVE Reclaimable(e) \in Nat /\ Reclaimable(e) <= Amount[e]
        BY AmountAssumption DEF Before, TypeOK, Reclaimable
    <2> QED
        BY <2>1, AmountAssumption
<1>3. /\ listed \subseteq Entry /\ settled \subseteq Entry /\ applied \subseteq Entry
      /\ \A e \in listed : ChargeOf[e] = SourceCharge[src[h]]
      /\ caps \in [Entry -> Nat]
    BY <1>2 DEF FundedBy
<1>4. /\ step[h] = "list" /\ step' = [step EXCEPT ![h] = "work"]
      /\ rows' = [rows EXCEPT ![h] = listed] /\ cap' = [cap EXCEPT ![h] = caps]
      /\ paid' = [paid EXCEPT ![h] = settled] /\ known' = [known EXCEPT ![h] = applied]
      /\ UNCHANGED <<src, plan, fate>>
    BY DEF ListEntries, HookAt, eventVars
<1> HIDE DEF listed, caps, settled, applied
<1>5. LocalsOK' /\ \A k \in Hook : k # h => Untouched(k)
    BY <1>3, <1>4 DEF Before, LocalsOK, Untouched
<1>6. HookSound(h)'
    BY <1>2, <1>3, <1>4 DEF Before, LocalsOK, HookSound, Working
<1> QED
    BY <1>1, <1>5, <1>6 DEF KeptBy

\* What is left of a Transfer is a number of cents,
LEMMA BalanceTyped ==
    ASSUME StripeTypeOK, Sheet, NEW e \in Entry
    PROVE  ReversibleBalance(e) \in Nat /\ AmountReversed(e) \in Nat
<1> DEFINE F == undone[e]
<1>1. \A s \in Source : F[s] \in Nat
    BY DEF StripeTypeOK
<1> HIDE DEF F
<1>2. SumFunctionOnSet(F, Source) \in Nat
    BY <1>1, ChargeAssumption, SumNatural
<1>3. AmountReversed(e) \in Nat
    BY <1>2 DEF F, AmountReversed
<1>4. sent[e] \in Nat /\ AmountReversed(e) <= sent[e]
    BY DEF StripeTypeOK, Sheet, BalanceSound
<1> QED
    BY <1>3, <1>4 DEF ReversibleBalance

\* and the two parts of the plan add up to no more than one share.
LEMMA SplitWithinShare ==
    ASSUME NEW e \in Entry, NEW s \in Source, NEW reversible \in Nat, NEW limit \in Nat
    PROVE  LET rev == Capped(Reversal(e, s, reversible), limit)
               short == Capped(Shortfall(e, s, reversible), limit - rev)
           IN  rev \in Nat /\ short \in Nat /\ rev + short <= Share(e, s)
<1>1. Share(e, s) \in Nat
    BY ShareTyped
<1> QED
    BY <1>1 DEF Capped, Reversal, Shortfall

LEMMA PlanReversalKept ==
    ASSUME NEW h \in Hook, Before(h), NEW e \in Entry, PlanReversal(h, e)
    PROVE  KeptBy(h)
<1>1. EventsOK' /\ Sheet' /\ Persists
    BY AloneKept DEF PlanReversal
<1>2. /\ step[h] = "work" /\ src[h] \in Source /\ fate[src[h]] = "lost" /\ e \in rows[h]
      /\ cap[h][e] \in Nat /\ Share(e, src[h]) \in Nat
    BY ShareTyped DEF Before, HookSound, LocalsOK, PlanReversal, Working
<1>3. PICK rev \in Nat, short \in Nat :
          /\ rev + short <= Share(e, src[h])
          /\ plan' = [plan EXCEPT ![h] = [entry |-> e, reversal |-> rev, shortfall |-> short]]
    <2>1. CASE e \in known[h]
        <3>1. plan' = [plan EXCEPT ![h] = [entry |-> e, reversal |-> 0, shortfall |-> 0]]
            BY <2>1 DEF PlanReversal
        <3>2. 0 \in Nat /\ 0 + 0 <= Share(e, src[h])
            BY <1>2
        <3> QED
            BY <3>1, <3>2
    <2>2. CASE e \notin known[h]
        <3>1. ReversibleBalance(e) \in Nat
            BY BalanceTyped DEF Before
        <3> QED
            BY <1>2, <2>2, <3>1, SplitWithinShare DEF PlanReversal
    <2> QED
        BY <2>1, <2>2
<1>4. step' = [step EXCEPT ![h] = "reserve"] /\ UNCHANGED <<src, rows, cap, paid, known, fate>>
    BY DEF PlanReversal, HookAt, eventVars
<1>5. LocalsOK' /\ \A k \in Hook : k # h => Untouched(k)
    BY <1>3, <1>4 DEF Before, LocalsOK, Untouched
<1>6. HookSound(h)'
    <2>1. plan'[h] = [entry |-> e, reversal |-> rev, shortfall |-> short] /\ step'[h] = "reserve"
        BY <1>3, <1>4 DEF Before, LocalsOK
    <2>2. Share(plan[h].entry, src[h])' = Share(e, src[h])
        BY <1>4, <2>1 DEF Share
    <2> QED
        BY <1>2, <1>3, <1>4, <2>1, <2>2 DEF Before, HookSound, Working
<1> QED
    BY <1>1, <1>5, <1>6 DEF KeptBy

\* The entry of a plan, and what its source is.
LEMMA PlannedEntry ==
    ASSUME NEW h \in Hook, LocalsOK, HookSound(h), step[h] \in {"reserve", "reverse", "confirm"}
    PROVE  /\ plan[h].entry \in Entry /\ src[h] \in Source /\ fate[src[h]] = "lost"
           /\ ChargeOf[plan[h].entry] = SourceCharge[src[h]]
           /\ step[h] \in Working
BY DEF LocalsOK, HookSound, Working

LEMMA ReserveFindsKept ==
    ASSUME NEW h \in Hook, Before(h), ReserveFinds(h)
    PROVE  KeptBy(h)
<1>1. UNCHANGED <<ledgerVars, stripeVars, eventVars>> /\ step[h] = "reserve"
    BY DEF ReserveFinds
<1>2. EventsOK' /\ Sheet' /\ Persists
    BY <1>1, AloneKept
<1>3. CASE NextRow(h, plan[h].entry)
    BY <1>1, <1>2, <1>3, NextRowMoves DEF Before, Working, KeptBy, Persists
<1>4. CASE /\ resv[plan[h].entry][src[h]] > 0
           /\ HookAt(h, "reverse") /\ UNCHANGED <<src, rows, cap, paid, known, plan>>
    <2>1. LocalsOK' /\ \A k \in Hook : k # h => Untouched(k)
        BY <1>4 DEF Before, LocalsOK, HookAt, Untouched
    <2>2. step'[h] = "reverse" /\ UNCHANGED <<resv, fate>>
        BY <1>1, <1>4 DEF Before, LocalsOK, HookAt, ledgerVars, clawVars, eventVars
    <2>3. HookSound(h)'
        BY <1>1, <1>4, <2>2 DEF Before, HookSound, Working
    <2> QED
        BY <1>2, <2>1, <2>3 DEF KeptBy
<1> QED
    BY <1>3, <1>4 DEF ReserveFinds

\* Rows of one entry and source that change, while all others stay
LEMMA SheetOneRow ==
    ASSUME Sheet, LostStays, NEW e \in Entry, NEW s \in Source, RowSound(e, s)',
           \A x \in Entry, y \in Source : x # e \/ y # s =>
               /\ claw'[x][y] = claw[x][y] /\ resv'[x][y] = resv[x][y]
               /\ undone'[x][y] = undone[x][y] /\ (y \in confirmed'[x] => y \in confirmed[x]),
           \A x \in Entry : xfer[x] # 0 => xfer'[x] # 0,
           \A x \in Entry : status'[x] = "voided" => status[x] = "voided",
           \A x \in Entry : BalanceSound(x)',
           resv[e][s] > 0 => resv'[e][s] > 0,
           undone[e][s] # 0 => undone'[e][s] # 0
    PROVE  Sheet' /\ Persists
<1>1. ASSUME NEW x \in Entry, NEW y \in Source PROVE RowSound(x, y)'
    <2>1. CASE x = e /\ y = s
        BY <2>1
    <2>2. CASE x # e \/ y # s
        <3>1. RowSound(x, y) /\ Share(x, y)' = Share(x, y)
            BY DEF Sheet, Share
        <3>2. /\ claw'[x][y] = claw[x][y] /\ resv'[x][y] = resv[x][y]
              /\ undone'[x][y] = undone[x][y] /\ (y \in confirmed'[x] => y \in confirmed[x])
            BY <2>2
        <3> QED
            BY <3>1, <3>2 DEF RowSound, LostStays
    <2> QED
        BY <2>1, <2>2
<1>2. ASSUME NEW x \in Entry PROVE VoidSound(x)'
    <2>1. VoidSound(x) /\ \A y \in Source : Share(x, y)' = Share(x, y)
        BY DEF Sheet, Share
    <2> QED
        BY <2>1 DEF VoidSound, LostStays
<1>3. Persists
    <2>1. \A x \in Entry, y \in Source : x # e \/ y # s =>
              resv'[x][y] = resv[x][y] /\ undone'[x][y] = undone[x][y]
        OBVIOUS
    <2> QED
        BY <2>1 DEF Persists
<1> QED
    BY <1>1, <1>2, <1>3 DEF Sheet

\* A reservation is made once for an entry and a source, of at most one share.
LEMMA ReserveKept ==
    ASSUME NEW h \in Hook, Before(h), Reserve(h)
    PROVE  KeptBy(h)
<1>0. step[h] = "reserve"
    BY DEF Reserve
<1>1. PICK e \in Entry, s \in Source :
          /\ e = plan[h].entry /\ s = src[h] /\ fate[s] = "lost"
          /\ ChargeOf[e] = SourceCharge[s] /\ step[h] \in Working
    BY <1>0, PlannedEntry DEF Before
<1>2. ReserveReversal(e, s, plan[h].reversal, plan[h].shortfall)
      /\ UNCHANGED <<sent, undone, fate, placed, stripeVars>>
    BY <1>1 DEF Reserve, stripeVars, eventVars
<1>3. PICK r \in Nat, c \in Nat :
          /\ r = Capped(plan[h].reversal, Reclaimable(e))
          /\ c = Capped(plan[h].shortfall, Reclaimable(e) - r)
          /\ r + c <= Share(e, s)
    <2>1. plan[h].reversal \in Nat /\ plan[h].shortfall \in Nat
        BY DEF Before, LocalsOK
    <2>2. Reclaimable(e) \in Nat
        BY ReclaimableTyped DEF Before, TypeOK
    <2>3. plan[h].reversal + plan[h].shortfall <= Share(e, s) /\ Share(e, s) \in Nat
        BY <1>0, <1>1, ShareTyped DEF Before, HookSound
    <2>4. PICK r \in Nat : /\ r = Capped(plan[h].reversal, Reclaimable(e))
                           /\ r <= plan[h].reversal /\ r <= Reclaimable(e)
        BY <2>1, <2>2, CappedTyped
    <2>5. PICK c \in Nat : /\ c = Capped(plan[h].shortfall, Reclaimable(e) - r)
                           /\ c <= plan[h].shortfall
        <3>1. Reclaimable(e) - r \in Nat
            BY <2>2, <2>4
        <3> QED
            BY <2>1, <3>1, CappedTyped
    <2>6. r + c <= Share(e, s)
        BY <2>1, <2>3, <2>4, <2>5
    <2> QED
        BY <2>4, <2>5, <2>6
<1>4. /\ xfer[e] # 0 /\ resv[e][s] = 0 /\ claw[e][s] = 0
      /\ resv' = [resv EXCEPT ![e][s] = r] /\ claw' = [claw EXCEPT ![e][s] = c]
      /\ UNCHANGED <<status, xfer, confirmed>>
    BY <1>2, <1>3 DEF ReserveReversal, WriteClawback, claimVars
<1>6. /\ resv'[e][s] = r /\ claw'[e][s] = c
      /\ \A x \in Entry, y \in Source : x # e \/ y # s =>
             claw'[x][y] = claw[x][y] /\ resv'[x][y] = resv[x][y]
    BY <1>4 DEF Before, TypeOK
<1>7. RowSound(e, s)'
    <2>1. RowSound(e, s) /\ Share(e, s)' = Share(e, s)
        BY DEF Before, Sheet, Share
    <2>2. undone[e][s] = 0
        <3> undone[e][s] \in Nat
            BY DEF Before, StripeTypeOK
        <3> QED
            BY <1>4, <2>1 DEF RowSound
    <2>3. s \notin confirmed[e]
        BY <2>1, <2>2 DEF RowSound
    <2>4. c + r <= Share(e, s)
        BY <1>3, ShareTyped
    <2> QED
        BY <1>1, <1>2, <1>4, <1>6, <2>1, <2>2, <2>3, <2>4 DEF RowSound
<1>8. LostStays /\ EventsOK' /\ \A x \in Entry : BalanceSound(x)'
    <2>1. LostStays /\ EventsOK'
        BY <1>2 DEF LostStays, Before, EventsOK
    <2>2. \A x \in Entry : BalanceSound(x)'
        BY <1>2, BalanceKept DEF Before
    <2> QED
        BY <2>1, <2>2
<1>9. Sheet' /\ Persists
    <2>1. resv[e][s] > 0 => resv'[e][s] > 0
        BY <1>4
    <2>2. \A x \in Entry, y \in Source : x # e \/ y # s =>
              /\ claw'[x][y] = claw[x][y] /\ resv'[x][y] = resv[x][y]
              /\ undone'[x][y] = undone[x][y] /\ (y \in confirmed'[x] => y \in confirmed[x])
        BY <1>2, <1>4, <1>6
    <2> QED
        BY <1>2, <1>4, <1>7, <1>8, <2>1, <2>2, SheetOneRow DEF Before
<1>10. CASE NextRow(h, e)
    BY <1>1, <1>8, <1>9, <1>10, NextRowMoves DEF Before, KeptBy
<1>11. CASE /\ resv'[e][s] > 0
            /\ HookAt(h, "reverse") /\ UNCHANGED <<src, rows, cap, paid, known, plan>>
    <2>1. LocalsOK' /\ \A k \in Hook : k # h => Untouched(k)
        BY <1>11 DEF Before, LocalsOK, HookAt, Untouched
    <2>2. step'[h] = "reverse" /\ UNCHANGED fate
        BY <1>2, <1>11 DEF Before, LocalsOK, HookAt
    <2>3. HookSound(h)'
        BY <1>0, <1>1, <1>11, <2>2 DEF Before, HookSound, Working
    <2> QED
        BY <1>8, <1>9, <2>1, <2>3 DEF KeptBy
<1> QED
    BY <1>1, <1>10, <1>11 DEF Reserve

\* The reversal on Stripe carries the cents reserved, and fits in the Transfer.
LEMMA ReverseTransferKept ==
    ASSUME NEW h \in Hook, Before(h), ReverseTransfer(h)
    PROVE  KeptBy(h)
<1>0. step[h] = "reverse"
    BY DEF ReverseTransfer
<1>1. PICK e \in Entry, s \in Source :
          /\ e = plan[h].entry /\ s = src[h] /\ fate[s] = "lost"
          /\ ChargeOf[e] = SourceCharge[s] /\ step[h] \in Working
    BY <1>0, PlannedEntry DEF Before
<1>2. PICK n \in Nat : n = resv[e][s] /\ n > 0
    BY <1>0, <1>1 DEF Before, HookSound, TypeOK
<1>3. CreateReversal(e, s, n) /\ UNCHANGED <<ledgerVars, eventVars>> /\ RowSound(e, s)
    BY <1>1, <1>2 DEF ReverseTransfer, Before, Sheet
<1>4. /\ undone[e][s] \in {0, n}
      /\ undone[e][s] = 0 => n <= ReversibleBalance(e)
      /\ undone' = [undone EXCEPT ![e][s] = n] /\ UNCHANGED sent
    BY <1>2, <1>3 DEF CreateReversal
<1>5. UNCHANGED <<claw, resv, confirmed, xfer, status, fate, placed>>
    BY <1>3 DEF ledgerVars, clawVars, claimVars, eventVars
<1>6. LostStays /\ EventsOK'
    BY <1>5 DEF LostStays, Before, EventsOK
<1>7. /\ undone'[e][s] = n
      /\ \A x \in Entry, y \in Source : x # e \/ y # s => undone'[x][y] = undone[x][y]
    BY <1>4 DEF Before, StripeTypeOK
<1>9. RowSound(e, s)'
    <2>1. Share(e, s)' = Share(e, s)
        BY DEF Share
    <2> QED
        BY <1>2, <1>3, <1>5, <1>7, <2>1 DEF RowSound
<1>10. ASSUME NEW x \in Entry PROVE BalanceSound(x)'
    <2>1. BalanceSound(x)
        BY DEF Before, Sheet
    <2>2. CASE x # e
        <3>1. undone'[x] = undone[x]
            BY <1>4, <2>2 DEF Before, StripeTypeOK
        <3> QED
            BY <1>4, <2>1, <3>1 DEF BalanceSound, AmountReversed
    <2>3. CASE x = e
        <3>1. PICK F, G : F = undone[e] /\ G = undone'[e]
            OBVIOUS
        <3>2. /\ \A y \in Source : F[y] \in Int /\ G[y] \in Int
              /\ \A y \in Source \ {s} : F[y] = G[y]
              /\ F[s] \in {0, n} /\ G[s] = n
            <4>1. G = [F EXCEPT ![s] = n] /\ F \in [Source -> Nat]
                BY <1>4, <3>1 DEF Before, StripeTypeOK
            <4>2. F[s] \in {0, n}
                BY <1>4, <3>1
            <4> QED
                BY <4>1, <4>2
        <3>3. AmountReversed(e) = SumFunctionOnSet(F, Source)
              /\ AmountReversed(e)' = SumFunctionOnSet(G, Source)
            BY <3>1 DEF AmountReversed
        <3>4. F[s] = 0 => n <= sent[e] - AmountReversed(e)
            BY <1>4, <3>1 DEF ReversibleBalance
        <3>5. SumFunctionOnSet(G, Source) = SumFunctionOnSet(F, Source) - F[s] + G[s]
            <4>1. /\ IsFiniteSet(Source)
                  /\ \A y \in Source : F[y] \in Int /\ G[y] \in Int
                  /\ \A y \in Source \ {s} : F[y] = G[y]
                BY <3>2, ChargeAssumption
            <4> QED
                BY <4>1, SumChange
        <3>6. AmountReversed(e) \in Nat /\ sent[e] \in Nat /\ AmountReversed(e) <= sent[e]
            BY BalanceTyped DEF Before, StripeTypeOK, Sheet, BalanceSound
        <3>7. AmountReversed(e)' <= sent[e]
            BY <1>2, <3>2, <3>3, <3>4, <3>5, <3>6
        <3> QED
            BY <1>4, <2>3, <3>7 DEF BalanceSound
    <2> QED
        BY <2>2, <2>3
<1>11. Sheet' /\ Persists
    BY <1>2, <1>5, <1>6, <1>7, <1>9, <1>10, SheetOneRow DEF Before
<1>12. CASE End(h)
    BY <1>6, <1>11, <1>12, EndMoves DEF Before, KeptBy
<1>13. CASE HookAt(h, "confirm") /\ UNCHANGED <<src, rows, cap, paid, known, plan>>
    <2>1. LocalsOK' /\ \A k \in Hook : k # h => Untouched(k)
        BY <1>13 DEF Before, LocalsOK, HookAt, Untouched
    <2>2. step'[h] = "confirm" /\ UNCHANGED fate
        BY <1>5, <1>13 DEF Before, LocalsOK, HookAt
    <2>3. undone'[plan'[h].entry][src'[h]] # 0
        BY <1>1, <1>2, <1>7, <1>13
    <2>4. HookSound(h)'
        BY <1>0, <1>13, <2>2, <2>3 DEF Before, HookSound, Working
    <2> QED
        BY <1>6, <1>11, <2>1, <2>4 DEF KeptBy
<1> QED
    BY <1>12, <1>13 DEF ReverseTransfer

\* A row says 'succeeded' once the reversal exists.
LEMMA ConfirmKept ==
    ASSUME NEW h \in Hook, Before(h), Confirm(h)
    PROVE  KeptBy(h)
<1>0. step[h] = "confirm"
    BY DEF Confirm
<1>1. PICK e \in Entry, s \in Source :
          e = plan[h].entry /\ s = src[h] /\ step[h] \in Working
    BY <1>0, PlannedEntry DEF Before
<1>2. /\ ConfirmReversal(e, s) /\ NextRow(h, e)
      /\ UNCHANGED <<undone, fate, placed, stripeVars>>
    BY <1>1 DEF Confirm, stripeVars, eventVars
<1>3. undone[e][s] # 0
    BY <1>0, <1>1 DEF Before, HookSound
<1>4. confirmed' = [confirmed EXCEPT ![e] = @ \cup {s}] /\ UNCHANGED <<claw, resv, xfer, status>>
    BY <1>2 DEF ConfirmReversal, claimVars
<1>6. LostStays /\ EventsOK' /\ \A x \in Entry : BalanceSound(x)'
    <2>1. LostStays /\ EventsOK'
        BY <1>2 DEF LostStays, Before, EventsOK
    <2>2. \A x \in Entry : BalanceSound(x)'
        BY <1>2, BalanceKept DEF Before
    <2> QED
        BY <2>1, <2>2
<1>7. RowSound(e, s)'
    <2>1. RowSound(e, s) /\ Share(e, s)' = Share(e, s)
        BY DEF Before, Sheet, Share
    <2> QED
        BY <1>2, <1>3, <1>4, <2>1 DEF RowSound
<1>8. \A x \in Entry, y \in Source : x # e \/ y # s =>
          (y \in confirmed'[x] => y \in confirmed[x])
    BY <1>4 DEF Before, TypeOK
<1>9. Sheet' /\ Persists
    BY <1>2, <1>4, <1>6, <1>7, <1>8, SheetOneRow DEF Before
<1> QED
    BY <1>1, <1>2, <1>6, <1>9, NextRowMoves DEF Before, KeptBy

\* A clawback without a reversal takes at most one share, and voids an entry
\* only when that share is all of it.
LEMMA ApplyClawbackKept ==
    ASSUME NEW h \in Hook, Before(h), NEW e \in Entry, ApplyClawback(h, e)
    PROVE  KeptBy(h)
<1>0. /\ step[h] = "work" /\ step[h] \in Working /\ e \in rows[h] /\ NextRow(h, e)
      /\ UNCHANGED <<fate, placed, undone, stripeVars>>
    BY DEF ApplyClawback, Applies, Working, stripeVars, eventVars
<1>1. PICK s \in Source : s = src[h] /\ fate[s] = "lost" /\ ChargeOf[e] = SourceCharge[s]
    BY <1>0 DEF Before, HookSound
<1>2. PICK c \in Nat : c = Requested(h, e) /\ c <= Share(e, s)
    BY <1>1, ShareTyped, CappedTyped DEF Requested, Before, LocalsOK
<1>3. Share(e, s) \in Nat /\ Share(e, s) <= Amount[e] /\ Amount[e] \in Nat
    BY ShareTyped
<1>4. Reclaimable(e) \in Nat
    BY ReclaimableTyped DEF Before, TypeOK
<1>5. LostStays /\ EventsOK' /\ \A x \in Entry : BalanceSound(x)'
    <2>1. LostStays /\ EventsOK'
        BY <1>0 DEF LostStays, Before, EventsOK
    <2>2. \A x \in Entry : BalanceSound(x)'
        BY <1>0, BalanceKept DEF Before
    <2> QED
        BY <2>1, <2>2
<1>6. ASSUME Sheet' /\ Persists PROVE KeptBy(h)
    BY <1>0, <1>5, <1>6, NextRowMoves DEF Before, KeptBy
<1>7. CASE VoidClean(e, s, c)
    <2>1. Amount[e] <= c
        <3>1. Capped(c, Reclaimable(e)) >= Amount[e]
            BY <1>7 DEF VoidClean, TakesWhole
        <3>2. Capped(c, Reclaimable(e)) \in Nat /\ Capped(c, Reclaimable(e)) <= c
            BY <1>4, CappedTyped
        <3> QED
            BY <1>3, <3>1, <3>2
    <2>2. Share(e, s) = Amount[e]
        BY <1>2, <1>3, <2>1
    <2>3. UNCHANGED <<claw, resv, confirmed, xfer>> /\ status' = [status EXCEPT ![e] = "voided"]
        BY <1>7 DEF VoidClean, clawVars
    <2>4. \A x \in Entry, y \in Source : Share(x, y)' = Share(x, y)
        BY DEF Share
    <2>5. ASSUME NEW x \in Entry, NEW y \in Source PROVE RowSound(x, y)'
        <3>1. RowSound(x, y)
            BY DEF Before, Sheet
        <3> QED
            BY <1>0, <2>3, <2>4, <3>1 DEF RowSound
    <2>6. ASSUME NEW x \in Entry PROVE VoidSound(x)'
        <3>1. CASE x = e
            BY <1>0, <1>1, <2>2, <2>4, <3>1 DEF VoidSound
        <3>2. CASE x # e
            <4>1. VoidSound(x) /\ status'[x] = status[x]
                BY <2>3, <3>2 DEF Before, Sheet, TypeOK
            <4> QED
                BY <1>0, <2>4, <4>1 DEF VoidSound
        <3> QED
            BY <3>1, <3>2
    <2>7. Sheet'
        BY <1>5, <2>5, <2>6 DEF Sheet
    <2>8. Persists
        BY <1>0, <1>5, <2>3 DEF Persists
    <2> QED
        BY <1>6, <2>7, <2>8
<1>8. CASE RecordClawback(e, s, c)
    <2>1. PICK n \in Nat : n = Capped(c, Reclaimable(e)) /\ n <= c
        BY <1>4, CappedTyped
    <2>2. /\ claw' = [claw EXCEPT ![e][s] = n] /\ xfer[e] = 0
          /\ UNCHANGED <<resv, confirmed, xfer, status>>
        BY <1>8, <2>1 DEF RecordClawback, WriteClawback, RoutesToReversal, claimVars
    <2>3. /\ claw'[e][s] = n
          /\ \A x \in Entry, y \in Source : x # e \/ y # s => claw'[x][y] = claw[x][y]
        BY <2>2 DEF Before, TypeOK
    <2>4. RowSound(e, s)'
        <3>1. RowSound(e, s) /\ Share(e, s)' = Share(e, s)
            BY DEF Before, Sheet, Share
        <3>2. resv[e][s] = 0
            <4> resv[e][s] \in Nat
                BY DEF Before, TypeOK
            <4> QED
                BY <2>2, <3>1 DEF RowSound
        <3>3. n + 0 <= Share(e, s)
            BY <1>2, <1>3, <2>1
        <3> QED
            BY <1>0, <1>1, <2>2, <2>3, <3>1, <3>2, <3>3 DEF RowSound
    <2>5. Sheet' /\ Persists
        BY <1>0, <1>5, <2>2, <2>3, <2>4, SheetOneRow DEF Before
    <2> QED
        BY <1>6, <2>5
<1>9. CASE UNCHANGED ledgerVars
    <2>1. Quiet
        BY <1>9, QuietFunctions DEF Before
    <2> QED
        BY <1>0, <1>5, <2>1, GoneOn
<1> QED
    BY <1>1, <1>2, <1>7, <1>8, <1>9 DEF ApplyClawback

\* Every step of a handler
LEMMA HookStepKept ==
    ASSUME NEW h \in Hook, Before(h), HookStep(h) \/ HookFails(h)
    PROVE  KeptBy(h)
<1>1. CASE (\E s \in Source : BeginClawback(h, s)) \/ (\E d \in Dispute : BeginHold(h, d))
    BY <1>1, BeginKept
<1>2. CASE PlaceDisputeHold(h) \/ ListEntries(h) \/ Reserve(h) \/ ReserveFinds(h)
    BY <1>2, PlaceDisputeHoldKept, ListEntriesKept, ReserveKept, ReserveFindsKept
<1>3. CASE ReverseTransfer(h) \/ Confirm(h)
    BY <1>3, ReverseTransferKept, ConfirmKept
<1>4. CASE \/ HookFails(h) \/ FinishClawback(h)
           \/ \E e \in Entry : SkipRow(h, e) \/ ApplyRefused(h, e) \/ PlanNothing(h, e)
    BY <1>4, NoCallKept
<1>5. ASSUME NEW e \in Entry, ApplyClawback(h, e) \/ PlanReversal(h, e) PROVE KeptBy(h)
    BY <1>5, ApplyClawbackKept, PlanReversalKept
<1> QED
    BY <1>1, <1>2, <1>3, <1>4, <1>5 DEF HookStep

-----------------------------------------------------------------------------
(* The steps of the others.                                                *)

\* What others do leaves every handler sound.
LEMMA OthersStepKept ==
    ASSUME HookInv, EventsOK', Sheet', Persists, UNCHANGED hookVars
    PROVE  HookInv'
<1>1. \A h \in Hook : Untouched(h)
    BY DEF hookVars, Untouched
<1>2. LocalsOK'
    BY DEF hookVars, HookInv, LocalsOK
<1>3. ASSUME NEW h \in Hook PROVE HookSound(h)'
    BY <1>1, OthersKept DEF HookInv
<1> QED
    BY <1>2, <1>3 DEF HookInv

\* A step of the bank: what was lost stays lost.
LEMMA BankKept ==
    ASSUME TypeOK, HookInv, Bank
    PROVE  HookInv' /\ UNCHANGED <<ledgerVars, stripeVars>>
<1>1. UNCHANGED <<ledgerVars, stripeVars, placed, hookVars>>
    BY DEF Bank, RefundMade, DisputeFiled, DisputeDecided
<1>2. PICK s \in Source, f \in {"open", "won", "lost"} :
          fate[s] \in {"none", "open"} /\ fate' = [fate EXCEPT ![s] = f]
    BY DEF Bank, RefundMade, DisputeFiled, DisputeDecided, Source
<1>3. LostStays /\ EventsOK'
    BY <1>1, <1>2 DEF LostStays, HookInv, EventsOK
<1>4. Quiet /\ UNCHANGED undone
    BY <1>1, QuietFunctions DEF stripeVars
<1>5. Sheet' /\ Persists
    BY <1>1, <1>3, <1>4, BalanceKept, SheetQuiet DEF HookInv
<1> QED
    BY <1>1, <1>3, <1>5, OthersStepKept

\* The people, the release of a won dispute, and the sweeps
LEMMA SurroundingsKept ==
    ASSUME TypeOK, HookInv, UNCHANGED <<stripeVars, eventVars, hookVars>>,
           World \/ Consent \/ Admin \/ UNCHANGED ledgerVars \/ \E d \in Dispute : DisputeRelease(d)
    PROVE  HookInv'
<1>1. Quiet /\ UNCHANGED undone
    BY QuietFunctions DEF stripeVars
<1>2. LostStays /\ EventsOK'
    BY DEF LostStays, HookInv, EventsOK, eventVars
<1>3. Sheet' /\ Persists
    BY <1>1, <1>2, BalanceKept, SheetQuiet DEF HookInv
<1> QED
    BY <1>2, <1>3, OthersStepKept

LEMMA SweepsKept ==
    ASSUME TypeOK, StripeTypeOK, SweepTypeOK, HookInv, UNCHANGED <<eventVars, hookVars>>,
           NEW p \in Sweep, SweepStep(p) \/ Crash(p)
    PROVE  HookInv'
<1>1. Quiet /\ UNCHANGED undone /\ \A e \in Entry : BalanceSound(e)'
    BY QuietSweep, BalanceOfSweep DEF HookInv
<1>2. LostStays /\ EventsOK'
    BY DEF LostStays, HookInv, EventsOK, eventVars
<1>3. Sheet' /\ Persists
    BY <1>1, <1>2, SheetQuiet DEF HookInv
<1> QED
    BY <1>2, <1>3, OthersStepKept

\* Every step of the composition
LEMMA HookInvNext ==
    ASSUME TypeOK, StripeTypeOK, SweepTypeOK, HookInv, [PayoutNext]_payoutVars
    PROVE  HookInv'
<1>1. CASE (World \/ Consent \/ Admin) /\ UNCHANGED <<stripeVars, sweepVars, eventVars, hookVars>>
    BY <1>1, SurroundingsKept
<1>2. CASE \E p \in Sweep : (SweepStep(p) \/ Crash(p)) /\ UNCHANGED <<eventVars, hookVars>>
    BY <1>2, SweepsKept
<1>3. CASE Bank
    BY <1>3, BankKept
<1>4. CASE \E d \in Dispute : ReleaseWon(d)
    BY <1>4, SurroundingsKept DEF ReleaseWon
<1>5. ASSUME NEW h \in Hook, HookStep(h) \/ HookFails(h) PROVE HookInv'
    <2>1. KeptBy(h)
        BY <1>5, HookStepKept DEF Before, HookInv
    <2>2. ASSUME NEW k \in Hook PROVE HookSound(k)'
        BY <2>1, OthersKept DEF KeptBy, HookInv
    <2> QED
        BY <2>1, <2>2 DEF KeptBy, HookInv
<1>6. CASE UNCHANGED payoutVars
    BY <1>6, SurroundingsKept DEF payoutVars, allVars
<1> QED
    BY <1>1, <1>2, <1>3, <1>4, <1>5, <1>6 DEF PayoutNext

-----------------------------------------------------------------------------
(* The handlers, too, use the ledger only through its functions.           *)

\* Every webhook function but the release, with arguments in range
ClawbackFunctions ==
    \/ \E d \in Dispute : DisputeHold(d)
    \/ \E e \in Entry, s \in Source :
          \/ ConfirmReversal(e, s)
          \/ \E cents \in 1..Amount[e] : VoidClean(e, s, cents) \/ RecordClawback(e, s, cents)
          \/ \E rev, short \in 0..Amount[e] : ReserveReversal(e, s, rev, short)

ReleaseDecided == \E d \in Dispute : fate[d] \in {"won", "lost"} /\ DisputeRelease(d)

LEMMA ApplyCalls ==
    ASSUME NEW h \in Hook, Before(h), NEW e \in Entry, ApplyClawback(h, e)
    PROVE  ClawbackFunctions \/ UNCHANGED ledgerVars
<1>1. PICK s \in Source : s = src[h]
    BY DEF ApplyClawback, Applies, Before, HookSound, Working
<1>2. PICK c \in Nat : c = Requested(h, e) /\ c > 0 /\ c <= Share(e, s)
    BY <1>1, ShareTyped, CappedTyped
       DEF ApplyClawback, Applies, Requested, Before, LocalsOK
<1>3. c \in 1..Amount[e]
    BY <1>2, ShareTyped
<1> QED
    BY <1>1, <1>2, <1>3 DEF ApplyClawback, ClawbackFunctions

LEMMA ReserveCalls ==
    ASSUME NEW h \in Hook, Before(h), Reserve(h)
    PROVE  ClawbackFunctions
<1>0. step[h] = "reserve"
    BY DEF Reserve
<1>1. PICK e \in Entry, s \in Source : e = plan[h].entry /\ s = src[h]
    BY <1>0, PlannedEntry DEF Before
<1>2. PICK rev \in Nat, short \in Nat : rev = plan[h].reversal /\ short = plan[h].shortfall
    BY DEF Before, LocalsOK
<1>3. rev + short <= Share(e, s)
    BY <1>0, <1>1, <1>2 DEF Before, HookSound
<1>4. rev \in 0..Amount[e] /\ short \in 0..Amount[e]
    BY <1>3, ShareTyped
<1>5. ReserveReversal(e, s, rev, short)
    BY <1>1, <1>2 DEF Reserve
<1> QED
    BY <1>4, <1>5 DEF ClawbackFunctions

LEMMA ConfirmCalls ==
    ASSUME NEW h \in Hook, Before(h), Confirm(h)
    PROVE  ClawbackFunctions
<1>1. PICK e \in Entry, s \in Source : e = plan[h].entry /\ s = src[h]
    BY PlannedEntry DEF Before, Confirm
<1> QED
    BY <1>1 DEF Confirm, ClawbackFunctions

\* A dispute is released only after the bank decided it.
LEMMA HookCalls ==
    ASSUME NEW h \in Hook, Before(h), HookStep(h) \/ HookFails(h)
    PROVE  /\ Materialize \/ ClawbackFunctions \/ ReleaseDecided \/ UNCHANGED ledgerVars
           /\ UNCHANGED stripeVars \/ ReverseTransfer(h)
<1>1. CASE (\E s \in Source : BeginClawback(h, s)) \/ (\E d \in Dispute : BeginHold(h, d))
    BY <1>1 DEF BeginClawback, BeginHold, Begin
<1>2. CASE PlaceDisputeHold(h)
    BY <1>2 DEF PlaceDisputeHold, Before, HookSound, ClawbackFunctions
<1>3. CASE ListEntries(h) \/ ReserveFinds(h) \/ HookFails(h)
    BY <1>3 DEF ListEntries, ReserveFinds, HookFails
<1>4. CASE ReverseTransfer(h)
    BY <1>4 DEF ReverseTransfer
<1>5. CASE Reserve(h) \/ Confirm(h)
    BY <1>5, ReserveCalls, ConfirmCalls DEF Reserve, Confirm
<1>6. CASE FinishClawback(h)
    BY <1>6 DEF FinishClawback, Before, HookSound, Working, ReleaseDecided
<1>7. ASSUME NEW e \in Entry, SkipRow(h, e) \/ ApplyRefused(h, e) \/ PlanReversal(h, e)
                               \/ PlanNothing(h, e)
      PROVE  UNCHANGED <<ledgerVars, stripeVars>>
    BY <1>7 DEF SkipRow, ApplyRefused, PlanReversal, PlanNothing
<1>8. ASSUME NEW e \in Entry, ApplyClawback(h, e)
      PROVE  (ClawbackFunctions \/ UNCHANGED ledgerVars) /\ UNCHANGED stripeVars
    BY <1>8, ApplyCalls DEF ApplyClawback
<1> QED
    BY <1>1, <1>2, <1>3, <1>4, <1>5, <1>6, <1>7, <1>8 DEF HookStep

\* A step of the payouts is a step of the sweeps and their surroundings, except
\* for the call that makes a reversal on Stripe.
LEMMA PayoutImplements ==
    ASSUME TypeOK, StripeTypeOK, HookInv, [PayoutNext]_payoutVars
    PROVE  \/ [SweepNext]_allVars
           \/ UNCHANGED <<ledgerVars, sweepVars>> /\ \E h \in Hook : ReverseTransfer(h)
<1>1. CASE (World \/ Consent \/ Admin) /\ UNCHANGED <<stripeVars, sweepVars, eventVars, hookVars>>
    BY <1>1 DEF SweepNext, Surroundings
<1>2. CASE \E p \in Sweep : (SweepStep(p) \/ Crash(p)) /\ UNCHANGED <<eventVars, hookVars>>
    BY <1>2 DEF SweepNext
<1>3. CASE Bank /\ UNCHANGED sweepVars
    BY <1>3, BankKept DEF allVars
<1>4. CASE \E d \in Dispute : ReleaseWon(d) /\ UNCHANGED sweepVars
    BY <1>4 DEF ReleaseWon, SweepNext, Surroundings, WebhookFunctions
<1>5. ASSUME NEW h \in Hook, HookStep(h) \/ HookFails(h), UNCHANGED sweepVars
      PROVE  [SweepNext]_allVars \/ (UNCHANGED <<ledgerVars, sweepVars>> /\ ReverseTransfer(h))
    <2>1. /\ Materialize \/ ClawbackFunctions \/ ReleaseDecided \/ UNCHANGED ledgerVars
          /\ UNCHANGED stripeVars \/ ReverseTransfer(h)
        BY <1>5, HookCalls DEF Before, HookInv
    <2>2. ClawbackFunctions \/ ReleaseDecided => WebhookFunctions
        BY DEF ClawbackFunctions, ReleaseDecided, WebhookFunctions
    <2>3. CASE ReverseTransfer(h)
        BY <1>5, <2>3 DEF ReverseTransfer
    <2>4. CASE UNCHANGED stripeVars
        BY <1>5, <2>1, <2>2, <2>4 DEF SweepNext, Surroundings, allVars
    <2> QED
        BY <2>1, <2>3, <2>4
<1>6. CASE UNCHANGED payoutVars
    BY <1>6 DEF payoutVars
<1> QED
    BY <1>1, <1>2, <1>3, <1>4, <1>5, <1>6 DEF PayoutNext

\* The reversal moves neither the ledger nor what the sweeps know.
LEMMA ReversalKeepsSweeps ==
    ASSUME RowInv, HookInv, NEW h \in Hook, ReverseTransfer(h), UNCHANGED <<ledgerVars, sweepVars>>
    PROVE  RowInv'
<1>0. TypeOK /\ SweepTypeOK /\ StripeTypeOK
    BY DEF RowInv, SweepInv
<1>1. PICK e \in Entry, s \in Source : e = plan[h].entry /\ s = src[h]
    BY PlannedEntry DEF HookInv, ReverseTransfer
<1>2. sent' = sent /\ undone' = [undone EXCEPT ![e][s] = resv[e][s]]
    BY <1>1 DEF ReverseTransfer, CreateReversal
<1>3. StripeTypeOK'
    BY <1>0, <1>2 DEF StripeTypeOK, TypeOK
<1>4. TypeOK' /\ SweepTypeOK' /\ LeaseOrder' /\ ClaimBound' /\ CallInFlight' /\ SettledInFull'
    BY DEF RowInv, SweepInv, TypeOK, SweepTypeOK, LeaseOrder, ClaimBound, CallInFlight,
           SettledInFull, ledgerVars, sweepVars, claimVars, retryVars, debtVars, clawVars,
           teacherVars, consentVars, timeVars
<1>5. LeaseKeepsClaim'
    BY DEF RowInv, SweepInv, LeaseKeepsClaim, Owns, Fenced, Left, ledgerVars, sweepVars,
           claimVars, debtVars
<1>6. TodoHasWorth' /\ AnsweredInFull' /\ RowIsWhatStripeSent'
    BY <1>2 DEF RowInv, TodoHasWorth, AnsweredInFull, RowIsWhatStripeSent, Pay, Cut, ledgerVars,
                sweepVars
<1> QED
    BY <1>3, <1>4, <1>5, <1>6 DEF RowInv, SweepInv

-----------------------------------------------------------------------------
(* The theorems.  The invariant of the composition is the one of the ledger,*)
(* the one of the sweeps, and the one of the handlers.                      *)

PayoutInv == IndInv /\ RowInv /\ HookInv

LEMMA PayoutInvNext ==
    ASSUME PayoutInv, [PayoutNext]_payoutVars
    PROVE  PayoutInv' /\ [LedgerNext]_ledgerVars
<1>0. IndInv /\ RowInv /\ SweepInv /\ HookInv /\ TypeOK /\ SweepTypeOK /\ StripeTypeOK
    BY DEF PayoutInv, RowInv, SweepInv
<1>1. HookInv'
    BY <1>0, HookInvNext
<1>2. RowInv' /\ [LedgerNext]_ledgerVars
    <2>1. CASE [SweepNext]_allVars
        <3>1. SweepInv'
            BY <1>0, <2>1, SweepInvNext
        <3>2. [LedgerNext]_ledgerVars
            BY <1>0, <2>1, SweepImplements DEF SweepInv
        <3> QED
            BY <1>0, <2>1, <3>1, <3>2, RowInvNext
    <2>2. CASE UNCHANGED <<ledgerVars, sweepVars>> /\ \E h \in Hook : ReverseTransfer(h)
        BY <1>0, <2>2, ReversalKeepsSweeps
    <2> QED
        BY <1>0, <2>1, <2>2, PayoutImplements
<1>3. IndInv'
    BY <1>0, <1>2, IndInvNext
<1> QED
    BY <1>1, <1>2, <1>3 DEF PayoutInv

LEMMA PayoutInductive == PayoutSpec => []PayoutInv
<1>1. PayoutInit => PayoutInv
    BY IndInvInit, RowInvInit, HookInvInit DEF PayoutInit, AllInit, PayoutInv
<1>2. PayoutInv /\ [PayoutNext]_payoutVars => PayoutInv'
    BY PayoutInvNext
<1> QED
    BY <1>1, <1>2, PTL DEF PayoutSpec

\* Sweeps, webhook handlers, administrators and teachers together use the ledger
\* only through its functions, with arguments in range: every theorem on
\* LedgerSpec holds of the whole.
THEOREM PayoutsRefine == PayoutSpec => LedgerSpec
<1>1. PayoutInit => Init
    BY DEF PayoutInit, AllInit
<1>2. PayoutInv /\ [PayoutNext]_payoutVars => [LedgerNext]_ledgerVars
    BY PayoutInvNext
<1> QED
    BY <1>1, <1>2, PayoutInductive, PTL DEF PayoutSpec, LedgerSpec

\* What a handler carries between its calls keeps its types: no share, cap or
\* reversible balance it computes from stale reads is ever negative.
THEOREM HookTypes == PayoutSpec => []HookTypeOK
<1>1. PayoutInv => HookTypeOK
    BY HookTypeParts DEF PayoutInv, HookInv
<1> QED
    BY <1>1, PayoutInductive, PTL

\* Every reversal on Stripe carries the cents of a reservation made before it.
THEOREM ReversalsReserved == PayoutSpec => []ReserveFirst
<1>1. PayoutInv => ReserveFirst
    BY DEF PayoutInv, HookInv, Sheet, RowSound, ReserveFirst
<1> QED
    BY <1>1, PayoutInductive, PTL

\* However often and from wherever a refund or dispute is handled, it takes back
\* at most the teacher's proportional share of it.
THEOREM SharesTakenOnce == PayoutSpec => []OneShareEach
<1>1. PayoutInv => OneShareEach
    BY DEF PayoutInv, HookInv, Sheet, RowSound, OneShareEach
<1> QED
    BY <1>1, PayoutInductive, PTL

\* Nothing is taken back but for a refund made or a dispute lost, and only a
\* refund or dispute of the whole charge voids an earning.
THEOREM ClawbacksHaveCause == PayoutSpec => []NoClawbackWithoutCause
<1>1. PayoutInv => NoClawbackWithoutCause
    BY DEF PayoutInv, HookInv, Sheet, RowSound, VoidSound, NoClawbackWithoutCause
<1> QED
    BY <1>1, PayoutInductive, PTL

\* The reversals of an entry never take more than its Transfer sent: createReversal
\* is refused beyond it, and no two sources reverse the same cents.
THEOREM ReversalsFit == PayoutSpec => [](\A e \in Entry : AmountReversed(e) <= sent[e])
<1>1. PayoutInv => \A e \in Entry : AmountReversed(e) <= sent[e]
    BY DEF PayoutInv, HookInv, Sheet, BalanceSound
<1> QED
    BY <1>1, PayoutInductive, PTL

\* With handlers, administrators and the bank around them, sweeps still settle
\* every entry for its whole worth, and record what Stripe sent.
THEOREM PayoutsSettleInFull == PayoutSpec => [](SettledInFull /\ RowIsWhatStripeSent)
<1>1. PayoutInv => SettledInFull /\ RowIsWhatStripeSent
    BY DEF PayoutInv, RowInv, SweepInv
<1> QED
    BY <1>1, PayoutInductive, PTL

-----------------------------------------------------------------------------
(* A dispute freezes.                                                      *)

\* Apart from its release, nothing takes a dispute's hold off an entry but the
\* refund of the entry's whole worth.
LEMMA HeldStays ==
    ASSUME TypeOK, NEW x \in Entry, Sound(x), NEW d \in Dispute, holdReason[x] = d,
           World \/ Consent \/ Admin \/ SweepFunctions \/ ClawbackFunctions \/ UNCHANGED ledgerVars
    PROVE  holdReason'[x] = d \/ status'[x] = "voided"
<1> USE DEF claimVars, retryVars, debtVars, clawVars, teacherVars, consentVars, timeVars
<1>0. /\ status \in [Entry -> Status] /\ holdReason \in [Entry -> Reason]
      /\ status[x] = "held" /\ d \notin {"none", "agreement_pending", "transfer_failed"}
    BY ReasonAssumption DEF TypeOK, Sound
<1>1. World \/ UNCHANGED ledgerVars => holdReason'[x] = d
    BY DEF World, Deliver, Mature, BackoffEnds, LeaseLapses, PublishAgreement,
           SetPayoutsEnabled, ledgerVars
<1>2. Consent => holdReason'[x] = d
    BY <1>0 DEF Consent, AcceptAgreement, HeldFor, Release
<1>3. ASSUME Admin PROVE holdReason'[x] = d
    <2>1. ASSUME NEW e \in Entry, RequeueFailed(e) \/ SettleManualDue(e) PROVE holdReason'[x] = d
        BY <1>0, <2>1 DEF RequeueFailed, HeldFor, Release, SettleManualDue
    <2>2. ASSUME NEW t \in Teacher, NEW r, SetPayoutMethod(t, r) \/ PlaceHold(t, r) \/ LiftHold(t, r)
          PROVE  holdReason'[x] = d
        BY <2>2 DEF SetPayoutMethod, PlaceHold, LiftHold
    <2> QED
        BY <1>3, <2>1, <2>2 DEF Admin
<1>4. Materialize \/ ReclaimLapsed \/ Claim => holdReason'[x] = d
    BY <1>0 DEF Materialize, HeldFor, ReclaimLapsed, Claim
<1>5. ASSUME NEW e \in Entry, NEW at, NEW cut, NEW cents,
             \/ RecordTransferFailed(e, at) \/ RecordDebtRecovered(e, at, cut)
             \/ RecordManualDue(e, at, cut) \/ RecordTransferSucceeded(e, at, cents, cut)
      PROVE  holdReason'[x] = d
    BY <1>0, <1>5 DEF RecordTransferFailed, Fenced, RecordDebtRecovered, RecordManualDue,
                      RecordTransferSucceeded
<1>6. SweepFunctions => holdReason'[x] = d
    BY <1>4, <1>5 DEF SweepFunctions
<1>7. ASSUME NEW c \in Dispute, DisputeHold(c) PROVE holdReason'[x] = d
    BY <1>0, <1>7 DEF DisputeHold
<1>8. ASSUME NEW e \in Entry, NEW s, NEW cents, VoidClean(e, s, cents)
      PROVE  holdReason'[x] = d \/ status'[x] = "voided"
    BY <1>0, <1>8 DEF VoidClean
<1>9. ASSUME NEW e \in Entry, NEW s, NEW a, NEW b,
             ConfirmReversal(e, s) \/ RecordClawback(e, s, a) \/ ReserveReversal(e, s, a, b)
      PROVE  holdReason'[x] = d
    BY <1>9 DEF ConfirmReversal, RecordClawback, ReserveReversal
<1> QED
    BY <1>1, <1>2, <1>3, <1>6, <1>7, <1>8, <1>9 DEF ClawbackFunctions

\* The release of one dispute leaves the entries held for another.
LEMMA OtherReleaseKeeps ==
    ASSUME TypeOK, NEW x \in Entry, NEW d \in Dispute, holdReason[x] = d, fate[d] = "open",
           ReleaseDecided
    PROVE  holdReason'[x] = d
BY DEF ReleaseDecided, DisputeRelease, Release, HeldFor, TypeOK

LEMMA PayoutCalls ==
    ASSUME PayoutInv, [PayoutNext]_payoutVars
    PROVE  \/ World \/ Consent \/ Admin \/ SweepFunctions \/ ClawbackFunctions
           \/ UNCHANGED ledgerVars \/ ReleaseDecided
<1>0. TypeOK /\ SweepInv /\ HookInv
    BY DEF PayoutInv, RowInv, SweepInv
<1>1. ASSUME NEW p \in Sweep, SweepStep(p) \/ Crash(p)
      PROVE  SweepFunctions \/ UNCHANGED ledgerVars
    BY <1>0, <1>1, SweepCalls DEF SweepInv
<1>2. Bank => UNCHANGED ledgerVars
    BY DEF Bank, RefundMade, DisputeFiled, DisputeDecided
<1>3. ASSUME NEW d \in Dispute, ReleaseWon(d) PROVE ReleaseDecided
    BY <1>3 DEF ReleaseWon, ReleaseDecided
<1>4. ASSUME NEW h \in Hook, HookStep(h) \/ HookFails(h)
      PROVE  SweepFunctions \/ ClawbackFunctions \/ ReleaseDecided \/ UNCHANGED ledgerVars
    <2>1. StripeTypeOK
        BY <1>0 DEF SweepInv
    <2> QED
        BY <1>0, <1>4, <2>1, HookCalls DEF Before, HookInv, SweepFunctions
<1>5. UNCHANGED payoutVars => UNCHANGED ledgerVars
    BY DEF payoutVars, allVars
<1> QED
    BY <1>1, <1>2, <1>3, <1>4, <1>5 DEF PayoutNext

\* Until the bank has decided a dispute, whatever else is delivered, retried,
\* accepted or clicked, an entry held for it stays held or is voided.
THEOREM DisputesFreeze == PayoutSpec => DisputeFreezes
<1>1. ASSUME PayoutInv, [PayoutNext]_payoutVars, NEW e \in Entry, NEW d \in Dispute,
             holdReason[e] = d, fate[d] = "open"
      PROVE  holdReason'[e] = d \/ status'[e] = "voided"
    <2>1. TypeOK /\ Sound(e)
        BY <1>1 DEF PayoutInv, IndInv
    <2> QED
        BY <1>1, <2>1, PayoutCalls, HeldStays, OtherReleaseKeeps
<1>2. PayoutInv /\ [PayoutNext]_payoutVars =>
          [\A e \in Entry, d \in Dispute : holdReason[e] = d /\ fate[d] = "open" =>
               holdReason'[e] = d \/ status'[e] = "voided"]_payoutVars
    BY <1>1
<1> QED
    BY <1>2, PayoutInductive, PTL DEF PayoutSpec, DisputeFreezes
-----------------------------------------------------------------------------
(* Who recovers more than is owed.                                         *)

\* With the webhook handlers clawing back while sweeps run, still only a sweep with a
\* stale balance takes a teacher's debt below zero, and only a recovery (another
\* sweep's, an administrator's, or its own whose answer was lost) makes one stale.
THEOREM StalePayoutsOverRecover == PayoutSpec => OverRecoveryIsStale
<1>1. PayoutInv /\ [PayoutNext]_payoutVars => [Blames]_allVars
    <2> SUFFICES ASSUME PayoutInv, [PayoutNext]_payoutVars PROVE Blames \/ UNCHANGED allVars
        OBVIOUS
    <2>1. /\ TypeOK /\ SweepTypeOK /\ CallInFlight /\ RecoveryCap
          /\ StripeTypeOK /\ HookInv
        BY DEF PayoutInv, RowInv, SweepInv, IndInv
    <2>2. CASE UNCHANGED <<ledgerVars, sweepVars>>
        BY <2>1, <2>2, SurroundingsBlame
    <2>3. CASE SweepNext
        BY <2>1, <2>3, SurroundingsBlame, SweepBlames DEF SweepNext, Surroundings
    <2> QED
        BY <2>1, <2>2, <2>3, PayoutImplements
<1>2. [Blames]_allVars => [\A t \in Teacher :
          /\ owed'[t] < owed[t] /\ owed'[t] < 0 => \E p \in Sweep : Acts(p) /\ Stale(p, t)
          /\ \A p \in Sweep : ~Stale(p, t) /\ Stale(p, t)' =>
                /\ owed'[t] < owed[t]
                /\ Acts(p) => pc'[p] = "fail"]_allVars
    BY DEF Blames
<1> QED
    BY <1>1, <1>2, PayoutInductive, PTL DEF PayoutSpec, OverRecoveryIsStale
=============================================================================
