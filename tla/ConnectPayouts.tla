---------------------------- MODULE ConnectPayouts ----------------------------
(***************************************************************************)
(* The payouts as they run: sweeps, webhook handlers, administrators and   *)
(* teachers interleaved over one ledger and one Stripe account.            *)
(***************************************************************************)
EXTENDS TransferSweep, ChargeClawback

payoutVars == <<allVars, eventVars, hookVars>>

PayoutInit == AllInit /\ HookInit

PayoutNext ==
    \/ /\ World \/ Consent \/ Admin
       /\ UNCHANGED <<stripeVars, sweepVars, eventVars, hookVars>>
    \/ \E p \in Sweep : (SweepStep(p) \/ Crash(p)) /\ UNCHANGED <<eventVars, hookVars>>
    \/ Bank /\ UNCHANGED sweepVars
    \/ \E d \in Dispute : ReleaseWon(d) /\ UNCHANGED sweepVars
    \/ \E h \in Hook : (HookStep(h) \/ HookFails(h)) /\ UNCHANGED sweepVars

PayoutSpec == PayoutInit /\ [][PayoutNext]_payoutVars

-----------------------------------------------------------------------------
\* Reserve-first: every reversal on Stripe carries the cents of a reservation
\* made before it, which no redelivery, resumption or second source changes,
\* and a row says 'succeeded' only once the reversal exists.
ReserveFirst ==
    \A e \in Entry, s \in Source :
        /\ undone[e][s] # 0 => undone[e][s] = resv[e][s]
        /\ s \in confirmed[e] => undone[e][s] # 0

\* One refund or dispute takes back at most the teacher's proportional share
\* of it from an entry, however often and from wherever it is handled.
OneShareEach ==
    \A e \in Entry, s \in Source : claw[e][s] + resv[e][s] <= Share(e, s)

\* Only a charge that was refunded or lost in a dispute costs its teacher, and
\* only one reclaimed whole by a single source voids the earning.
NoClawbackWithoutCause ==
    \A e \in Entry :
        /\ \A s \in Source : claw[e][s] + resv[e][s] > 0 =>
              fate[s] = "lost" /\ ChargeOf[e] = SourceCharge[s]
        /\ status[e] = "voided" => \E s \in Source :
              fate[s] = "lost" /\ ChargeOf[e] = SourceCharge[s] /\ Share(e, s) = Amount[e]

\* A dispute freezes what it held for as long as the bank has not decided it,
\* whatever else is delivered, retried, accepted or clicked meanwhile: an entry
\* held for the dispute can only be voided by the refund of its whole worth.
DisputeFreezes ==
    [][\A e \in Entry, d \in Dispute :
          holdReason[e] = d /\ fate[d] = "open" =>
              holdReason'[e] = d \/ status'[e] = "voided"]_payoutVars
=============================================================================
