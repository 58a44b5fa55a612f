--------------------------- MODULE StripeTransfers ---------------------------
(***************************************************************************)
(* Stripe, as far as the payouts use it: Transfers created under the       *)
(* idempotency key transfer:{entry} and reversals of them created under    *)
(* reversal:{source}:{transfer}.  A request whose key is known is answered *)
(* from the first one: with the same object when its parameters agree, with*)
(* an error when they do not.  A reversal must fit in what is left of the  *)
(* Transfer.                                                               *)
(***************************************************************************)
EXTENDS ConnectLedger

VARIABLES
    sent,       \* cents of the Transfer under the key of an entry, 0 if none
    undone      \* cents of the reversal under the key of an entry and source

stripeVars == <<sent, undone>>

StripeTypeOK ==
    /\ sent \in [Entry -> Nat]
    /\ undone \in [Entry -> [Source -> Nat]]

StripeInit ==
    /\ sent = [e \in Entry |-> 0]
    /\ undone = [e \in Entry |-> [s \in Source |-> 0]]

\* The destination account receives the money with the first request.
CreateTransfer(e, cents) ==
    /\ sent[e] \in {0, cents}
    /\ sent' = [sent EXCEPT ![e] = cents]
    /\ UNCHANGED undone

AmountReversed(e) == SumFunctionOnSet(undone[e], Source)

\* transfers.retrieve: amount - amount_reversed
ReversibleBalance(e) == sent[e] - AmountReversed(e)

CreateReversal(e, s, cents) ==
    /\ \/ undone[e][s] = cents
       \/ undone[e][s] = 0 /\ cents <= ReversibleBalance(e)
    /\ undone' = [undone EXCEPT ![e][s] = cents]
    /\ UNCHANGED sent
=============================================================================
