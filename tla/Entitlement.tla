----------------------------- MODULE Entitlement -----------------------------
(***************************************************************************)
(* What a subscription promises about the credits it grants: a paid        *)
(* invoice grants its credits once, at one size; once money was returned,  *)
(* all that is active may be taken back, and nothing taken back returns.   *)
(***************************************************************************)
CONSTANTS
    Invoice,
    Owed,       \* invoices whose payment must lead to a grant
    Size        \* the credits an invoice can grant

VARIABLES
    paid,       \* the invoices the customer has paid
    returned,   \* those whose money was returned in full
    held        \* per invoice: "none", "active" or "cancelled", and the credits

entitlementVars == <<paid, returned, held>>

Nothing == [status |-> "none", credits |-> 0]

EntitlementInit ==
    /\ paid = {}
    /\ returned = {}
    /\ held = [i \in Invoice |-> Nothing]

Pay(i) ==
    /\ paid' = paid \cup {i}
    /\ UNCHANGED <<returned, held>>

Return(i) ==
    /\ i \in paid
    /\ returned' = returned \cup {i}
    /\ UNCHANGED <<paid, held>>

Grant(i) ==
    /\ i \in paid
    /\ held[i] = Nothing
    /\ \E size \in Size : held' = [held EXCEPT ![i] = [status |-> "active", credits |-> size]]
    /\ UNCHANGED <<paid, returned>>

TakeBack ==
    /\ returned # {}
    /\ held' = [i \in Invoice |->
                   [held[i] EXCEPT !.status = IF @ = "active" THEN "cancelled" ELSE @]]
    /\ UNCHANGED <<paid, returned>>

EntitlementNext ==
    \/ TakeBack
    \/ \E i \in Invoice : Pay(i) \/ Return(i) \/ Grant(i)

EntitlementSpec ==
    /\ EntitlementInit
    /\ [][EntitlementNext]_entitlementVars
    /\ \A i \in Owed : (i \in paid) ~> (held[i] # Nothing)
=============================================================================
