------------------------------ MODULE MCLedger ------------------------------
(***************************************************************************)
(* The instance of the ledger alone, under every call its functions admit. *)
(***************************************************************************)
EXTENDS ConnectLedger

\* One entry of two cents, funded by a charge with a refund and a dispute.
OneEntry == {1}
OneTeacherOf == [e \in OneEntry |-> "t1"]
OneAmount == [e \in OneEntry |-> 2]
OneChargeOf == [e \in OneEntry |-> "ch1"]
OneSourceCharge == [s \in {"re1", "dp1"} |-> "ch1"]
=============================================================================
