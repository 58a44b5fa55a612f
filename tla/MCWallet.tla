------------------------------ MODULE MCWallet ------------------------------
(***************************************************************************)
(* Instances of the wallet: one lot of two hours beside a plan of one      *)
(* session.                                                                *)
(***************************************************************************)
EXTENDS PrepaidWallet, TLC

CONSTANTS b1, b2, l1, p1

TwoHours == [p \in Package |-> IF p \in Plan THEN 1 ELSE 2]
=============================================================================
