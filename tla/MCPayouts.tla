------------------------------ MODULE MCPayouts ------------------------------
(***************************************************************************)
(* Instances of the composed payouts: one teacher, and                     *)
(*   One...  one entry of two cents, on a charge of two cents;             *)
(*   Two...  entries of one and two cents, both on one charge.             *)
(* HalfCents: a refund or dispute takes back half of its charge;           *)
(* ThirdsCents: the refund all of the shared charge, the dispute two of    *)
(* its three cents.                                                        *)
(***************************************************************************)
EXTENDS DocClaims

OneEntry == {1}
OneTeacherOf == [e \in OneEntry |-> "t1"]
OneAmount == [e \in OneEntry |-> 2]
OneChargeOf == [e \in OneEntry |-> "ch1"]
OneSourceCharge == [s \in Source |-> "ch1"]

TwoEntries == {1, 2}
TwoTeacherOf == [e \in TwoEntries |-> "t1"]
TwoAmount == [e \in TwoEntries |-> e]

\* Of the shared charge the refund takes all and the dispute two
\* thirds: nothing of the first entry's cent and one of the second's two.
SharedChargeOf == [e \in TwoEntries |-> "ch1"]
SharedSourceCharge == [s \in Source |-> "ch1"]
ThirdsCents == [s \in Source |-> IF s = "re1" THEN 3 ELSE 2]
ThreeCentCharge == [c \in Charge |-> 3]

HalfCents == [s \in Source |-> 1]
TwoCentCharge == [c \in Charge |-> 2]
=============================================================================
