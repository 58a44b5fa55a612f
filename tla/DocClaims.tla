------------------------------ MODULE DocClaims ------------------------------
(***************************************************************************)
(* What a comment, the specification or a test of the repository says of   *)
(* the composed payouts and the interleaved system does not keep, checked  *)
(* by a run that ends in a counterexample.                                 *)
(***************************************************************************)
EXTENDS ConnectPayouts

\* FR-027a: never both manual_paid and transferred; a payout_method flip
\* mid-flight cannot double-settle an in-flight entry.  A sweep that lost the
\* answer of Stripe leaves a live Transfer behind an entry it records as failed.
SettledOnOneRail == \A e \in Entry : status[e] = "manual_paid" => sent[e] = 0
=============================================================================
