------------------------------- MODULE MCSweep -------------------------------
(***************************************************************************)
(* Instances of the sweep: one entry of two cents, or two of one teacher.  *)
(***************************************************************************)
EXTENDS TransferSweep

OneEntry == {1}
OneTeacherOf == [e \in OneEntry |-> "t1"]
OneAmount == [e \in OneEntry |-> 2]
OneChargeOf == [e \in OneEntry |-> "ch1"]
OneSourceCharge == [s \in Source |-> "ch1"]

\* Two entries of one teacher; the larger one is funded by the charge, so that a
\* debt may span both of them in the manual queue.
TwoEntries == {1, 2}
TwoTeacherOf == [e \in TwoEntries |-> "t1"]
TwoAmount == [e \in TwoEntries |-> 2 * e - 1]
TwoChargeOf == [e \in TwoEntries |-> IF e = 1 THEN "none" ELSE "ch1"]
TwoSourceCharge == [s \in Source |-> "ch1"]
=============================================================================
