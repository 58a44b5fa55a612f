------------------------------ MODULE MCGroups ------------------------------
(* Two students and a class of two seats. *)
EXTENDS GroupClasses

TwoSeats == [g \in Group |-> 2]
OneCredit == [s \in Student |-> 1]
=============================================================================
