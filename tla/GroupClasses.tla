----------------------------- MODULE GroupClasses -----------------------------
(***************************************************************************)
(* Seats in a group: a student enrols in a published class offering        *)
(* (enrollInOffering), or the teacher adds a student to a session that an  *)
(* earlier one-to-one booking opened (addStudentToSession).  Both read,    *)
(* count, debit a package and insert a confirmed booking, each in a        *)
(* transaction of its own.                                                 *)
(*                                                                         *)
(* A group has one teacher and one time, and bookings hold a teacher's     *)
(* time: the unique index and the exclusion constraint of bookings admit   *)
(* one booking that is not cancelled.                                      *)
(***************************************************************************)
EXTENDS Integers, FiniteSets

CONSTANTS
    Student,
    Offering,   \* published classes
    Session,    \* sessions opened by a one-to-one booking
    Capacity,   \* the seats of each group
    Credits,    \* the sessions of each student's package
    None

Group == Offering \cup Session

VARIABLES
    status,     \* class_offerings.status; a session is open
    primary,    \* whether the booking that opened a session still holds its time
    seat,       \* bookings: status, and whether the package was charged
    used,       \* student_packages.sessions_used
    enrolling   \* what each student's enrolment is in the middle of

vars == <<status, primary, seat, used, enrolling>>

NoSeat == [status |-> "none", charged |-> FALSE]
Idle == [group |-> None, pc |-> "idle", count |-> 0, charged |-> FALSE]

Init ==
    /\ status = [g \in Group |-> "open"]
    /\ primary = [g \in Group |-> g \in Session]
    /\ seat = [g \in Group |-> [s \in Student |-> NoSeat]]
    /\ used = [s \in Student |-> 0]
    /\ enrolling = [s \in Student |-> Idle]

Holds(g, s) == seat[g][s].status = "confirmed"
TimeIsFree(g) == ~primary[g] /\ \A s \in Student : ~Holds(g, s)

\* The count takes cancelled bookings in, and not the one that opened a session.
Booked(g) == Cardinality({s \in Student : seat[g][s] # NoSeat})

At(s, pc) == enrolling[s].pc = pc
Goto(s, pc) == enrolling' = [enrolling EXCEPT ![s].pc = pc]
Stop(s) == enrolling' = [enrolling EXCEPT ![s] = Idle]

\* The group is open and the student has no booking in it, not even a cancelled one.
ReadGroup(s, g) ==
    /\ enrolling[s] = Idle
    /\ status[g] = "open"
    /\ seat[g][s] = NoSeat
    /\ enrolling' = [enrolling EXCEPT ![s] = [Idle EXCEPT !.group = g, !.pc = "count"]]
    /\ UNCHANGED <<status, primary, seat, used>>

CountSeats(s) ==
    LET g == enrolling[s].group IN
    /\ At(s, "count")
    /\ IF Booked(g) >= Capacity[g]
         THEN Stop(s) /\ status' = [status EXCEPT ![g] = IF g \in Offering THEN "full" ELSE @]
         ELSE /\ enrolling' = [enrolling EXCEPT ![s].count = Booked(g), ![s].pc = "debit"]
              /\ UNCHANGED status
    /\ UNCHANGED <<primary, seat, used>>

\* selectActivePackage and debitPackage; without a package the seat is free.
DebitPackage(s) ==
    /\ At(s, "debit")
    /\ IF used[s] < Credits[s]
         THEN /\ used' = [used EXCEPT ![s] = @ + 1]
              /\ enrolling' = [enrolling EXCEPT ![s].charged = TRUE, ![s].pc = "insert"]
         ELSE Goto(s, "insert") /\ UNCHANGED used
    /\ UNCHANGED <<status, primary, seat>>

InsertBooking(s) ==
    LET g == enrolling[s].group IN
    /\ At(s, "insert")
    /\ TimeIsFree(g)
    /\ seat' = [seat EXCEPT ![g][s] = [status |-> "confirmed", charged |-> enrolling[s].charged]]
    /\ Goto(s, "close")
    /\ UNCHANGED <<status, primary, used>>

\* The teacher's time is taken: the route reports the error and returns.
InsertRefused(s) ==
    /\ At(s, "insert")
    /\ ~TimeIsFree(enrolling[s].group)
    /\ Stop(s)
    /\ UNCHANGED <<status, primary, seat, used>>

\* The last seat closes the offering; a session is only marked as a group.
CloseWhenFull(s) ==
    LET g == enrolling[s].group IN
    /\ At(s, "close")
    /\ status' = [status EXCEPT ![g] =
                     IF g \in Offering /\ enrolling[s].count + 1 >= Capacity[g] THEN "full" ELSE @]
    /\ Stop(s)
    /\ UNCHANGED <<primary, seat, used>>

\* A cancelled booking gives its credit back (restore_student_package).
CancelSeat(g, s) ==
    /\ Holds(g, s)
    /\ seat' = [seat EXCEPT ![g][s].status = "cancelled"]
    /\ used' = [used EXCEPT ![s] = IF seat[g][s].charged /\ @ > 0 THEN @ - 1 ELSE @]
    /\ UNCHANGED <<status, primary, enrolling>>

CancelPrimary(g) ==
    /\ primary[g]
    /\ primary' = [primary EXCEPT ![g] = FALSE]
    /\ UNCHANGED <<status, seat, used, enrolling>>

\* cancelOffering changes the offering only; its bookings stay as they are.
CancelOffering(g) ==
    /\ status[g] \in {"open", "full"}
    /\ status' = [status EXCEPT ![g] = "cancelled"]
    /\ UNCHANGED <<primary, seat, used, enrolling>>

Next ==
    \/ \E s \in Student :
          \/ \E g \in Group : ReadGroup(s, g) \/ CancelSeat(g, s)
          \/ CountSeats(s) \/ DebitPackage(s) \/ InsertBooking(s) \/ InsertRefused(s)
          \/ CloseWhenFull(s)
    \/ \E g \in Session : CancelPrimary(g)
    \/ \E g \in Offering : CancelOffering(g)

Spec == Init /\ [][Next]_vars

\* class-offerings.ts: each student "spends own credit", and "each enrollment
\* creates a fresh `bookings` row".  specs/020-scheduling-cohorts/spec.md, SC-003:
\* attempts on one slot yield "exactly one booking and 0 phantom debits".  A
\* student who is not enrolling has spent what the seats held were charged for.
NoPhantomDebit ==
    \A s \in Student :
        enrolling[s] = Idle =>
            used[s] = Cardinality({g \in Group : Holds(g, s) /\ seat[g][s].charged})
=============================================================================
