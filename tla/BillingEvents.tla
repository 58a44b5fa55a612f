---------------------------- MODULE BillingEvents ----------------------------
(***************************************************************************)
(* The Stripe webhook route and its ledger billing_events.  Stripe emits   *)
(* events and delivers each of them at least once, in any order, until a   *)
(* delivery is answered 200.  An invocation of the route inserts the row,  *)
(* or finds it and dispatches again when it is not terminal, so one event  *)
(* may have several handlers at once.                                      *)
(*                                                                         *)
(* An event's position in "sent" is its creation time.                     *)
(***************************************************************************)
EXTENDS Integers, Sequences, FiniteSets

CONSTANTS
    Worker,     \* concurrent invocations of the route
    MaxFaults,  \* bound: calls that fail or answers that are lost
    None

ASSUME FaultAssumption == MaxFaults \in Nat

VARIABLES
    sent,       \* Stripe: the events emitted, oldest first
    acked,      \* Stripe: the events with a delivery answered 200
    row,        \* billing_events.status of each event
    work,       \* what each invocation is in the middle of
    faults,     \* the faults still to come
    agenda      \* what Stripe, the student and the administrator will still do

eventVars == <<sent, acked, row, work, faults, agenda>>

Terminal == {"processed", "ignored"}
Idle == [event |-> 0, pc |-> "idle", plan |-> None, ref |-> None]

CallsMayFail == <<"fault">> \in agenda

EventsInit ==
    /\ sent = <<>>
    /\ acked = {}
    /\ row = <<>>
    /\ work = [w \in Worker |-> Idle]
    /\ faults = IF CallsMayFail THEN MaxFaults ELSE 0

Event == DOMAIN sent
At(w, pc) == work[w].pc = pc
About(w) == sent[work[w].event].about

Emit(events) ==
    /\ sent' = sent \o events
    /\ row' = row \o [i \in DOMAIN events |-> "absent"]

\* Something the environment does once; the calls it makes are named by the user.
Happens(what) ==
    /\ what \in agenda
    /\ agenda' = agenda \ {what}

\* The handler of w has taken a step: where it stands now, and what it read.
Goto(w, pc) == work' = [work EXCEPT ![w].pc = pc]
GotoWith(w, pc, plan, ref) ==
    work' = [work EXCEPT ![w] = [@ EXCEPT !.pc = pc, !.plan = plan, !.ref = ref]]

Fault ==
    /\ faults > 0
    /\ faults' = faults - 1

\* ingestBillingEvent: a new row, or a row whose last delivery never finished.
Deliver(w, e, handler) ==
    /\ work[w] = Idle
    /\ row[e] \notin Terminal
    /\ row' = [row EXCEPT ![e] = IF @ = "absent" THEN "received" ELSE @]
    /\ work' = [work EXCEPT ![w] = [Idle EXCEPT !.event = e, !.pc = handler]]
    /\ UNCHANGED <<sent, acked, faults, agenda>>

\* The row is terminal, or it exists and cannot be read: answered 200 without
\* a dispatch.
Duplicate(e) ==
    /\ e \notin acked
    /\ \/ row[e] \in Terminal /\ UNCHANGED faults
       \/ row[e] \in {"received", "failed"} /\ Fault
    /\ acked' = acked \cup {e}
    /\ UNCHANGED <<sent, row, work, agenda>>

\* markEvent and the answer 200.
Finish(w, status) ==
    /\ row' = [row EXCEPT ![work[w].event] = status]
    /\ acked' = acked \cup {work[w].event}
    /\ work' = [work EXCEPT ![w] = Idle]
    /\ UNCHANGED <<sent, faults, agenda>>

\* The dispatch catches what the handler throws: failed, and an answer 500.
Throw(w) ==
    /\ row' = [row EXCEPT ![work[w].event] = "failed"]
    /\ work' = [work EXCEPT ![w] = Idle]
    /\ UNCHANGED <<sent, acked, agenda>>

\* A call of the handler fails, or the invocation dies.
Interrupted(w) ==
    /\ work[w] # Idle
    /\ Fault
    /\ \/ Throw(w)
       \/ /\ work' = [work EXCEPT ![w] = Idle]
          /\ UNCHANGED <<sent, acked, row, agenda>>

\* Mutant: a status the ledger does not know.
Outcome_Done(pc) == IF pc = "reject" THEN "failed" ELSE "done"

\* The handler's outcome, decided at its last step.
Outcome(pc) == IF pc = "reject" THEN "failed" ELSE "processed"

Answer(w) ==
    /\ work[w].pc \in {"mark", "reject"}
    /\ Finish(w, Outcome(work[w].pc))

\* The outcome is marked and its answer lost, or marking fails, which is only
\* logged, and the answer is 200.
AnswerHalfway(w) ==
    /\ work[w].pc \in {"mark", "reject"}
    /\ Fault
    /\ \/ /\ row' = [row EXCEPT ![work[w].event] = Outcome(work[w].pc)]
          /\ UNCHANGED acked
       \/ /\ acked' = acked \cup {work[w].event}
          /\ UNCHANGED row
    /\ work' = [work EXCEPT ![w] = Idle]
    /\ UNCHANGED <<sent, agenda>>
=============================================================================
