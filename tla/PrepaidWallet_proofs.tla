------------------------ MODULE PrepaidWallet_proofs ------------------------
(***************************************************************************)
(* The wallet's guarantees for any lots, plans, hours, bookings, deciders, *)
(* refund requests and webhook handlers.                                   *)
(***************************************************************************)
EXTENDS PrepaidWallet, FiniteSums, TLAPS

(***************************************************************************)
(* The inductive invariant: the types, and what makes a confirm safe once  *)
(* it selected a package.  The row lock keeps the package as it was        *)
(* selected, with a session to spend and of the kind the student asked     *)
(* for; a booking that is not confirmed yet was not charged; and who       *)
(* decides on an excuse knows whose.                                       *)
(***************************************************************************)
LockHolds ==
    \A p \in Package, b \in Booking :
        lock[p] = b => /\ booking[b].status = "pending"
                       /\ package[p].status = "active"
                       /\ package[p].used < Hours[p]
                       /\ booking[b].wallet => p \in Lot
                       /\ \A q \in Package : lock[q] = b => q = p

NotYetCharged ==
    \A b \in Booking :
        booking[b].status \in {"none", "pending"} => booking[b].charged = None

DecidesOnOne ==
    \A d \in Decider : deciding[d].step # "idle" => deciding[d].booking \in Excusable

WalletInv ==
    WalletTypeOK /\ LockHolds /\ NotYetCharged /\ ChargedAsAsked /\ DecidesOnOne

\* The rows of each table, as WalletTypeOK has them.
PackageRow == [status : {"none", "active", "expired"}, used : Nat, live : BOOLEAN]

PackageTyped ==
    /\ package \in [Package -> PackageRow]
    /\ \A p \in Package : package[p].used <= Hours[p]

BookingTyped ==
    /\ lock \in [Package -> Booking \cup {None}]
    /\ booking \in [Booking ->
          [status : {"none", "pending", "confirmed", "closed", "cancelled"},
           wallet : BOOLEAN, charged : Package \cup {None}]]
    /\ restored \in [Booking -> BOOLEAN]
    /\ given \in [Booking -> Nat]

ExcuseTyped ==
    /\ excuse \in [Excusable -> {"none", "pending", "accepted", "rejected"}]
    /\ deciding \in [Decider -> [booking : Excusable \cup {None},
          verdict : {"none", "accepted", "rejected"}, step : {"idle", "write", "carry"}]]

RequestTyped ==
    /\ request \in [Request -> [status : {"none", "pending", "succeeded", "released"},
          lot : Lot \cup {None}, hours : Nat]]
    /\ saga \in [Request -> {"idle", "reserved", "failed", "done"}]

\* The type invariant is the types of its tables, now and after a step.
LEMMA TypeParts ==
    WalletTypeOK <=> PackageTyped /\ BookingTyped /\ ExcuseTyped /\ RequestTyped
BY DEF WalletTypeOK, PackageRow, PackageTyped, BookingTyped, ExcuseTyped, RequestTyped

LEMMA TypePartsNext ==
    PackageTyped' /\ BookingTyped' /\ ExcuseTyped' /\ RequestTyped' => WalletTypeOK'
BY DEF WalletTypeOK, PackageTyped, PackageRow, BookingTyped, ExcuseTyped, RequestTyped

\* The student starts with unused plans, no lot and no booking.
LEMMA WalletInvInit == WalletInit => WalletInv
<1> SUFFICES ASSUME WalletInit PROVE WalletInv
    OBVIOUS
<1>1. PackageTyped
    BY WalletAssumption DEF WalletInit, PackageTyped, PackageRow
<1>2. BookingTyped
    BY DEF WalletInit, BookingTyped
<1>3. ExcuseTyped
    BY DEF WalletInit, ExcuseTyped, Idle
<1>4. RequestTyped
    BY DEF WalletInit, RequestTyped, NotRequested
<1>5. LockHolds /\ NotYetCharged /\ ChargedAsAsked /\ DecidesOnOne
    BY WalletAssumption
       DEF WalletInit, LockHolds, NotYetCharged, ChargedAsAsked, DecidesOnOne, Idle
<1> QED
    BY <1>1, <1>2, <1>3, <1>4, <1>5, TypeParts DEF WalletInv

-----------------------------------------------------------------------------
(* What the actions may do to each table.                                  *)

\* No step changes the counter or the status of a package a confirm holds.
Spares(p) ==
    \/ Unlocked(p)
    \/ /\ package'[p].status = package[p].status
       /\ package'[p].used = package[p].used

\* Writing one row of an unlocked package.
LEMMA RowWritten ==
    ASSUME PackageTyped, NEW q \in Package, NEW row \in PackageRow,
           row.used <= Hours[q], Unlocked(q), package' = [package EXCEPT ![q] = row]
    PROVE  PackageTyped' /\ \A p \in Package : Spares(p)
BY DEF PackageTyped, PackageRow, Spares

\* Writing its counter alone.
LEMMA UsedWritten ==
    ASSUME PackageTyped, NEW q \in Package, NEW n \in Nat,
           n <= Hours[q], Unlocked(q), package' = [package EXCEPT ![q].used = n]
    PROVE  PackageTyped' /\ \A p \in Package : Spares(p)
BY DEF PackageTyped, PackageRow, Spares

\* A step that leaves the bookings alone and spares what confirms hold keeps all
\* that relates bookings to packages.
LEMMA BookingsKept ==
    ASSUME WalletInv, UNCHANGED <<lock, booking>>, \A p \in Package : Spares(p)
    PROVE  LockHolds' /\ NotYetCharged' /\ ChargedAsAsked'
<1>1. LockHolds'
    BY DEF WalletInv, LockHolds, Spares, Unlocked
<1>2. NotYetCharged' /\ ChargedAsAsked'
    BY DEF WalletInv, NotYetCharged, ChargedAsAsked
<1> QED
    BY <1>1, <1>2

\* An attendance, whatever it finds, gives back at most one session of an
\* unlocked package.
LEMMA AttendanceGivesBack ==
    ASSUME PackageTyped, BookingTyped, NEW b \in Booking, NEW outcome \in Restoring,
           FinalizeAttendance(b, outcome)
    PROVE  /\ PackageTyped' /\ \A p \in Package : Spares(p)
           /\ restored' \in [Booking -> BOOLEAN]
           /\ given' \in [Booking -> Nat]
<1>1. CASE UNCHANGED <<package, restored, given, log>>
    BY <1>1 DEF PackageTyped, BookingTyped, Spares
<1>2. CASE Restore(b)
    <2> DEFINE q == Credited(b)
               less == [package[q] EXCEPT !.used = @ - 1]
               row == IF q \in Lot THEN [less EXCEPT !.status = "active", !.live = TRUE]
                      ELSE less
    <2>1. CASE UNCHANGED package /\ UNCHANGED given
        BY <1>2, <2>1 DEF PackageTyped, BookingTyped, Spares, Restore
    <2>2. CASE /\ q # None /\ package[q].used > 0 /\ Unlocked(q)
               /\ package' = IF q \in Lot
                             THEN [package EXCEPT ![q].used = @ - 1,
                                      ![q].status = "active", ![q].live = TRUE]
                             ELSE [package EXCEPT ![q].used = @ - 1]
               /\ restored' = [restored EXCEPT ![b] = TRUE]
               /\ given' = [given EXCEPT ![b] = @ + 1]
        <3>1. q \in Package /\ package[q] \in PackageRow /\ package[q].used <= Hours[q]
            BY <2>2 DEF BookingTyped, PackageTyped, Credited
        <3>2. Hours[q] \in Nat
            BY <3>1, WalletAssumption
        <3>3. less \in PackageRow /\ less.used <= Hours[q]
            BY <2>2, <3>1, <3>2 DEF PackageRow
        <3>4. row \in PackageRow /\ row.used <= Hours[q]
            BY <3>3 DEF PackageRow
        <3>5. package' = [package EXCEPT ![q] = row]
            BY <2>2, <3>1 DEF PackageTyped, PackageRow
        <3>6. restored' \in [Booking -> BOOLEAN] /\ given' \in [Booking -> Nat]
            BY <2>2 DEF BookingTyped
        <3> HIDE DEF row, less
        <3>7. PackageTyped' /\ \A p \in Package : Spares(p)
            BY <2>2, <3>1, <3>4, <3>5, RowWritten
        <3> QED
            BY <3>6, <3>7
    <2> QED
        BY <1>2, <2>1, <2>2 DEF Restore
<1> QED
    BY <1>1, <1>2 DEF FinalizeAttendance

\* The lot's own life.
LEMMA LotKeeps ==
    ASSUME WalletInv, NEW l \in Lot, Grant(l) \/ Lapse(l) \/ SweepExpired(l)
    PROVE  WalletInv'
<1> DEFINE live == [package[l] EXCEPT !.status = "active"]
           swept == [package[l] EXCEPT !.status = "expired"]
<1>1. PackageTyped /\ BookingTyped /\ ExcuseTyped /\ RequestTyped /\ LockHolds
    BY TypeParts DEF WalletInv
<1>2. l \in Package /\ package[l] \in PackageRow /\ package[l].used <= Hours[l]
    BY <1>1 DEF Package, PackageTyped
<1>3. PackageTyped' /\ \A p \in Package : Spares(p)
    <2>1. CASE Grant(l)
        <3>1. Unlocked(l)
            BY <1>1, <1>2, <2>1 DEF Grant, LockHolds, Unlocked
        <3>2. live \in PackageRow /\ live.used <= Hours[l]
            BY <1>2 DEF PackageRow
        <3>3. package' = [package EXCEPT ![l] = live]
            BY <1>1, <2>1 DEF Grant, PackageTyped
        <3> QED
            BY <1>1, <1>2, <3>1, <3>2, <3>3, RowWritten
    <2>2. CASE Lapse(l)
        BY <1>1, <1>2, <2>2 DEF Lapse, PackageTyped, PackageRow, Spares
    <2>3. CASE SweepExpired(l)
        <3>1. swept \in PackageRow /\ swept.used <= Hours[l]
            BY <1>2 DEF PackageRow
        <3>2. package' = [package EXCEPT ![l] = swept] /\ Unlocked(l)
            BY <1>1, <2>3 DEF SweepExpired, PackageTyped
        <3> QED
            BY <1>1, <1>2, <3>1, <3>2, RowWritten
    <2> QED
        BY <2>1, <2>2, <2>3
<1>4. UNCHANGED <<lock, booking, restored, excuse, deciding, given, request, saga>>
    BY DEF Grant, Lapse, SweepExpired, bookingSide, refundSide
<1>5. BookingTyped' /\ ExcuseTyped' /\ RequestTyped' /\ DecidesOnOne'
    BY <1>1, <1>4 DEF BookingTyped, ExcuseTyped, RequestTyped, WalletInv, DecidesOnOne
<1>6. LockHolds' /\ NotYetCharged' /\ ChargedAsAsked'
    BY <1>3, <1>4, BookingsKept
<1> QED
    BY <1>3, <1>5, <1>6, TypePartsNext DEF WalletInv

\* The excuse and the attendance give a session back and leave the booking be.
LEMMA ExcuseKeeps ==
    ASSUME WalletInv, ExcuseStep
    PROVE  WalletInv'
<1>1. PackageTyped /\ BookingTyped /\ ExcuseTyped /\ RequestTyped /\ DecidesOnOne
    BY TypeParts DEF WalletInv
<1>2. UNCHANGED <<lock, booking, request, saga>>
    BY DEF ExcuseStep, SubmitExcuse, ReadExcuse, WriteVerdict, CarryOver, DeciderCrash,
           refundSide
<1>3. RequestTyped'
    BY <1>1, <1>2 DEF RequestTyped
<1>4. /\ PackageTyped' /\ \A p \in Package : Spares(p)
      /\ BookingTyped' /\ ExcuseTyped' /\ DecidesOnOne'
    <2>1. ASSUME NEW b \in Excusable, SubmitExcuse(b) PROVE <1>4!:
        BY <1>1, <2>1 DEF SubmitExcuse, PackageTyped, BookingTyped, ExcuseTyped, Spares,
               DecidesOnOne
    <2>2. ASSUME NEW d \in Decider, NEW b \in Excusable,
                 NEW v \in {"accepted", "rejected"}, ReadExcuse(d, b, v)
          PROVE  <1>4!:
        BY <1>1, <2>2 DEF ReadExcuse, PackageTyped, BookingTyped, ExcuseTyped, Spares,
               DecidesOnOne
    <2>3. ASSUME NEW d \in Decider, WriteVerdict(d) PROVE <1>4!:
        BY <1>1, <2>3
           DEF WriteVerdict, PackageTyped, BookingTyped, ExcuseTyped, Spares,
               DecidesOnOne, Idle
    <2>4. ASSUME NEW d \in Decider, CarryOver(d) PROVE <1>4!:
        <3> DEFINE b == deciding[d].booking
        <3>1. b \in Booking
            BY <1>1, <2>4, WalletAssumption DEF CarryOver, DecidesOnOne
        <3>2. "excused_carried" \in Restoring /\ FinalizeAttendance(b, "excused_carried")
            BY <2>4 DEF CarryOver, Restoring
        <3>3. /\ PackageTyped' /\ \A p \in Package : Spares(p)
              /\ restored' \in [Booking -> BOOLEAN] /\ given' \in [Booking -> Nat]
            BY <1>1, <3>1, <3>2, AttendanceGivesBack
        <3>4. UNCHANGED <<lock, booking, excuse>>
            BY <2>4 DEF CarryOver
        <3>5. ExcuseTyped' /\ DecidesOnOne'
            BY <1>1, <2>4 DEF CarryOver, ExcuseTyped, DecidesOnOne, Idle
        <3> QED
            BY <1>1, <3>3, <3>4, <3>5 DEF BookingTyped
    <2>5. ASSUME NEW d \in Decider, DeciderCrash(d) PROVE <1>4!:
        BY <1>1, <2>5
           DEF DeciderCrash, PackageTyped, BookingTyped, ExcuseTyped, Spares,
               DecidesOnOne, Idle
    <2> QED
        BY <2>1, <2>2, <2>3, <2>4, <2>5 DEF ExcuseStep
<1>5. LockHolds' /\ NotYetCharged' /\ ChargedAsAsked'
    BY <1>2, <1>4, BookingsKept
<1> QED
    BY <1>3, <1>4, <1>5, TypePartsNext DEF WalletInv

\* The refund moves the counter of an unlocked lot and its own rows.
LEMMA RefundKeeps ==
    ASSUME WalletInv, RefundStep
    PROVE  WalletInv'
<1>1. PackageTyped /\ BookingTyped /\ ExcuseTyped /\ RequestTyped
    BY TypeParts DEF WalletInv
<1>2. UNCHANGED bookingSide
    BY DEF RefundStep, Reserve, StripeAnswers, StripeThrows, Release, SagaStops,
           DashboardRefund, Deliver, FinalizeRefund, Reconcile, HandlerCrash
<1>3. BookingTyped' /\ ExcuseTyped' /\ DecidesOnOne'
    BY <1>1, <1>2 DEF bookingSide, BookingTyped, ExcuseTyped, WalletInv, DecidesOnOne
<1>4. PackageTyped' /\ (\A p \in Package : Spares(p)) /\ RequestTyped'
    <2>1. ASSUME UNCHANGED package PROVE PackageTyped' /\ \A p \in Package : Spares(p)
        BY <1>1, <2>1 DEF PackageTyped, Spares
    <2>2. ASSUME NEW l \in Package
          PROVE  /\ package[l].used \in Nat /\ package[l].used <= Hours[l]
                 /\ Hours[l] \in Nat
        BY <1>1, <2>2, WalletAssumption DEF PackageTyped, PackageRow
    <2>3. ASSUME NEW r \in Request, NEW l \in Lot, NEW n \in 1..Hours[l], Reserve(r, l, n)
          PROVE  <1>4!:
        <3> l \in Package
            BY DEF Package
        <3>1. package[l].used + n \in Nat /\ package[l].used + n <= Hours[l]
            BY <2>2, <2>3 DEF Reserve, Remaining
        <3>2. PackageTyped' /\ \A p \in Package : Spares(p)
            BY <1>1, <2>2, <2>3, <3>1, UsedWritten DEF Reserve
        <3>3. RequestTyped'
            BY <1>1, <2>2, <2>3 DEF Reserve, RequestTyped
        <3> QED
            BY <3>2, <3>3
    <2>4. ASSUME NEW r \in Request,
                 StripeAnswers(r) \/ StripeThrows(r) \/ SagaStops(r)
          PROVE  <1>4!:
        <3>1. UNCHANGED package
            BY <2>4 DEF StripeAnswers, StripeThrows, SagaStops
        <3>2. RequestTyped'
            BY <1>1, <2>4 DEF StripeAnswers, StripeThrows, SagaStops, RequestTyped
        <3> QED
            BY <2>1, <3>1, <3>2
    <2>5. ASSUME NEW r \in Request, Release(r) PROVE <1>4!:
        <3> DEFINE l == request[r].lot
        <3>1. RequestTyped'
            BY <1>1, <2>5 DEF Release, RequestTyped
        <3>2. PackageTyped' /\ \A p \in Package : Spares(p)
            <4> DEFINE rest == IF package[l].used > request[r].hours
                               THEN package[l].used - request[r].hours ELSE 0
            <4>1. CASE UNCHANGED package
                BY <2>1, <4>1
            <4>2. CASE l \notin Package /\ package' = [package EXCEPT ![l].used = rest]
                BY <1>1, <2>1, <4>2 DEF PackageTyped
            <4>3. CASE /\ l \in Package /\ Unlocked(l)
                       /\ package' = [package EXCEPT ![l].used = rest]
                <5>1. request[r].hours \in Nat
                    BY <1>1 DEF RequestTyped
                <5>2. rest \in Nat /\ rest <= Hours[l]
                    BY <2>2, <4>3, <5>1
                <5> HIDE DEF rest
                <5> QED
                    BY <1>1, <4>3, <5>2, UsedWritten
            <4> QED
                BY <2>5, <4>1, <4>2, <4>3 DEF Release
        <3> QED
            BY <3>1, <3>2
    <2>6. ASSUME NEW l \in Lot, NEW n \in 1..Hours[l], DashboardRefund(l, n) PROVE <1>4!:
        BY <1>1, <2>1, <2>6 DEF DashboardRefund, RequestTyped
    <2>7. ASSUME NEW h \in Handler, NEW l \in Lot, NEW n \in 1..Len(refunds[l]), Deliver(h, l, n)
          PROVE  <1>4!:
        BY <1>1, <2>1, <2>7 DEF Deliver, RequestTyped
    <2>8. ASSUME NEW h \in Handler, FinalizeRefund(h) PROVE <1>4!:
        <3> DEFINE r == Head(delivery[h]).by
        <3>1. UNCHANGED <<package, saga>> /\ r \in Request
            BY <2>8 DEF FinalizeRefund
        <3>2. \/ UNCHANGED request
              \/ request' = [request EXCEPT ![r].status = "succeeded"]
            BY <2>8 DEF FinalizeRefund
        <3> HIDE DEF r
        <3>3. RequestTyped'
            BY <1>1, <3>1, <3>2 DEF RequestTyped
        <3> QED
            BY <2>1, <3>1, <3>3
    <2>9. ASSUME NEW h \in Handler, Reconcile(h) PROVE <1>4!:
        <3> DEFINE l == Head(delivery[h]).lot
        <3>1. RequestTyped'
            BY <1>1, <2>9 DEF Reconcile, RequestTyped
        <3>2. PackageTyped' /\ \A p \in Package : Spares(p)
            <4>1. CASE UNCHANGED package
                BY <2>1, <4>1
            <4>2. CASE l \notin Package /\ package' = [package EXCEPT ![l].used = Hours[l]]
                BY <1>1, <2>1, <4>2 DEF PackageTyped
            <4>3. CASE /\ l \in Package /\ Unlocked(l)
                       /\ package' = [package EXCEPT ![l].used = Hours[l]]
                <5>1. Hours[l] \in Nat /\ Hours[l] <= Hours[l]
                    BY <2>2, <4>3
                <5> HIDE DEF l
                <5> QED
                    BY <1>1, <4>3, <5>1, UsedWritten
            <4> QED
                BY <2>9, <4>1, <4>2, <4>3 DEF Reconcile
        <3> QED
            BY <3>1, <3>2
    <2>10. ASSUME NEW h \in Handler, HandlerCrash(h) PROVE <1>4!:
        BY <1>1, <2>1, <2>10 DEF HandlerCrash, RequestTyped
    <2> QED
        BY <2>3, <2>4, <2>5, <2>6, <2>7, <2>8, <2>9, <2>10 DEF RefundStep
<1>5. LockHolds' /\ NotYetCharged' /\ ChargedAsAsked'
    BY <1>2, <1>4, BookingsKept DEF bookingSide
<1> QED
    BY <1>3, <1>4, <1>5, TypePartsNext DEF WalletInv

\* A confirm charges what it locked, once; the other calls leave a locked
\* package and the booking that holds it alone.
LEMMA BookingKeeps ==
    ASSUME WalletInv, BookingStep
    PROVE  WalletInv'
<1> DEFINE Kept ==
        /\ PackageTyped' /\ BookingTyped'
        /\ LockHolds' /\ NotYetCharged' /\ ChargedAsAsked'
<1> USE DEF WalletInv
<1>1. PackageTyped /\ BookingTyped /\ ExcuseTyped /\ RequestTyped
    BY TypeParts
<1>2. UNCHANGED <<excuse, deciding, request, saga>>
    BY DEF BookingStep, Book, ConfirmSelect, ConfirmCommit, ConfirmAbort, CloseBooking,
           CancelPending, CancelConfirmed, RecordAttendance, refundSide
<1>3. ExcuseTyped' /\ RequestTyped' /\ DecidesOnOne'
    BY <1>1, <1>2 DEF ExcuseTyped, RequestTyped, DecidesOnOne
<1>4. ASSUME UNCHANGED package PROVE PackageTyped'
    BY <1>1, <1>4 DEF PackageTyped
<1>5. ASSUME NEW b \in Booking, NEW wallet \in BOOLEAN, Book(b, wallet) PROVE Kept
    <2>1. PackageTyped' /\ BookingTyped'
        BY <1>1, <1>4, <1>5 DEF Book, BookingTyped
    <2>2. LockHolds'
        BY <1>1, <1>5 DEF Book, BookingTyped, LockHolds
    <2>3. NotYetCharged' /\ ChargedAsAsked'
        BY <1>1, <1>5 DEF Book, BookingTyped, NotYetCharged, ChargedAsAsked
    <2> QED
        BY <2>1, <2>2, <2>3
<1>6. ASSUME NEW b \in Booking, ConfirmSelect(b) PROVE Kept
    <2>1. PICK p \in Selectable(b) : lock' = [lock EXCEPT ![p] = b]
        BY <1>6 DEF ConfirmSelect
    <2>2. p \in Candidates(b) /\ Unlocked(p)
        BY <2>1 DEF Selectable
    <2>3. /\ p \in Package /\ Chargeable(p)
          /\ booking[b].wallet => p \in Lot
        BY <2>2 DEF Candidates, Package
    <2>4. PackageTyped' /\ BookingTyped'
        BY <1>1, <1>4, <1>6, <2>1, <2>3 DEF ConfirmSelect, BookingTyped
    <2>5. LockHolds'
        BY <1>1, <1>6, <2>1, <2>3
           DEF ConfirmSelect, BookingTyped, LockHolds, Chargeable, Confirming
    <2>6. NotYetCharged' /\ ChargedAsAsked'
        BY <1>6 DEF ConfirmSelect, NotYetCharged, ChargedAsAsked
    <2> QED
        BY <2>4, <2>5, <2>6
<1>7. ASSUME NEW b \in Booking, NEW p \in Package, ConfirmCommit(b, p) PROVE Kept
    <2> DEFINE row == [package[p] EXCEPT !.used = @ + 1, !.live = TRUE]
    <2>1. /\ booking[b].status = "pending" /\ package[p].used < Hours[p]
          /\ booking[b].wallet => p \in Lot
          /\ \A q \in Package : lock[q] = b => q = p
        BY <1>7 DEF ConfirmCommit, LockHolds
    <2>2. package[p] \in PackageRow /\ Hours[p] \in Nat
        BY <1>1, WalletAssumption DEF PackageTyped
    <2>3. row \in PackageRow /\ row.used <= Hours[p]
        <3>1. package[p].used + 1 \in Nat /\ package[p].used + 1 <= Hours[p]
            BY <2>1, <2>2 DEF PackageRow
        <3>2. row = [package[p] EXCEPT !.used = package[p].used + 1, !.live = TRUE]
            OBVIOUS
        <3> DEFINE n == package[p].used + 1
        <3>3. row = [package[p] EXCEPT !.used = n, !.live = TRUE]
            BY <3>2
        <3>4. n \in Nat /\ n <= Hours[p]
            BY <3>1
        <3> HIDE DEF row, n
        <3> QED
            BY <2>2, <3>3, <3>4 DEF PackageRow
    <2>4. package' = [package EXCEPT ![p] = row]
        BY <1>1, <1>7 DEF ConfirmCommit, PackageTyped, PackageRow
    <2>5. PackageTyped'
        <3> HIDE DEF row
        <3> QED
            BY <1>1, <2>3, <2>4 DEF PackageTyped
    <2>6. BookingTyped'
        BY <1>1, <1>7 DEF ConfirmCommit, BookingTyped
    <2>7. LockHolds'
        BY <1>1, <1>7, <2>1, <2>4, WalletAssumption
           DEF ConfirmCommit, BookingTyped, PackageTyped, LockHolds
    <2>8. NotYetCharged' /\ ChargedAsAsked'
        BY <1>1, <1>7, <2>1, WalletAssumption
           DEF ConfirmCommit, BookingTyped, NotYetCharged, ChargedAsAsked
    <2> QED
        BY <2>5, <2>6, <2>7, <2>8
<1>8. ASSUME NEW b \in Booking, NEW p \in Package, ConfirmAbort(b, p) PROVE Kept
    <2>1. PackageTyped' /\ BookingTyped'
        BY <1>1, <1>4, <1>8 DEF ConfirmAbort, BookingTyped
    <2>2. LockHolds'
        BY <1>1, <1>8, WalletAssumption DEF ConfirmAbort, BookingTyped, LockHolds
    <2>3. NotYetCharged' /\ ChargedAsAsked'
        BY <1>8 DEF ConfirmAbort, NotYetCharged, ChargedAsAsked
    <2> QED
        BY <2>1, <2>2, <2>3
<1>9. ASSUME NEW b \in Booking, CloseBooking(b) \/ CancelPending(b) PROVE Kept
    <2>1. PackageTyped' /\ BookingTyped'
        BY <1>1, <1>4, <1>9 DEF CloseBooking, CancelPending, BookingTyped
    <2>2. LockHolds'
        BY <1>1, <1>9 DEF CloseBooking, CancelPending, Confirming, BookingTyped, LockHolds
    <2>3. NotYetCharged' /\ ChargedAsAsked'
        BY <1>1, <1>9
           DEF CloseBooking, CancelPending, BookingTyped, NotYetCharged, ChargedAsAsked
    <2> QED
        BY <2>1, <2>2, <2>3
<1>10. ASSUME NEW b \in Booking, CancelConfirmed(b) PROVE Kept
    <2> DEFINE q == Credited(b)
               less == package[q].used - 1
    <2>1. q \in Package
        BY <1>1, <1>10 DEF CancelConfirmed, Credited, BookingTyped, ChargedAsAsked
    <2>2. package[q].used \in Nat /\ Hours[q] \in Nat /\ package[q].used <= Hours[q]
        BY <1>1, <2>1, WalletAssumption DEF PackageTyped, PackageRow
    <2>3. PackageTyped' /\ \A p \in Package : Spares(p)
        <3>1. CASE UNCHANGED package
            BY <1>4, <3>1 DEF Spares
        <3>2. CASE /\ package[q].used > 0 /\ Unlocked(q)
                   /\ package' = [package EXCEPT ![q].used = less]
            <4>1. less \in Nat /\ less <= Hours[q]
                BY <2>2, <3>2
            <4> HIDE DEF less, q
            <4> QED
                BY <1>1, <2>1, <3>2, <4>1, UsedWritten
        <3> QED
            BY <1>10, <3>1, <3>2 DEF CancelConfirmed
    <2>4. BookingTyped'
        BY <1>1, <1>10 DEF CancelConfirmed, BookingTyped
    <2>5. LockHolds'
        BY <1>1, <1>10, <2>3
           DEF CancelConfirmed, BookingTyped, LockHolds, Spares, Unlocked
    <2>6. NotYetCharged' /\ ChargedAsAsked'
        BY <1>1, <1>10 DEF CancelConfirmed, BookingTyped, NotYetCharged, ChargedAsAsked
    <2> QED
        BY <2>3, <2>4, <2>5, <2>6
<1>11. ASSUME NEW b \in Booking, NEW outcome \in Restoring, RecordAttendance(b, outcome)
       PROVE  Kept
    <2>1. /\ PackageTyped' /\ \A p \in Package : Spares(p)
          /\ restored' \in [Booking -> BOOLEAN] /\ given' \in [Booking -> Nat]
        BY <1>1, <1>11, AttendanceGivesBack DEF RecordAttendance
    <2>2. UNCHANGED <<lock, booking>>
        BY <1>11 DEF RecordAttendance
    <2> QED
        BY <1>1, <2>1, <2>2, BookingsKept DEF BookingTyped
<1>12. Kept
    BY <1>5, <1>6, <1>7, <1>8, <1>9, <1>10, <1>11 DEF BookingStep
<1> QED
    BY <1>3, <1>12, TypePartsNext

-----------------------------------------------------------------------------
(* The theorems.                                                           *)

\* Every step of the wallet keeps the invariant.
LEMMA WalletInvNext == WalletInv /\ [WalletNext]_walletVars => WalletInv'
<1> SUFFICES ASSUME WalletInv, [WalletNext]_walletVars PROVE WalletInv'
    OBVIOUS
<1>1. CASE BookingStep
    BY <1>1, BookingKeeps
<1>2. CASE ExcuseStep
    BY <1>2, ExcuseKeeps
<1>3. CASE LotStep
    BY <1>3, LotKeeps DEF LotStep
<1>4. CASE RefundStep
    BY <1>4, RefundKeeps
<1>5. CASE UNCHANGED walletVars
    BY <1>5 DEF walletVars, WalletInv, WalletTypeOK, LockHolds, NotYetCharged,
                ChargedAsAsked, DecidesOnOne
<1> QED
    BY <1>1, <1>2, <1>3, <1>4, <1>5 DEF WalletNext

\* What the row lock and the status machine keep holds throughout.
THEOREM WalletInvariant == WalletSpec => []WalletInv
<1> QED
    BY WalletInvInit, WalletInvNext, PTL DEF WalletSpec

\* The wallet's rows stay well formed; above all no package ever counts more
\* used sessions than it has, however draws, refunds and restores overlap.
THEOREM WalletTypes == WalletSpec => []WalletTypeOK
<1>1. WalletInv => WalletTypeOK
    BY DEF WalletInv
<1> QED
    BY <1>1, WalletInvariant, PTL

\* The confirm fails closed: a booking that was confirmed was charged, and to a
\* lot if the student chose the wallet.
THEOREM WalletCharges == WalletSpec => []ChargedAsAsked
<1>1. WalletInv => ChargedAsAsked
    BY DEF WalletInv
<1> QED
    BY <1>1, WalletInvariant, PTL

\* A refund request ends once, whichever of the webhook and the release is first,
\* and nothing reserves it again.
THEOREM WalletRefundsEnd == WalletSpec => RefundEndsOnce
<1> DEFINE Ended(r) == request[r].status \in {"succeeded", "released"}
           Once == \A r \in Request : Ended(r) => request'[r] = request[r]
<1>1. ASSUME WalletInv, [WalletNext]_walletVars PROVE Once
    <2>1. RequestTyped
        BY <1>1, TypeParts DEF WalletInv
    <2>2. CASE UNCHANGED request
        BY <2>2
    <2>3. ASSUME NEW r \in Request, NEW l \in Lot, NEW n \in 1..Hours[l], Reserve(r, l, n)
          PROVE  Once
        BY <2>1, <2>3 DEF Reserve, RequestTyped
    <2>4. ASSUME NEW r \in Request, Release(r) PROVE Once
        BY <2>1, <2>4 DEF Release, RequestTyped
    <2>5. ASSUME NEW h \in Handler, FinalizeRefund(h) PROVE Once
        BY <2>1, <2>5 DEF FinalizeRefund, RequestTyped
    <2>6. CASE BookingStep \/ ExcuseStep \/ LotStep \/ UNCHANGED walletVars
        <3>1. UNCHANGED request
            BY <2>6
               DEF BookingStep, Book, ConfirmSelect, ConfirmCommit, ConfirmAbort,
                   CloseBooking, CancelPending, CancelConfirmed, RecordAttendance,
                   ExcuseStep, SubmitExcuse, ReadExcuse, WriteVerdict, CarryOver,
                   DeciderCrash, LotStep, Grant, Lapse, SweepExpired, refundSide,
                   walletVars
        <3> QED
            BY <2>2, <3>1
    <2>7. CASE RefundStep
        BY <2>2, <2>3, <2>4, <2>5, <2>7
           DEF RefundStep, StripeAnswers, StripeThrows, SagaStops, DashboardRefund,
               Deliver, Reconcile, HandlerCrash
    <2> QED
        BY <1>1, <2>6, <2>7 DEF WalletNext
<1>2. WalletInv /\ [WalletNext]_walletVars => [Once]_walletVars
    BY <1>1
<1> QED
    BY <1>2, WalletInvariant, PTL DEF WalletSpec, RefundEndsOnce

\* Writing the counter of any package changes no lot's status.
LEMMA StatusKept ==
    ASSUME PackageTyped, NEW q, NEW n, package' = [package EXCEPT ![q].used = n], NEW l \in Lot
    PROVE  package'[l].status = package[l].status
<1>1. l \in DOMAIN package /\ package[l] \in PackageRow
    BY DEF PackageTyped, Package
<1>2. CASE l = q
    <2>1. package'[l] = [package[l] EXCEPT !.used = n]
        BY <1>1, <1>2
    <2> QED
        BY <1>1, <2>1 DEF PackageRow
<1>3. CASE l # q
    BY <1>1, <1>3
<1> QED
    BY <1>2, <1>3

\* An expired lot comes back only for the attendance of a session that was
\* charged to it.
THEOREM WalletExpires == WalletSpec => ExpiredUnlessRestored
<1> DEFINE Cause(l) == \E b \in Booking :
                          /\ booking[b].charged = l
                          /\ ~restored[b] /\ restored'[b]
           Stays == \A l \in Lot :
                       package[l].status = "expired" /\ package'[l].status # "expired"
                          => Cause(l)
<1>1. ASSUME WalletInv, [WalletNext]_walletVars PROVE Stays
    <2>1. PackageTyped /\ BookingTyped
        BY <1>1, TypeParts DEF WalletInv
    <2>2. CASE UNCHANGED package
        BY <2>2
    <2>used. ASSUME NEW q, NEW n, package' = [package EXCEPT ![q].used = n] PROVE Stays
        BY <2>1, <2>used, StatusKept
    <2>3. ASSUME NEW l \in Lot, Grant(l) \/ Lapse(l) \/ SweepExpired(l) PROVE Stays
        <3> SUFFICES ASSUME NEW k \in Lot, package[k].status = "expired"
                     PROVE  package'[k].status = "expired"
            OBVIOUS
        <3>1. l \in Package /\ package[l].status # "expired"
            BY <2>3 DEF Package, Grant, Lapse, SweepExpired
        <3>2. package'[k] = package[k]
            BY <2>1, <2>3, <3>1 DEF Grant, Lapse, SweepExpired, PackageTyped, Package
        <3> QED
            BY <3>2
    <2>4. ASSUME NEW b \in Booking, NEW p \in Package, ConfirmCommit(b, p) PROVE Stays
        <3>1. package[p].status = "active"
            BY <1>1, <2>4 DEF ConfirmCommit, WalletInv, LockHolds
        <3>2. \A k \in Lot : k # p => package'[k] = package[k]
            BY <2>1, <2>4 DEF ConfirmCommit, PackageTyped, Package
        <3> QED
            BY <3>1, <3>2
    <2>5. ASSUME NEW b \in Booking, CancelConfirmed(b) PROVE Stays
        BY <2>2, <2>5, <2>used DEF CancelConfirmed
    <2>6. ASSUME NEW b \in Booking, NEW outcome \in Restoring, FinalizeAttendance(b, outcome)
          PROVE  Stays
        <3>1. CASE Restore(b) /\ ~restored[b]
            <4>1. CASE UNCHANGED package
                BY <2>2, <4>1
            <4>2. CASE ~UNCHANGED package /\ Credited(b) \in Plan
                <5>1. Credited(b) \notin Lot
                    BY <4>2, WalletAssumption
                <5> QED
                    BY <2>used, <3>1, <4>2, <5>1 DEF Restore
            <4>3. CASE ~UNCHANGED package /\ Credited(b) \notin Plan
                <5> SUFFICES ASSUME NEW k \in Lot, package'[k] # package[k] PROVE Cause(k)
                    OBVIOUS
                <5>1. k = Credited(b)
                    BY <2>1, <3>1, <4>3 DEF Restore, PackageTyped, Package
                <5>2. restored'[b] = TRUE
                    BY <2>1, <3>1, <4>3 DEF Restore, BookingTyped
                <5> QED
                    BY <3>1, <5>1, <5>2 DEF Credited
            <4> QED
                BY <4>1, <4>2, <4>3
        <3> QED
            BY <2>2, <2>6, <3>1 DEF FinalizeAttendance
    <2>7. ASSUME NEW r \in Request, NEW l \in Lot, NEW n \in 1..Hours[l], Reserve(r, l, n)
          PROVE  Stays
        BY <2>7, <2>used DEF Reserve
    <2>8. ASSUME NEW r \in Request, Release(r) PROVE Stays
        BY <2>2, <2>8, <2>used DEF Release
    <2>9. ASSUME NEW h \in Handler, Reconcile(h) PROVE Stays
        BY <2>2, <2>9, <2>used DEF Reconcile
    <2>10. CASE BookingStep
        BY <2>2, <2>4, <2>5, <2>6, <2>10
           DEF BookingStep, Book, ConfirmSelect, ConfirmAbort, CloseBooking,
               CancelPending, RecordAttendance
    <2>11. CASE ExcuseStep
        <3>1. ASSUME NEW d \in Decider, CarryOver(d) PROVE Stays
            <4>1. deciding[d].booking \in Booking
                BY <1>1, <3>1, WalletAssumption DEF CarryOver, WalletInv, DecidesOnOne
            <4> QED
                BY <2>6, <3>1, <4>1 DEF CarryOver, Restoring
        <3> QED
            BY <2>2, <2>11, <3>1
               DEF ExcuseStep, SubmitExcuse, ReadExcuse, WriteVerdict, DeciderCrash
    <2>12. CASE LotStep
        BY <2>3, <2>12 DEF LotStep
    <2>13. CASE RefundStep
        BY <2>2, <2>7, <2>8, <2>9, <2>13
           DEF RefundStep, StripeAnswers, StripeThrows, SagaStops, DashboardRefund,
               Deliver, FinalizeRefund, HandlerCrash
    <2>14. CASE UNCHANGED walletVars
        BY <2>2, <2>14 DEF walletVars
    <2> QED
        BY <1>1, <2>10, <2>11, <2>12, <2>13, <2>14 DEF WalletNext
<1>2. WalletInv /\ [WalletNext]_walletVars => [Stays]_walletVars
    BY <1>1
<1> QED
    BY <1>2, WalletInvariant, PTL DEF WalletSpec, ExpiredUnlessRestored

(***************************************************************************)
(* The events table.                                                       *)
(***************************************************************************)
LogTyped ==
    log \in [draw : [Booking -> Nat], restore : [Booking -> Nat],
             refunded : [Request -> Nat], external : [Lot -> Int]]

\* One event of a session, and one of a request, as EventsExplained has them.
SessionExplained ==
    \A b \in Booking :
        /\ log.draw[b] = IF booking[b].charged \in Lot THEN 1 ELSE 0
        /\ log.restore[b] <= log.draw[b]
        /\ log.restore[b] = 1 => restored[b]

RefundExplained ==
    \A r \in Request :
        log.refunded[r] = IF request[r].status = "succeeded" THEN request[r].hours ELSE 0

\* An attendance writes a restore event of a lot's session with its evidence.
LEMMA AttendanceExplained ==
    ASSUME PackageTyped, BookingTyped, LogTyped, SessionExplained, NEW b \in Booking,
           NEW outcome, FinalizeAttendance(b, outcome), UNCHANGED booking
    PROVE  LogTyped' /\ SessionExplained' /\ log'.refunded = log.refunded
<1>1. CASE UNCHANGED <<restored, log>>
    BY <1>1 DEF LogTyped, SessionExplained
<1>2. CASE UNCHANGED log /\ restored' = [restored EXCEPT ![b] = TRUE]
    BY <1>2 DEF LogTyped, SessionExplained, BookingTyped
<1>3. CASE /\ ~restored[b] /\ booking[b].charged \in Lot
           /\ log' = [log EXCEPT !.restore[b] = @ + 1]
           /\ restored' = [restored EXCEPT ![b] = TRUE]
    <2>1. log.restore[b] = 0 /\ log.draw[b] = 1
        BY <1>3 DEF SessionExplained, LogTyped
    <2>2. log' = [log EXCEPT !.restore = [log.restore EXCEPT ![b] = 1]]
        BY <1>3, <2>1 DEF LogTyped
    <2>3. LogTyped' /\ log'.refunded = log.refunded
        BY <2>2 DEF LogTyped
    <2>4. SessionExplained'
        BY <1>3, <2>1, <2>2 DEF LogTyped, SessionExplained, BookingTyped
    <2> QED
        BY <2>3, <2>4
<1> QED
    BY <1>1, <1>2, <1>3 DEF FinalizeAttendance, Restore, Credited

\* Every step explains the events it writes.
LEMMA EventsNext ==
    ASSUME WalletInv, LogTyped, SessionExplained, RefundExplained, [WalletNext]_walletVars
    PROVE  LogTyped' /\ SessionExplained' /\ RefundExplained'
<1> DEFINE Explained == LogTyped' /\ SessionExplained' /\ RefundExplained'
<1>1. PackageTyped /\ BookingTyped /\ RequestTyped
    BY TypeParts DEF WalletInv
<1>2. ASSUME UNCHANGED <<log, booking, restored, request>> PROVE Explained
    BY <1>2 DEF LogTyped, SessionExplained, RefundExplained
<1>3. ASSUME UNCHANGED <<log, restored, request>>,
             \A b \in Booking : booking'[b].charged = booking[b].charged
      PROVE  Explained
    BY <1>3 DEF LogTyped, SessionExplained, RefundExplained
<1>4. CASE BookingStep
    <2>1. ASSUME NEW b \in Booking, NEW wallet \in BOOLEAN, Book(b, wallet) PROVE Explained
        BY <1>1, <1>3, <2>1 DEF Book, refundSide, BookingTyped
    <2>2. ASSUME NEW b \in Booking, ConfirmSelect(b) PROVE Explained
        BY <1>2, <2>2 DEF ConfirmSelect, refundSide
    <2>3. ASSUME NEW b \in Booking, NEW p \in Package, ConfirmCommit(b, p) PROVE Explained
        <3>1. booking[b].charged = None
            BY <1>1, <2>3 DEF ConfirmCommit, WalletInv, LockHolds, NotYetCharged
        <3>2. log.draw[b] = 0
            BY <3>1, WalletAssumption DEF SessionExplained, Package
        <3>3. log' = IF p \in Lot THEN [log EXCEPT !.draw = [log.draw EXCEPT ![b] = 1]] ELSE log
            BY <2>3, <3>2 DEF ConfirmCommit, LogTyped
        <3>4. \A c \in Booking :
                  booking'[c].charged = IF c = b THEN p ELSE booking[c].charged
            BY <1>1, <2>3 DEF ConfirmCommit, BookingTyped
        <3>5. LogTyped' /\ log'.refunded = log.refunded /\ log'.restore = log.restore
            BY <3>3 DEF LogTyped
        <3>6. UNCHANGED <<restored, request>>
            BY <2>3 DEF ConfirmCommit, refundSide
        <3>7. \A c \in Booking :
                  log'.draw[c] = IF booking'[c].charged \in Lot THEN 1 ELSE 0
            BY <3>2, <3>3, <3>4 DEF LogTyped, SessionExplained
        <3>8. \A c \in Booking : log.draw[c] <= log'.draw[c]
            BY <3>2, <3>3 DEF LogTyped
        <3>9. SessionExplained'
            BY <3>5, <3>6, <3>7, <3>8 DEF LogTyped, SessionExplained
        <3> QED
            BY <3>5, <3>6, <3>9 DEF RefundExplained
    <2>4. ASSUME NEW b \in Booking, NEW p \in Package, ConfirmAbort(b, p) PROVE Explained
        BY <1>2, <2>4 DEF ConfirmAbort, refundSide
    <2>5. ASSUME NEW b \in Booking, CloseBooking(b) \/ CancelPending(b) PROVE Explained
        BY <1>1, <1>3, <2>5 DEF CloseBooking, CancelPending, refundSide, BookingTyped
    <2>6. ASSUME NEW b \in Booking, CancelConfirmed(b) PROVE Explained
        BY <1>1, <1>3, <2>6 DEF CancelConfirmed, refundSide, BookingTyped
    <2>7. ASSUME NEW b \in Booking, NEW outcome \in Restoring, RecordAttendance(b, outcome)
          PROVE  Explained
        BY <1>1, <2>7, AttendanceExplained DEF RecordAttendance, refundSide, RefundExplained
    <2> QED
        BY <1>4, <2>1, <2>2, <2>3, <2>4, <2>5, <2>6, <2>7 DEF BookingStep
<1>5. CASE ExcuseStep
    <2>1. ASSUME NEW d \in Decider, CarryOver(d) PROVE Explained
        <3>1. deciding[d].booking \in Booking
            BY <2>1, WalletAssumption DEF CarryOver, WalletInv, DecidesOnOne
        <3> QED
            BY <1>1, <2>1, <3>1, AttendanceExplained DEF CarryOver, refundSide, RefundExplained
    <2> QED
        BY <1>2, <1>5, <2>1
           DEF ExcuseStep, SubmitExcuse, ReadExcuse, WriteVerdict, DeciderCrash, refundSide
<1>6. CASE LotStep
    BY <1>2, <1>6 DEF LotStep, Grant, Lapse, SweepExpired, bookingSide, refundSide
<1>7. CASE RefundStep
    <2>1. UNCHANGED <<booking, restored>>
        BY <1>7
           DEF RefundStep, Reserve, StripeAnswers, StripeThrows, Release, SagaStops,
               DashboardRefund, Deliver, FinalizeRefund, Reconcile, HandlerCrash, bookingSide
    <2>2. ASSUME UNCHANGED log, NEW r \in Request, request[r].status # "succeeded",
                 NEW new, new.status # "succeeded", request' = [request EXCEPT ![r] = new]
          PROVE  Explained
        BY <1>1, <2>1, <2>2 DEF RequestTyped, LogTyped, SessionExplained, RefundExplained
    <2>3. ASSUME NEW r \in Request, NEW l \in Lot, NEW n \in 1..Hours[l], Reserve(r, l, n)
          PROVE  Explained
        <3> DEFINE new == [status |-> "pending", lot |-> l, hours |-> n]
        <3>1. request' = [request EXCEPT ![r] = new] /\ new.status # "succeeded"
            BY <2>3 DEF Reserve
        <3> QED
            BY <2>2, <2>3, <3>1 DEF Reserve
    <2>4. ASSUME NEW r \in Request, Release(r) PROVE Explained
        <3> DEFINE new == [request[r] EXCEPT !.status = "released"]
        <3>1. new.status # "succeeded"
            BY <1>1 DEF RequestTyped
        <3>2. CASE UNCHANGED request
            BY <1>2, <2>1, <2>4, <3>2 DEF Release
        <3>3. CASE request[r].status = "pending" /\ request' = [request EXCEPT ![r] = new]
            BY <2>2, <2>4, <3>1, <3>3 DEF Release
        <3> QED
            BY <2>4, <3>2, <3>3 DEF Release
    <2>5. ASSUME NEW h \in Handler, FinalizeRefund(h) PROVE Explained
        <3> DEFINE r == Head(delivery[h]).by
        <3>1. CASE UNCHANGED <<request, log>>
            BY <1>2, <2>1, <3>1
        <3>2. CASE /\ r \in Request /\ request[r].status = "pending"
                   /\ request' = [request EXCEPT ![r].status = "succeeded"]
                   /\ log' = [log EXCEPT !.refunded[r] = @ + request[r].hours]
            <4> HIDE DEF r
            <4>1. log.refunded[r] = 0 /\ request[r].hours \in Nat
                BY <1>1, <3>2 DEF RefundExplained, RequestTyped
            <4>2. log' = [log EXCEPT !.refunded =
                             [log.refunded EXCEPT ![r] = request[r].hours]]
                BY <3>2, <4>1 DEF LogTyped
            <4>3. LogTyped' /\ log'.draw = log.draw /\ log'.restore = log.restore
                BY <4>1, <4>2 DEF LogTyped
            <4>4. \A q \in Request :
                      log'.refunded[q] = IF q = r THEN request[r].hours ELSE log.refunded[q]
                BY <3>2, <4>2 DEF LogTyped
            <4>5. \A q \in Request :
                      /\ request'[q].hours = request[q].hours
                      /\ request'[q].status = IF q = r THEN "succeeded" ELSE request[q].status
                BY <1>1, <3>2 DEF RequestTyped
            <4>6. RefundExplained'
                BY <4>4, <4>5 DEF RefundExplained
            <4> QED
                BY <2>1, <4>3, <4>6 DEF SessionExplained
        <3> QED
            BY <2>5, <3>1, <3>2 DEF FinalizeRefund
    <2>6. ASSUME NEW h \in Handler, Reconcile(h) PROVE Explained
        <3> DEFINE l == Head(delivery[h]).lot
        <3>1. UNCHANGED request
            BY <2>6 DEF Reconcile
        <3>2. CASE UNCHANGED log
            BY <1>2, <2>1, <3>1, <3>2
        <3>3. CASE log' = [log EXCEPT !.external[l] = @ + Remaining(l)]
            <4>1. ASSUME l \in Lot PROVE Remaining(l) \in Int
                BY <1>1, <4>1, WalletAssumption
                   DEF Remaining, Package, PackageTyped, PackageRow
            <4> DEFINE sum == log.external[l] + Remaining(l)
                       voided == [log.external EXCEPT ![l] = sum]
            <4> HIDE DEF l
            <4>2. voided \in [Lot -> Int]
                <5>1. log.external \in [Lot -> Int]
                    BY DEF LogTyped
                <5>2. l \in Lot => sum \in Int
                    BY <4>1, <5>1
                <5> HIDE DEF sum
                <5> QED
                    BY <5>1, <5>2
            <4>3. log' = [log EXCEPT !.external = voided]
                BY <3>3
            <4> HIDE DEF voided
            <4>4. /\ LogTyped' /\ log'.draw = log.draw
                  /\ log'.restore = log.restore /\ log'.refunded = log.refunded
                BY <4>2, <4>3 DEF LogTyped
            <4> QED
                BY <2>1, <3>1, <4>4 DEF SessionExplained, RefundExplained
        <3> QED
            BY <2>6, <3>2, <3>3 DEF Reconcile
    <2> QED
        BY <1>2, <1>7, <2>1, <2>3, <2>4, <2>5, <2>6
           DEF RefundStep, StripeAnswers, StripeThrows, SagaStops, DashboardRefund,
               Deliver, HandlerCrash
<1>8. CASE UNCHANGED walletVars
    BY <1>2, <1>8 DEF walletVars
<1> QED
    BY <1>4, <1>5, <1>6, <1>7, <1>8 DEF WalletNext

\* The events table tells what happened once, through redeliveries and crashes:
\* one draw for a booking charged to a lot, at most one restore and only with its
\* evidence, one refunded event for a request that succeeded.
THEOREM WalletEvents == WalletSpec => []EventsExplained
<1> DEFINE Inv == LogTyped /\ SessionExplained /\ RefundExplained
<1>1. WalletInit => Inv
    BY WalletAssumption
       DEF WalletInit, LogTyped, SessionExplained, RefundExplained, NotRequested, Package
<1>2. Inv /\ WalletInv /\ [WalletNext]_walletVars => Inv'
    BY EventsNext
<1>3. Inv => EventsExplained
    BY DEF SessionExplained, RefundExplained, EventsExplained
<1> QED
    BY <1>1, <1>2, <1>3, WalletInvariant, PTL DEF WalletSpec

(***************************************************************************)
(* No hour in two places.  NoOversell is inductive with WalletInv: what    *)
(* each step adds to a package's counter covers what it adds to the hours  *)
(* spent or held, and where a counter is cut off at zero nothing is left.  *)
(***************************************************************************)
Session == [b \in Booking |-> 1 - given[b]]
Asked == [r \in Request |-> request[r].hours]
ChargedTo(p) == {b \in Booking : booking[b].charged = p}
HeldOn(p) ==
    {r \in Request : request[r].lot = p /\ request[r].status \in {"pending", "succeeded"}}

Spent(p) == SumFunctionOnSet(Session, ChargedTo(p))
HeldHours(p) == SumFunctionOnSet(Asked, HeldOn(p))
Voided(p) == IF p \in Lot THEN log.external[p] ELSE 0

Covered(p) == package[p].used >= Spent(p) + HeldHours(p) + Voided(p)

\* The three amounts are integers, before a step
LEMMA AmountsTyped ==
    ASSUME BookingTyped, RequestTyped, LogTyped, NEW p \in Package
    PROVE  Spent(p) \in Int /\ HeldHours(p) \in Int /\ Voided(p) \in Int
<1>1. IsFiniteSet(ChargedTo(p)) /\ IsFiniteSet(HeldOn(p))
    BY WalletAssumption, FS_Subset DEF ChargedTo, HeldOn
<1>2. (\A b \in ChargedTo(p) : Session[b] \in Int) /\ \A r \in HeldOn(p) : Asked[r] \in Int
    BY DEF BookingTyped, RequestTyped, Session, Asked, ChargedTo, HeldOn
<1>3. Voided(p) \in Int
    BY DEF LogTyped, Voided
<1> QED
    BY <1>1, <1>2, <1>3, SumInteger DEF Spent, HeldHours

\* and after it.
LEMMA AmountsTypedNext ==
    ASSUME BookingTyped', RequestTyped', LogTyped', NEW p \in Package
    PROVE  Spent(p)' \in Int /\ HeldHours(p)' \in Int /\ Voided(p)' \in Int
<1>1. IsFiniteSet(ChargedTo(p)') /\ IsFiniteSet(HeldOn(p)')
    BY WalletAssumption, FS_Subset DEF ChargedTo, HeldOn
<1>2. (\A b \in ChargedTo(p)' : Session'[b] \in Int) /\ \A r \in HeldOn(p)' : Asked'[r] \in Int
    BY DEF BookingTyped, RequestTyped, Session, Asked, ChargedTo, HeldOn
<1>3. Voided(p)' \in Int
    BY DEF LogTyped, Voided
<1> QED
    BY <1>1, <1>2, <1>3, SumInteger DEF Spent, HeldHours

\* Sessions neither charged nor given back: the same are spent.
LEMMA SpentKept ==
    ASSUME UNCHANGED given, \A b \in Booking : booking'[b].charged = booking[b].charged,
           NEW p \in Package
    PROVE  Spent(p)' = Spent(p)
BY DEF Spent, Session, ChargedTo

\* A session given back is no longer spent.
LEMMA SpentGivenBack ==
    ASSUME BookingTyped, NEW b \in Booking, given' = [given EXCEPT ![b] = @ + 1],
           \A c \in Booking : booking'[c].charged = booking[c].charged,
           NEW p \in Package
    PROVE  Spent(p)' = IF p = booking[b].charged THEN Spent(p) - 1 ELSE Spent(p)
<1> DEFINE F == Session
           G == Session'
           S == ChargedTo(p)
<1>1. ChargedTo(p)' = S /\ (b \in S <=> p = booking[b].charged)
    BY DEF ChargedTo
<1>2. IsFiniteSet(S)
    BY WalletAssumption, FS_Subset DEF ChargedTo
<1>3. \A c \in S : F[c] \in Int /\ G[c] \in Int /\ (c # b => F[c] = G[c])
    BY DEF BookingTyped, Session, ChargedTo
<1>4. b \in S => G[b] = F[b] - 1
    BY DEF BookingTyped, Session, ChargedTo
<1>5. Spent(p) = SumFunctionOnSet(F, S) /\ Spent(p)' = SumFunctionOnSet(G, S)
    BY <1>1 DEF Spent
<1> HIDE DEF F, G, S
<1>6. CASE b \in S
    <2>1. SumFunctionOnSet(G, S) = SumFunctionOnSet(F, S) - F[b] + G[b]
        BY <1>2, <1>3, <1>6, SumChange
    <2>2. SumFunctionOnSet(F, S) \in Int
        BY <1>2, <1>3, SumInteger
    <2> QED
        BY <1>1, <1>3, <1>4, <1>5, <1>6, <2>1, <2>2
<1>7. CASE b \notin S
    <2>1. \A c \in S : F[c] = G[c]
        BY <1>3, <1>7
    <2>2. SumFunctionOnSet(F, S) = SumFunctionOnSet(G, S)
        BY <1>2, <2>1, SumSame
    <2> QED
        BY <1>1, <1>5, <1>7, <2>2
<1> QED
    BY <1>6, <1>7

\* A session charged is spent, unless it was given back already.
LEMMA SpentCharged ==
    ASSUME BookingTyped, NEW b \in Booking, NEW q \in Package, booking[b].charged = None,
           UNCHANGED given,
           \A c \in Booking : booking'[c].charged = IF c = b THEN q ELSE booking[c].charged,
           NEW p \in Package
    PROVE  IF p = q THEN Spent(p)' <= Spent(p) + 1 ELSE Spent(p)' = Spent(p)
<1> DEFINE F == Session
           S == ChargedTo(p)
<1>1. b \notin S /\ ChargedTo(p)' = IF p = q THEN S \cup {b} ELSE S
    BY WalletAssumption DEF ChargedTo, Package
<1>2. IsFiniteSet(S)
    BY WalletAssumption, FS_Subset DEF ChargedTo
<1>3. (\A c \in S \cup {b} : F[c] \in Int) /\ F[b] <= 1 /\ Session' = F
    BY DEF BookingTyped, Session, ChargedTo
<1>4. Spent(p) = SumFunctionOnSet(F, S) /\ Spent(p)' = SumFunctionOnSet(F, ChargedTo(p)')
    BY <1>3 DEF Spent
<1> HIDE DEF F, S
<1>5. SumFunctionOnSet(F, S \cup {b}) = F[b] + SumFunctionOnSet(F, S)
    BY <1>1, <1>2, <1>3, SumAdd
<1>6. SumFunctionOnSet(F, S) \in Int
    BY <1>2, <1>3, SumInteger
<1> QED
    BY <1>1, <1>3, <1>4, <1>5, <1>6

\* No request enters or leaves the held ones: the same hours are held.
LEMMA HeldKept ==
    ASSUME \A r \in Request :
               /\ request'[r].lot = request[r].lot /\ request'[r].hours = request[r].hours
               /\ request'[r].status \in {"pending", "succeeded"}
                    <=> request[r].status \in {"pending", "succeeded"},
           NEW p \in Package
    PROVE  HeldHours(p)' = HeldHours(p)
<1>1. Asked' = Asked
    BY DEF Asked
<1>2. HeldOn(p)' = HeldOn(p)
    BY DEF HeldOn
<1> QED
    BY <1>1, <1>2 DEF HeldHours

\* A request reserved holds its hours,
LEMMA HeldReserved ==
    ASSUME RequestTyped, NEW r \in Request, NEW l \in Lot, NEW n \in Nat,
           request[r].status = "none",
           request' = [request EXCEPT ![r] = [status |-> "pending", lot |-> l, hours |-> n]],
           NEW p \in Package
    PROVE  HeldHours(p)' = IF p = l THEN HeldHours(p) + n ELSE HeldHours(p)
<1> DEFINE F == Asked
           G == Asked'
           S == HeldOn(p)
<1>1. r \notin S /\ HeldOn(p)' = IF p = l THEN S \cup {r} ELSE S
    BY DEF HeldOn, RequestTyped
<1>2. IsFiniteSet(S)
    BY WalletAssumption, FS_Subset DEF HeldOn
<1>3. /\ \A q \in S : F[q] \in Int /\ F[q] = G[q]
      /\ \A q \in S \cup {r} : G[q] \in Int
      /\ G[r] = n
    BY DEF HeldOn, RequestTyped, Asked
<1>4. HeldHours(p) = SumFunctionOnSet(F, S) /\ HeldHours(p)' = SumFunctionOnSet(G, HeldOn(p)')
    BY DEF HeldHours
<1> HIDE DEF F, G, S
<1>5. SumFunctionOnSet(G, S \cup {r}) = G[r] + SumFunctionOnSet(G, S)
    BY <1>1, <1>2, <1>3, SumAdd
<1>6. SumFunctionOnSet(F, S) = SumFunctionOnSet(G, S)
    BY <1>2, <1>3, SumSame
<1>7. SumFunctionOnSet(G, S) \in Int
    BY <1>2, <1>3, SumInteger
<1> QED
    BY <1>1, <1>3, <1>4, <1>5, <1>6, <1>7

\* and a request released lets go of them.
LEMMA HeldReleased ==
    ASSUME RequestTyped, NEW r \in Request, request[r].status = "pending",
           request' = [request EXCEPT ![r].status = "released"],
           NEW p \in Package
    PROVE  HeldHours(p)' = IF p = request[r].lot THEN HeldHours(p) - request[r].hours
                           ELSE HeldHours(p)
<1> DEFINE F == Asked
           S == HeldOn(p)
<1>1. (r \in S <=> p = request[r].lot) /\ HeldOn(p)' = S \ {r}
    BY DEF HeldOn, RequestTyped
<1>2. IsFiniteSet(S) /\ IsFiniteSet(S \ {r})
    <2>1. IsFiniteSet(S)
        BY WalletAssumption, FS_Subset DEF HeldOn
    <2> QED
        BY <2>1, FS_Subset
<1>3. (\A q \in S : F[q] \in Int) /\ F[r] = request[r].hours /\ Asked' = F
    BY DEF HeldOn, RequestTyped, Asked
<1>4. HeldHours(p) = SumFunctionOnSet(F, S) /\ HeldHours(p)' = SumFunctionOnSet(F, S \ {r})
    BY <1>1, <1>3 DEF HeldHours
<1> HIDE DEF F, S
<1>5. CASE r \in S
    <2>1. SumFunctionOnSet(F, S) = F[r] + SumFunctionOnSet(F, S \ {r})
        BY <1>2, <1>3, <1>5, SumRemove
    <2>2. SumFunctionOnSet(F, S \ {r}) \in Int /\ F[r] \in Int
        BY <1>2, <1>3, <1>5, SumInteger
    <2> QED
        BY <1>1, <1>3, <1>4, <1>5, <2>1, <2>2
<1>6. CASE r \notin S
    <2>1. S \ {r} = S
        BY <1>6
    <2> QED
        BY <1>1, <1>4, <1>6, <2>1
<1> QED
    BY <1>5, <1>6

\* What a step does to the three amounts it has to make up for on the counter.
LEMMA StaysCovered ==
    ASSUME NEW p \in Package, Covered(p), NEW d \in Int,
           Spent(p) \in Int, HeldHours(p) \in Int, Voided(p) \in Int,
           Spent(p)' \in Int, HeldHours(p)' \in Int, Voided(p)' \in Int,
           package[p].used \in Nat, package'[p].used \in Nat,
           package'[p].used >= package[p].used + d,
           Spent(p)' + HeldHours(p)' + Voided(p)' <= Spent(p) + HeldHours(p) + Voided(p) + d
    PROVE  Covered(p)'
<1> DEFINE A == Spent(p) + HeldHours(p) + Voided(p)
           B == Spent(p)' + HeldHours(p)' + Voided(p)'
<1>1. A \in Int /\ B \in Int /\ package[p].used >= A /\ B <= A + d
    BY DEF Covered
<1>2. Covered(p)' <=> package'[p].used >= B
    BY DEF Covered
<1> HIDE DEF A, B
<1> QED
    BY <1>1, <1>2

\* An attendance that gives a session back takes it off the counter.
LEMMA AttendanceCovered ==
    ASSUME PackageTyped, BookingTyped, RequestTyped, LogTyped,
           PackageTyped', BookingTyped', RequestTyped', LogTyped',
           NEW b \in Booking, NEW outcome, FinalizeAttendance(b, outcome),
           UNCHANGED <<booking, request>>, NEW p \in Package, Covered(p)
    PROVE  Covered(p)'
<1> DEFINE q == booking[b].charged
<1>1. /\ Spent(p) \in Int /\ HeldHours(p) \in Int /\ Voided(p) \in Int
      /\ Spent(p)' \in Int /\ HeldHours(p)' \in Int /\ Voided(p)' \in Int
    BY AmountsTyped, AmountsTypedNext
<1>2. package[p].used \in Nat /\ package'[p].used \in Nat
    BY DEF PackageTyped, PackageRow
<1>3. HeldHours(p)' = HeldHours(p)
    BY HeldKept
<1>4. Voided(p)' = Voided(p)
    BY DEF FinalizeAttendance, Restore, Voided, LogTyped
<1>5. CASE UNCHANGED <<package, given>>
    <2>1. Spent(p)' = Spent(p)
        BY <1>5, SpentKept
    <2> QED
        BY <1>1, <1>2, <1>3, <1>4, <1>5, <2>1 DEF Covered
<1>6. CASE /\ package[q].used > 0
           /\ package' = IF q \in Lot
                         THEN [package EXCEPT ![q].used = @ - 1,
                                  ![q].status = "active", ![q].live = TRUE]
                         ELSE [package EXCEPT ![q].used = @ - 1]
           /\ given' = [given EXCEPT ![b] = @ + 1]
    <2>1. Spent(p)' = IF p = q THEN Spent(p) - 1 ELSE Spent(p)
        BY <1>6, SpentGivenBack
    <2>2. package'[p].used = IF p = q THEN package[p].used - 1 ELSE package[p].used
        BY <1>6 DEF PackageTyped, PackageRow
    <2> HIDE DEF q
    <2>3. Spent(p)' + HeldHours(p)' + Voided(p)'
             = Spent(p) + HeldHours(p) + Voided(p) + (IF p = q THEN -1 ELSE 0)
        BY <1>1, <1>3, <1>4, <2>1
    <2>4. package'[p].used >= package[p].used + (IF p = q THEN -1 ELSE 0)
        BY <1>2, <2>2
    <2> QED
        BY <1>1, <1>2, <2>3, <2>4, StaysCovered
<1> QED
    BY <1>5, <1>6 DEF FinalizeAttendance, Restore, Credited

\* Every step keeps every package covered.
LEMMA CoveredNext ==
    ASSUME WalletInv, WalletInv', LogTyped, LogTyped', [WalletNext]_walletVars,
           NEW p \in Package, Covered(p)
    PROVE  Covered(p)'
<1>1. /\ PackageTyped /\ BookingTyped /\ RequestTyped
      /\ PackageTyped' /\ BookingTyped' /\ RequestTyped'
    <2>1. PackageTyped /\ BookingTyped /\ RequestTyped
        BY TypeParts DEF WalletInv
    <2>2. WalletTypeOK'
        BY DEF WalletInv
    <2> QED
        BY <2>1, <2>2
           DEF WalletTypeOK, PackageTyped, PackageRow, BookingTyped, RequestTyped
<1>2. /\ Spent(p) \in Int /\ HeldHours(p) \in Int /\ Voided(p) \in Int
      /\ Spent(p)' \in Int /\ HeldHours(p)' \in Int /\ Voided(p)' \in Int
    BY <1>1, AmountsTyped, AmountsTypedNext
<1>3. package[p].used \in Nat /\ package'[p].used \in Nat /\ Hours[p] \in Nat
    BY <1>1, WalletAssumption DEF PackageTyped, PackageRow
<1>4. ASSUME UNCHANGED <<given, request, log>>, package'[p].used = package[p].used,
             \A b \in Booking : booking'[b].charged = booking[b].charged
      PROVE  Covered(p)'
    <2>1. Spent(p)' = Spent(p) /\ HeldHours(p)' = HeldHours(p) /\ Voided(p)' = Voided(p)
        BY <1>4, SpentKept, HeldKept DEF Voided
    <2> QED
        BY <1>2, <1>3, <1>4, <2>1 DEF Covered
<1>5. ASSUME UNCHANGED <<given, request, log, package, booking>> PROVE Covered(p)'
    BY <1>4, <1>5
<1>6. CASE BookingStep
    <2>1. ASSUME NEW b \in Booking,
                 \/ \E wallet \in BOOLEAN : Book(b, wallet)
                 \/ CloseBooking(b) \/ CancelPending(b)
          PROVE  Covered(p)'
        <3>1. UNCHANGED <<given, request, log, package>>
            BY <2>1 DEF Book, CloseBooking, CancelPending, refundSide
        <3>2. \A c \in Booking : booking'[c].charged = booking[c].charged
            BY <1>1, <2>1 DEF Book, CloseBooking, CancelPending, BookingTyped
        <3> QED
            BY <1>4, <3>1, <3>2
    <2>2. ASSUME NEW b \in Booking, ConfirmSelect(b) PROVE Covered(p)'
        BY <1>5, <2>2 DEF ConfirmSelect, refundSide
    <2>3. ASSUME NEW b \in Booking, NEW q \in Package, ConfirmAbort(b, q) PROVE Covered(p)'
        BY <1>5, <2>3 DEF ConfirmAbort, refundSide
    <2>4. ASSUME NEW b \in Booking, NEW q \in Package, ConfirmCommit(b, q) PROVE Covered(p)'
        <3>1. booking[b].charged = None
            BY <2>4 DEF ConfirmCommit, WalletInv, LockHolds, NotYetCharged
        <3>2. \A c \in Booking :
                  booking'[c].charged = IF c = b THEN q ELSE booking[c].charged
            BY <1>1, <2>4 DEF ConfirmCommit, BookingTyped
        <3>3. UNCHANGED <<given, request>>
            BY <2>4 DEF ConfirmCommit, refundSide
        <3>4. IF p = q THEN Spent(p)' <= Spent(p) + 1 ELSE Spent(p)' = Spent(p)
            BY <1>1, <3>1, <3>2, <3>3, SpentCharged
        <3>5. HeldHours(p)' = HeldHours(p)
            BY <3>3, HeldKept
        <3>6. Voided(p)' = Voided(p)
            BY <2>4 DEF ConfirmCommit, Voided, LogTyped
        <3>7. package'[p].used = IF p = q THEN package[p].used + 1 ELSE package[p].used
            BY <1>1, <2>4 DEF ConfirmCommit, PackageTyped, PackageRow
        <3>8. Spent(p)' + HeldHours(p)' + Voided(p)'
                 <= Spent(p) + HeldHours(p) + Voided(p) + (IF p = q THEN 1 ELSE 0)
            BY <1>2, <3>4, <3>5, <3>6
        <3>9. package'[p].used >= package[p].used + (IF p = q THEN 1 ELSE 0)
            BY <1>3, <3>7
        <3> QED
            BY <1>2, <1>3, <3>8, <3>9, StaysCovered
    <2>5. ASSUME NEW b \in Booking, CancelConfirmed(b) PROVE Covered(p)'
        <3> DEFINE q == booking[b].charged
        <3>1. \A c \in Booking : booking'[c].charged = booking[c].charged
            BY <1>1, <2>5 DEF CancelConfirmed, BookingTyped
        <3>2. UNCHANGED <<request, log>>
            BY <2>5 DEF CancelConfirmed, refundSide
        <3>3. HeldHours(p)' = HeldHours(p) /\ Voided(p)' = Voided(p)
            BY <3>2, HeldKept DEF Voided
        <3>4. CASE UNCHANGED <<package, given>>
            BY <1>4, <3>1, <3>2, <3>4
        <3>5. CASE /\ package' = [package EXCEPT ![q].used = @ - 1]
                   /\ given' = [given EXCEPT ![b] = @ + 1]
            <4>1. Spent(p)' = IF p = q THEN Spent(p) - 1 ELSE Spent(p)
                BY <1>1, <3>1, <3>5, SpentGivenBack
            <4>2. package'[p].used = IF p = q THEN package[p].used - 1 ELSE package[p].used
                BY <1>1, <3>5 DEF PackageTyped, PackageRow
            <4> HIDE DEF q
            <4>3. Spent(p)' + HeldHours(p)' + Voided(p)'
                     <= Spent(p) + HeldHours(p) + Voided(p) + (IF p = q THEN -1 ELSE 0)
                BY <1>2, <3>3, <4>1
            <4>4. package'[p].used >= package[p].used + (IF p = q THEN -1 ELSE 0)
                BY <1>3, <4>2
            <4> QED
                BY <1>2, <1>3, <4>3, <4>4, StaysCovered
        <3> QED
            BY <2>5, <3>4, <3>5 DEF CancelConfirmed, Credited
    <2>6. ASSUME NEW b \in Booking, NEW outcome \in Restoring, RecordAttendance(b, outcome)
          PROVE  Covered(p)'
        BY <1>1, <2>6, AttendanceCovered DEF RecordAttendance, refundSide
    <2> QED
        BY <1>6, <2>1, <2>2, <2>3, <2>4, <2>5, <2>6 DEF BookingStep
<1>7. CASE ExcuseStep
    <2>1. ASSUME NEW d \in Decider, CarryOver(d) PROVE Covered(p)'
        <3>1. deciding[d].booking \in Booking
            BY <2>1, WalletAssumption DEF CarryOver, WalletInv, DecidesOnOne
        <3> QED
            BY <1>1, <2>1, <3>1, AttendanceCovered DEF CarryOver, refundSide
    <2> QED
        BY <1>5, <1>7, <2>1
           DEF ExcuseStep, SubmitExcuse, ReadExcuse, WriteVerdict, DeciderCrash, refundSide
<1>8. CASE LotStep
    <2>1. UNCHANGED <<given, request, log, booking>>
        BY <1>8 DEF LotStep, Grant, Lapse, SweepExpired, bookingSide, refundSide
    <2>2. package'[p].used = package[p].used
        BY <1>1, <1>8
           DEF LotStep, Grant, Lapse, SweepExpired, PackageTyped, PackageRow
    <2> QED
        BY <1>4, <2>1, <2>2
<1>9. CASE RefundStep
    <2>1. UNCHANGED <<booking, given>>
        BY <1>9
           DEF RefundStep, Reserve, StripeAnswers, StripeThrows, Release, SagaStops,
               DashboardRefund, Deliver, FinalizeRefund, Reconcile, HandlerCrash, bookingSide
    <2>2. Spent(p)' = Spent(p)
        BY <2>1, SpentKept
    <2>3. ASSUME NEW r \in Request, NEW l \in Lot, NEW n \in 1..Hours[l], Reserve(r, l, n)
          PROVE  Covered(p)'
        <3>1. n \in Nat
            BY WalletAssumption DEF Package
        <3>2. HeldHours(p)' = IF p = l THEN HeldHours(p) + n ELSE HeldHours(p)
            BY <1>1, <2>3, <3>1, HeldReserved DEF Reserve
        <3>3. Voided(p)' = Voided(p)
            BY <2>3 DEF Reserve, Voided
        <3>4. package'[p].used = IF p = l THEN package[p].used + n ELSE package[p].used
            BY <1>1, <2>3 DEF Reserve, PackageTyped, PackageRow
        <3>5. Spent(p)' + HeldHours(p)' + Voided(p)'
                 <= Spent(p) + HeldHours(p) + Voided(p) + (IF p = l THEN n ELSE 0)
            BY <1>2, <2>2, <3>1, <3>2, <3>3
        <3>6. package'[p].used >= package[p].used + (IF p = l THEN n ELSE 0)
            BY <1>3, <3>1, <3>4
        <3>7. (IF p = l THEN n ELSE 0) \in Int
            BY <3>1
        <3> QED
            BY <1>2, <1>3, <3>5, <3>6, <3>7, StaysCovered
    <2>4. ASSUME NEW r \in Request, Release(r) PROVE Covered(p)'
        <3> DEFINE l == request[r].lot
                   n == request[r].hours
        <3>1. UNCHANGED log
            BY <2>4 DEF Release
        <3>2. CASE UNCHANGED <<request, package>>
            BY <1>5, <2>1, <3>1, <3>2
        <3>3. CASE /\ request[r].status = "pending"
                   /\ request' = [request EXCEPT ![r].status = "released"]
                   /\ package' = [package EXCEPT ![l].used = IF @ > n THEN @ - n ELSE 0]
            <4>1. HeldHours(p)' = IF p = l THEN HeldHours(p) - n ELSE HeldHours(p)
                BY <1>1, <3>3, HeldReleased
            <4>2. Voided(p)' = Voided(p) /\ n \in Nat
                BY <1>1, <3>1 DEF Voided, RequestTyped
            <4>3. IF p = l THEN package'[p].used >= package[p].used - n
                  ELSE package'[p].used = package[p].used
                BY <1>1, <1>3, <3>3, <4>2 DEF PackageTyped, PackageRow
            <4> HIDE DEF l, n
            <4>4. Spent(p)' + HeldHours(p)' + Voided(p)'
                     <= Spent(p) + HeldHours(p) + Voided(p) + (IF p = l THEN -n ELSE 0)
                BY <1>2, <2>2, <4>1, <4>2
            <4>5. package'[p].used >= package[p].used + (IF p = l THEN -n ELSE 0)
                BY <1>3, <4>2, <4>3
            <4>6. (IF p = l THEN -n ELSE 0) \in Int
                BY <4>2
            <4> QED
                BY <1>2, <1>3, <4>4, <4>5, <4>6, StaysCovered
        <3> QED
            BY <2>4, <3>2, <3>3 DEF Release
    <2>5. ASSUME NEW h \in Handler, FinalizeRefund(h) PROVE Covered(p)'
        <3>1. HeldHours(p)' = HeldHours(p)
            <4>1. \A r \in Request :
                      /\ request'[r].lot = request[r].lot /\ request'[r].hours = request[r].hours
                      /\ request'[r].status \in {"pending", "succeeded"}
                           <=> request[r].status \in {"pending", "succeeded"}
                BY <1>1, <2>5 DEF FinalizeRefund, RequestTyped
            <4> QED
                BY <4>1, HeldKept
        <3>2. Voided(p)' = Voided(p) /\ package'[p].used = package[p].used
            BY <2>5 DEF FinalizeRefund, Voided, LogTyped
        <3> QED
            BY <1>2, <1>3, <2>2, <3>1, <3>2 DEF Covered
    <2>6. ASSUME NEW h \in Handler, Reconcile(h) PROVE Covered(p)'
        <3> DEFINE l == Head(delivery[h]).lot
        <3>1. UNCHANGED request
            BY <2>6 DEF Reconcile
        <3>2. HeldHours(p)' = HeldHours(p)
            BY <3>1, HeldKept
        <3>3. CASE UNCHANGED <<package, log>>
            BY <1>5, <2>1, <3>1, <3>3
        <3>4. CASE /\ package' = [package EXCEPT ![l].used = Hours[l]]
                   /\ log' = [log EXCEPT !.external[l] = @ + Remaining(l)]
            <4>1. package[p].used <= Hours[p]
                BY <1>1 DEF PackageTyped
            <4> DEFINE d == IF p = l THEN Hours[p] - package[p].used ELSE 0
            <4> HIDE DEF l
            <4>2. package'[p].used >= package[p].used + d
                BY <1>1, <1>3, <3>4 DEF PackageTyped, PackageRow
            <4>3. d \in Nat
                BY <1>3, <4>1
            <4>4. Voided(p)' <= Voided(p) + d
                <5>1. CASE p \in Lot /\ p = l
                    BY <3>4, <5>1 DEF Voided, LogTyped, Remaining
                <5>2. CASE ~(p \in Lot /\ p = l)
                    <6>1. Voided(p)' = Voided(p)
                        BY <3>4, <5>2 DEF Voided, LogTyped
                    <6> QED
                        BY <1>2, <4>3, <6>1
                <5> QED
                    BY <5>1, <5>2
            <4> HIDE DEF d
            <4>5. Spent(p)' + HeldHours(p)' + Voided(p)'
                     <= Spent(p) + HeldHours(p) + Voided(p) + d
                BY <1>2, <2>2, <3>2, <4>3, <4>4
            <4> QED
                BY <1>2, <1>3, <4>2, <4>3, <4>5, StaysCovered
        <3> QED
            BY <2>6, <3>3, <3>4 DEF Reconcile
    <2>7. ASSUME UNCHANGED <<package, request, log>> PROVE Covered(p)'
        BY <1>5, <2>1, <2>7
    <2> QED
        BY <1>9, <2>3, <2>4, <2>5, <2>6, <2>7
           DEF RefundStep, StripeAnswers, StripeThrows, SagaStops, DashboardRefund,
               Deliver, HandlerCrash
<1>10. CASE UNCHANGED walletVars
    BY <1>5, <1>10 DEF walletVars
<1> QED
    BY <1>6, <1>7, <1>8, <1>9, <1>10 DEF WalletNext

\* An hour is never in two places: what a package counts as used covers the
\* sessions charged to it and not given back, the hours of every refund asked
\* for or paid, and the hours external refunds voided; for any number of
\* bookings, requests and redelivered webhooks.
THEOREM WalletNoOversell == WalletSpec => []NoOversell
<1> DEFINE Events == LogTyped /\ SessionExplained /\ RefundExplained
           Cover == \A p \in Package : Covered(p)
<1>1. WalletInit => Events
    BY WalletAssumption
       DEF WalletInit, LogTyped, SessionExplained, RefundExplained, NotRequested, Package
<1>2. WalletInit => Cover
    <2> SUFFICES ASSUME WalletInit, NEW p \in Package PROVE Covered(p)
        OBVIOUS
    <2>1. ChargedTo(p) = {} /\ HeldOn(p) = {} /\ Voided(p) = 0 /\ package[p].used = 0
        BY WalletAssumption DEF WalletInit, ChargedTo, HeldOn, Voided, NotRequested, Package
    <2>2. Spent(p) = 0 /\ HeldHours(p) = 0
        BY <2>1, SumEmpty DEF Spent, HeldHours
    <2> QED
        BY <2>1, <2>2 DEF Covered
<1>3. Events /\ WalletInv /\ [WalletNext]_walletVars => Events'
    BY EventsNext
<1>4. /\ Events /\ WalletInv /\ Cover /\ [WalletNext]_walletVars /\ Events' /\ WalletInv'
      => Cover'
    BY CoveredNext
<1>5. Cover => NoOversell
    BY DEF Covered, NoOversell, Spent, HeldHours, Voided, Session, Asked, ChargedTo, HeldOn
<1> HIDE DEF Events, Cover
<1> QED
    BY <1>1, <1>2, <1>3, <1>4, <1>5, WalletInvariant, PTL DEF WalletSpec
=============================================================================
