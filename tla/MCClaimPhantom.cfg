SPECIFICATION Spec
CONSTANTS
    Student = {"s1", "s2"}
    Offering = {"o1"}
    Session = {}
    None = "none"
    Capacity <- TwoSeats
    Credits <- OneCredit
INVARIANTS
    NoPhantomDebit
CHECK_DEADLOCK FALSE
