SPECIFICATION WalletSpec
CONSTANTS
    b1 = b1
    b2 = b2
    l1 = l1
    p1 = p1
    None = None
    Lot = {l1}
    Plan = {p1}
    Hours <- TwoHours
    Booking = {b1, b2}
    Excusable = {b1}
    Request = {"r1"}
    Decider = {"d1"}
    Handler = {"h1"}
INVARIANTS
    WalletTypeOK
    NoOversell
    EventsExplained
    ChargedAsAsked
PROPERTIES
    RefundEndsOnce
    ExpiredUnlessRestored
CHECK_DEADLOCK FALSE
