SPECIFICATION WalletSpec
CONSTANTS
    b1 = b1
    b2 = b2
    l1 = l1
    p1 = p1
    None = None
    Lot = {l1}
    Plan = {p1}
    Hours <- TwoHours
    Booking = {b1, b2}
    Excusable = {}
    Request = {}
    Decider = {"d1"}
    Handler = {}
INVARIANTS
    RestoredOnce
CHECK_DEADLOCK FALSE
