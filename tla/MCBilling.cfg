SPECIFICATION FairSpec
CONSTANTS
    Worker = {w1, w2}
    MaxFaults = 1
    None = None
    c1 = c1
    c2 = c2
    c3 = c3
    p1 = p1
    p2 = p2
    p3 = p3
    d1 = d1
    d2 = d2
    u1 = u1
    u2 = u2
    k1 = k1
    k2 = k2
    k3 = k3
    r1 = r1
    r2 = r2
    Cycle = {c1, c2, c3}
    Unusable = {c3}
    Plan = {p1, p2, p3}
    Sessions <- MCSessions
    FirstPlan = p1
    Upgrade = {u1, u2}
    Change = {d1, d2}
    Target <- MCTarget
    Charge = {k1, k2, k3}
    Assessment = {k1, k2}
    RefundRequest = {r1, r2}
    Agendas <- MCAgendas
    MaxEvents = 4
INVARIANTS
    BillingTypeOK
    OneBookingPerCharge
PROPERTIES
    KeepsEntitlement
    RefundSticks
    MirrorMovesOn
    UpgradeDelivered
    
    RefundReachesBooking
CHECK_DEADLOCK FALSE
