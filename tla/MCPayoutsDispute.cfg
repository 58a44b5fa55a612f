SPECIFICATION PayoutSpec
CONSTANTS
    Teacher = {"t1"}
    Charge = {"ch1"}
    NoCharge = "none"
    Refund = {"re1"}
    Dispute = {"dp1"}
    AdminHold = {}
    Lifted = {}
    Version = {"v1"}
    Rail = {"stripe_connect"}
    MaxAttempts = 1
    MaxClaims = 1
    Sweep = {"s1"}
    AnswersGetLost = FALSE
    Hook = {"h1"}
    Entry <- TwoEntries
    TeacherOf <- TwoTeacherOf
    Amount <- TwoAmount
    ChargeOf <- SharedChargeOf
    SourceCharge <- SharedSourceCharge
    Cents <- ThirdsCents
    Total <- ThreeCentCharge
INVARIANTS
    NoOverRecovery
    NoClawbackWithoutCause
PROPERTIES
    DisputeFreezes
