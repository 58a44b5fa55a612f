SPECIFICATION PayoutSpec
CONSTANTS
    Teacher = {"t1"}
    Charge = {"ch1"}
    NoCharge = "none"
    Refund = {}
    Dispute = {}
    AdminHold = {}
    Lifted = {}
    Version = {"v1"}
    Rail = {"stripe_connect", "manual"}
    MaxAttempts = 2
    MaxClaims = 2
    Sweep = {"s1"}
    AnswersGetLost = FALSE
    Hook = {"h1"}
    Entry <- OneEntry
    TeacherOf <- OneTeacherOf
    Amount <- OneAmount
    ChargeOf <- OneChargeOf
    SourceCharge <- OneSourceCharge
    Cents <- HalfCents
    Total <- TwoCentCharge
INVARIANTS
    SettledOnOneRail
