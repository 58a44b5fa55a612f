SPECIFICATION SweepSpec
CONSTANTS
    Teacher = {"t1"}
    Entry <- OneEntry
    Charge = {"ch1"}
    NoCharge = "none"
    Refund = {"re1"}
    Dispute = {}
    AdminHold = {}
    Lifted = {}
    Version = {"v1"}
    Rail = {"stripe_connect", "manual"}
    TeacherOf <- OneTeacherOf
    Amount <- OneAmount
    ChargeOf <- OneChargeOf
    SourceCharge <- OneSourceCharge
    MaxAttempts = 2
    MaxClaims = 3
    Sweep = {"s1", "s2"}
    AnswersGetLost = TRUE
INVARIANTS
    SettledInFull
    RowIsWhatStripeSent
    LeaseKeepsClaim
