SPECIFICATION SweepSpec
CONSTANTS
    Teacher = {"t1"}
    Entry <- TwoEntries
    Charge = {"ch1"}
    NoCharge = "none"
    Refund = {"re1"}
    Dispute = {}
    AdminHold = {}
    Lifted = {}
    Version = {"v1"}
    Rail = {"stripe_connect", "manual"}
    TeacherOf <- TwoTeacherOf
    Amount <- TwoAmount
    ChargeOf <- TwoChargeOf
    SourceCharge <- TwoSourceCharge
    MaxAttempts = 1
    MaxClaims = 2
    Sweep = {"s1"}
    AnswersGetLost = TRUE
INVARIANTS
    QueueCoversDebt
PROPERTIES
    SharesKeptBySettling
    OverRecoveryIsStale
