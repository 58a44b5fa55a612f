SPECIFICATION LedgerSpec
CONSTANTS
    Teacher = {"t1"}
    Entry <- OneEntry
    Charge = {"ch1"}
    NoCharge = "none"
    Refund = {"re1"}
    Dispute = {"dp1"}
    AdminHold = {"admin"}
    Lifted = {"admin", "dp1"}
    Version = {"v1", "v2"}
    Rail = {"stripe_connect", "manual"}
    TeacherOf <- OneTeacherOf
    Amount <- OneAmount
    ChargeOf <- OneChargeOf
    SourceCharge <- OneSourceCharge
    MaxAttempts = 2
    MaxClaims = 3
INVARIANTS
    TypeOK
    NeverOverClaw
    TransferRow
    VoidIsClean
    HeldForAReason
    ConsentGate
PROPERTIES
    SettledIsFinal
    HoldsEndByTheirCause
