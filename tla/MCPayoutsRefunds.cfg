SPECIFICATION PayoutSpec
CONSTANTS
    Teacher = {"t1"}
    Charge = {"ch1"}
    NoCharge = "none"
    Refund = {"re1", "re2"}
    Dispute = {}
    AdminHold = {}
    Lifted = {}
    Version = {"v1"}
    Rail = {"stripe_connect"}
    MaxAttempts = 1
    MaxClaims = 1
    Sweep = {"s1"}
    AnswersGetLost = TRUE
    Hook = {"h1", "h2"}
    Entry <- OneEntry
    TeacherOf <- OneTeacherOf
    Amount <- OneAmount
    ChargeOf <- OneChargeOf
    SourceCharge <- OneSourceCharge
    Cents <- HalfCents
    Total <- TwoCentCharge
INVARIANTS
    HookTypeOK
    ReserveFirst
    OneShareEach
PROPERTIES
    LedgerSpec
