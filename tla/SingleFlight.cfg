\* One consumer and every failure that leaves an entry in place.
SPECIFICATION Spec

CONSTANTS
    s1 = s1
    c1 = c1
    w1 = w1
    w2 = w2
    NoSub = NoSub
    Subscribers = {s1}
    Consumers = {c1}
    Workers = {w1, w2}
    MaxLoans = 2
    MaxEvents = 2
    MaxDeliveries = 2
    Principals <- MCPrincipals
    ConversionRate <- MCConversionRate
    MinCollection <- MCMinCollection
    Allowances <- MCAllowances
    Faults = {"mongo", "kafka", "gcs", "consumerCrash"}
    WalletReplies = {"ok", "noResponse", "unknown", "api", "ignored"}
    UsageReplies = {"balance", "noBucket", "error"}

SYMMETRY ProcessSymmetry

\* The environment stops after MaxEvents events.
CHECK_DEADLOCK FALSE

INVARIANTS
    TypeOK
    SingleFlight
    UnpaidHistory
    FlagTruth
    DebitedOnce
