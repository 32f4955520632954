\* Three events: enough to collect a loan in two parts and start on the next.
SPECIFICATION Spec

CONSTANTS
    s1 = s1
    c1 = c1
    w1 = w1
    NoSub = NoSub
    Subscribers = {s1}
    Consumers = {c1}
    Workers = {w1}
    MaxLoans = 2
    MaxEvents = 3
    MaxDeliveries = 2
    Principals <- MCPrincipals
    ConversionRate <- MCConversionRate
    MinCollection <- MCMinCollection
    Allowances <- MCAllowances
    Faults = {"kafka", "usage"}
    WalletReplies = {"ok", "noResponse", "api"}
    UsageReplies = {"balance", "noBucket", "error"}

SYMMETRY ProcessSymmetry

\* The environment stops after MaxEvents events.
CHECK_DEADLOCK FALSE

INVARIANTS
    LedgerBalanced
    AckedIsRecorded
PROPERTIES
    ImplementsLedger
