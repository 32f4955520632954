\* Two instances of the consumer and no failure at all.
SPECIFICATION Spec

CONSTANTS
    s1 = s1
    c1 = c1
    c2 = c2
    w1 = w1
    NoSub = NoSub
    Subscribers = {s1}
    Consumers = {c1, c2}
    Workers = {w1}
    MaxLoans = 1
    MaxEvents = 2
    MaxDeliveries = 1
    Principals <- MCPrincipals
    ConversionRate <- MCConversionRate
    MinCollection <- MCMinCollection
    Allowances <- MCAllowances
    Faults = {}
    WalletReplies = {"ok"}
    UsageReplies = {"balance"}

SYMMETRY ProcessSymmetry

\* The environment stops after MaxEvents events.
CHECK_DEADLOCK FALSE

INVARIANTS
    NoDuplicateProcessing
