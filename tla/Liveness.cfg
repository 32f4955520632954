\* No failures, and a wallet that answers: everything started is finished.
SPECIFICATION FairSpec

CONSTANTS
    s1 = s1
    s2 = s2
    c1 = c1
    w1 = w1
    w2 = w2
    NoSub = NoSub
    Subscribers = {s1, s2}
    Consumers = {c1}
    Workers = {w1, w2}
    MaxLoans = 2
    MaxEvents = 2
    MaxDeliveries = 2
    Principals <- MCPrincipals
    ConversionRate <- MCConversionRate
    MinCollection <- MCMinCollection
    Allowances <- MCAllowances
    Faults = {}
    WalletReplies = {"ok", "unknown", "api"}
    UsageReplies = {"balance", "noBucket", "error"}

\* The environment stops after MaxEvents events.
CHECK_DEADLOCK FALSE

PROPERTIES
    EntryReleased
