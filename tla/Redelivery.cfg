\* Messages handled twice, one after the other or at once.
SPECIFICATION Spec

CONSTANTS
    s1 = s1
    c1 = c1
    w1 = w1
    w2 = w2
    NoSub = NoSub
    Subscribers = {s1}
    Consumers = {c1}
    Workers = {w1, w2}
    MaxLoans = 2
    MaxEvents = 2
    MaxDeliveries = 2
    Principals <- MCPrincipals
    ConversionRate <- MCConversionRate
    MinCollection <- MCMinCollection
    Allowances <- MCAllowances
    Faults = {"pubsub", "workerCrash", "lease"}
    WalletReplies = {"ok", "noResponse"}
    UsageReplies = {"balance"}

SYMMETRY ProcessSymmetry

\* The environment stops after MaxEvents events.
CHECK_DEADLOCK FALSE

INVARIANTS
    LoanAccounted
    BookedIsDebited
