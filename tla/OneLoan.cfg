\* Four requests of one subscriber, whose locks work; MongoDB does not fail.
SPECIFICATION PartSpec

CONSTANTS
    r1 = r1
    r2 = r2
    r3 = r3
    r4 = r4
    s1 = s1
    s2 = s2
    k1 = k1
    k2 = k2
    q1 = q1
    Parts = {"requests"}
    Subscribers = {s1, s2}
    Requests = {r1, r2, r3, r4}
    SubscriberOf <- OneSubscriber
    TopupReplies = {"ok", "refused", "timeout"}
    Events = {"redis", "crash"}
    RetryRuns = {}
    RetryTroubles = {"mongo", "queue", "broker"}
    Questions = {q1}
    NoticeLoans = 2
    LoanTotal = 3
    MaxOutages = 2
    NoticeTroubles = {"mongo", "pubsub", "profile", "gateway", "crash"}

SYMMETRY AvailSymmetry

\* Nobody has to ask for a loan.
CHECK_DEADLOCK FALSE

INVARIANTS
    OneLoan

PROPERTIES
    ImplementsCredit
