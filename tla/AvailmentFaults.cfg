\* Three requests of one subscriber, and everything that can go wrong; an instance
\* dies only of the panic of a publisher.  Two retry runs; a notice.
SPECIFICATION PartSpec

CONSTANTS
    r1 = r1
    r2 = r2
    r3 = r3
    r4 = r4
    s1 = s1
    s2 = s2
    k1 = k1
    k2 = k2
    q1 = q1
    Parts = {"requests", "retry", "notices"}
    Subscribers = {s1, s2}
    Requests = {r1, r2, r3}
    SubscriberOf <- OneSubscriber
    TopupReplies = {"ok", "refused", "unread", "timeout"}
    Events = {"ttl", "late", "mongo", "lock", "redis", "kafka", "race", "keyword", "repay"}
    RetryRuns = {k1, k2}
    RetryTroubles = {"mongo", "queue", "broker"}
    Questions = {q1}
    NoticeLoans = 2
    LoanTotal = 3
    MaxOutages = 2
    NoticeTroubles = {"mongo", "pubsub", "profile", "gateway", "crash"}

SYMMETRY AvailSymmetry

\* Nobody has to ask for a loan.
CHECK_DEADLOCK FALSE

INVARIANTS
    AvailmentTypeOK
    ReportsAreTrue
    LockIsJustified
    
