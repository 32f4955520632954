\* Two requests of one subscriber, Kafka up and no crash but a panic's; a retry run;
\* a notice, with up to two outages; two reports.
SPECIFICATION LiveSpec

CONSTANTS
    r1 = r1
    r2 = r2
    r3 = r3
    r4 = r4
    s1 = s1
    s2 = s2
    k1 = k1
    k2 = k2
    q1 = q1
    p1 = p1
    p2 = p2
    Parts = {"requests", "retry", "notices", "report"}
    Subscribers = {s1, s2}
    Requests = {r1, r2}
    SubscriberOf <- OneSubscriber
    TopupReplies = {"ok", "refused", "unread", "timeout"}
    Events = {"ttl", "mongo", "lock", "redis"}
    RetryRuns = {k1}
    RetryTroubles = {"mongo", "queue", "broker"}
    Questions = {q1}
    NoticeLoans = 2
    LoanTotal = 3
    MaxOutages = 2
    NoticeTroubles = {"mongo", "pubsub", "profile", "gateway", "crash"}
    Reports = {p1, p2}
    Nobody = Nobody
    Day = 6
    Offset = 2
    Every = 6
    Chunks = 2
    MaxRetries = 1
    Empty = {5, 9}
    Asked = {}
    MaxNow = 12
    ReportTroubles = {"mongo", "gcs", "disk", "context", "crash"}

\* Nobody has to ask for a loan.
CHECK_DEADLOCK FALSE

INVARIANTS
    AmountsNotBetter

PROPERTIES
    RequestEnds
    LockFreed
    OutcomeReported
    JobsEnd
