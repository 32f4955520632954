\* The periods of three loans; three files with lists beside two requests; the
\* collections of a loan; both units, and wallets on either side of the limit; two reports
\* around the turn of a day of six hours.
SPECIFICATION PartSpec

CONSTANTS
    n1 = n1
    n2 = n2
    b1 = b1
    b2 = b2
    w1 = w1
    w2 = w2
    a1 = a1
    a2 = a2
    p1 = p1
    p2 = p2
    Parts = {"periods", "lists", "fee", "wallet", "report"}
    PromoPeriod = 1
    LoadPeriod = 2
    GracePeriod = 1
    LoanTypes = {"load", "data"}
    MaxLoans = 3
    MaxTime = 9
    Troubles = {"redis", "mongo", "crash"}
    Numbers = {n1, n2}
    Known = {n1}
    Files = {b1, b2, w1, w2}
    KindOf <- FileKind
    NameOf <- FileName
    Rows <- FileRows
    Applicants = {a1, a2}
    NumberOf <- Number
    Nil = Nil
    ListTroubles = {"mongo", "sftp", "crash"}
    MaxTotal = 8
    FeeTroubles = {"mongo", "wallet", "crash"}
    Reports = {p1, p2}
    Nobody = Nobody
    Day = 6
    Offset = 2
    Every = 6
    Chunks = 2
    MaxRetries = 1
    Empty = {5, 9}
    Asked = {2}
    MaxNow = 18
    ReportTroubles = {"mongo", "gcs", "disk", "context", "crash"}
    Units <- MCUnits
    Amounts <- MCAmounts
    Deductions <- MCDeductions

CONSTRAINT ThreeFiles

\* Nobody has to ask for a loan, put a file in or pay.
CHECK_DEADLOCK FALSE

INVARIANTS
    SubscriberTypeOK
    
    NoticeHasLoan
    ListedIsRefused
    RemovedWhenApplied
    NothingLost
    FeeNotOverstated
    FirstSplitsExact
    ReportsAgree
    DebitsBounded
    BookedWasDebited
    BucketExact

PROPERTIES
    AllowedStays
