# A TLA+ model of the promo collection services

The repository implements data loans for prepaid subscribers: a subscriber takes
a loan of mobile data (*loan-availment*), and when the subscriber later receives
promo data, part of that data is taken from the wallet to pay the loan back
(*promo-collection* decides, *promo-collection-worker* debits and records). This
directory models both sides: the collection, where money, several database
calls, a queue and an unreliable wallet meet, and the availment, where requests
race for a lock that belongs to nobody; and around them what the services do
beside: the Redis key all three write, the lists a request is checked against,
the split of a fee, the SMS notices, the retries of Kafka and the daily report.

    promo event (Kafka)                     MongoDB
          |                        Loans  UnpaidLoans  ClosedLoans
          v                        Collections  CollectionTransactionsInProgress
    promo-collection  -----------------^          ^        ^
          |  message (Pub/Sub topic)              |        |
          v                                       |        |
    promo-collection-worker ----------------------+        |
          |  debit, balance check (HTTP wallet)            |
          |  outcome (Kafka)      request archive (GCS)    |
          |  SMS (Pub/Sub) --> notification-service        |
          +- Kafka retry service (HTTP) -------------------+
    loan-availment: creates Loans, UnpaidLoans, availments

## 1. Inventory

### Shared store (`src/promo-collection*/internal/pkg/store/impl/`)

- State: `CollectionTransactionsInProgress` (an entry per subscriber under
  collection), `Loans` (active loans, by MSISDN), `UnpaidLoans` (a history of the
  amount owed; the valid document has no `validTo`), `ClosedLoans`,
  `Collections` (an attempt to collect, successful or not, with the flag
  `publishedToKafka`), and the Pub/Sub topic between the two services.
- Operations: single-document reads and writes; one MongoDB transaction for a
  successful collection.
- Hard: the entry acts as a lock but is looked up in one call and inserted in
  another, carries no owner and no expiry, and is deleted by MSISDN; a write
  whose call fails may have been applied.
- Correct if: at most one party works on a subscriber; Loans, UnpaidLoans,
  ClosedLoans and Collections tell the same story about a loan.

### promo-collection

- State: none beyond the event in hand; everything else is in the store and Redis.
- Operations: consume a promo event; check and insert the entry; read rules,
  periods, loan, whitelist; bring an old loan up to date; compute how much to
  deduct (everything, whole pesos above a minimum, or nothing); publish a
  message; delete the entry in a deferred call when the event came to nothing.
- Hard: two instances in the same window; values read early and used or written
  back late; a publish whose error is ambiguous; a stop between insert and delete.
- Correct if: no two messages for a subscriber are live; what a message says is
  still so when it is applied; an event that comes to nothing leaves no entry.

### promo-collection-worker: handling of a message

- State: none beyond the message in hand.
- Operations: debit the wallet; on no answer ask for the balance; on success run
  the transaction, publish the outcome, delete the entry, set the flag; on each
  kind of failure store a failed collection, then publish, flag and release in
  an order of its own; acknowledge the message, or leave it for redelivery.
- Hard: redelivery, also while the first handler still runs
  (`SetMaxExtension(-1)`); a debit that may have happened; a failure at every
  call; five orders of the same four calls; units of the wallet.
- Correct if: no collection without a debit; no second debit without a crash or
  a wrong balance check; no loan lost or duplicated; a flag means published.

### promo-collection-worker: Kafka retry service

- State: one run's cursor, channels, goroutines and response.
- Operations: stream collections without the flag to a pool of goroutines that
  publish in batches, flag in bulk and report ids to a collector; cancellation
  when the HTTP client goes away.
- Hard: bounded channels with three parties that end on different signals;
  partial batches; handlers that publish the same collections at the same time.
- Correct if: a run ends; its response accounts for every document; a document
  is published at most once in a run; a flag means published.

### loan-availment

- State: its own transaction-in-progress documents (expired by a TTL index),
  Loans, UnpaidLoans, availments, Redis.
- Operations: validate a request and answer it; in a goroutine look for the
  lock, create it, check eligibility, create and log in a session of AMAX, top
  up, insert availment, loan and unpaid balance, delete the lock, cache the
  loan's periods, delete the lock again; in a second goroutine publish the
  outcome and flag the availment.
- Hard: the lock is read and created in separate calls, the error of its creation
  is ignored, and it is deleted by MSISDN, twice after a success and once by
  requests that never had one; the inserts are made inside `StartTransaction`
  but without the session's context, so an abort undoes none of them; a top-up
  without an answer may have been made; a goroutine that publishes may panic and
  end the process.
- Correct if: one open loan for a subscriber; one top-up for a loan; documents
  in the order of the inserts; what is published is true; nobody is locked out
  for good.

### loan-availment: Kafka retry of availments

- State: a global producer, which every run replaces and every run closes; the
  flags of the availments.
- Operations: make a producer; read the availments of the last hours without the
  flag; queue a message for each; flush; set flags; close the producer it made.
- Hard: runs share the global variable but not the deferred close; `Produce`
  only queues, and the result of `Flush` is thrown away; the ids to flag are
  GUIDs, parsed as ObjectIDs, so that no flag is ever set.
- Correct if: what a run answers as sent was sent; a run ends.

### loan-availment: lists

- State: input and processed directory of an SFTP server, a local copy,
  `Subscribers` with the flag `blacklisted`, `WhitelistedSubs`.
- Operations: import a list of the blacklisted, or of the subscribers who may
  have a product, call by call; requests that create their subscriber and are
  checked against both lists.
- Hard: an import stops at its first error, halfway, and is tried again,
  perhaps after another file; number and document are looked for and inserted
  in two calls, on both sides; the file is removed before it is kept.
- Correct if: whoever is on every list is refused, or allowed, throughout; a
  file goes only when the database says what it says; no file is lost.

### loan-availment: report of a day

- State: a local file, an object of a bucket.
- Operations: read the availments of the day in chunks, all again after a
  failure; write the file; upload it; remove it.
- Hard: the day is one of Manila, the name one of UTC and taken later; runs
  that overlap use one file; errors of the last write are not looked at.
- Correct if: a report has every availment once; no part of a report is stored
  as one; its name is its day.

### SMS notices and notification-service

- State: the topic between the services. notification-service has none.
- Operations: loan-availment answers a question about a loan with a notice it
  composes from four reads, after it has answered the request; the worker sends
  one after each collection; notification-service calls a SOAP endpoint,
  acknowledges on success and on input it cannot decode, and returns the message otherwise.
- Hard: the loan is collected between the reads; a reply that cannot be read
  means a second SMS; one question may get three notices.
- Correct if: a notice never says less is owed than is; nothing is acknowledged
  the gateway has not answered; what is on the topic goes out in the end.

### Redis skip periods

- State: one key for a subscriber, the periods in the loan document.
- Operations: loan-availment writes the key after a grant, promo-collection when
  it skips a loan, the worker after a partial collection; promo-collection reads
  the key, deletes it when it is over, falls back to the document, and converts
  loans from before there were periods.
- Hard: each writer replaces the whole key with its own part; the grace period is
  in the key only, for all that anybody reads; a key is deleted that was written meanwhile.
- Correct if: no collection starts in a period, whatever became of the key.

### Fee of a collection

- State: `unpaidServiceFee` of the latest unpaid balance document, and the fee in
  message, collection and Kafka record.
- Operations: a collection goes to the fee first, then to the loan.
- Hard: four computations of the same split, one of them from a cumulative
  amount; messages handled twice; a document that was not read.
- Correct if: the four agree, and none claims more of the fee than is left.

## 2. Modules

| Module | Models | Code |
|---|---|---|
| `CollectionStore` | the documents and the topic, entry operations, a grant | repositories of both services, `loan-availment` (the finished grant) |
| `PromoConsumer` | one action per call of `CheckBusinessLevelRulesForPromoCollection` and `CollectionRules` | `src/promo-collection/internal/service/promo_collection/` |
| `CollectionWorker` | one action per call of a message's handler | `src/promo-collection-worker/internal/service/{pubsub,success_handling,error_handling}/` |
| `CollectionPipeline` | the composition, its fairness and its properties | both services |
| `LoanLedger` | abstract specification: what is owed plus what is collected is what was lent | - |
| `CreditLine` | abstract specification: a subscriber draws on his credit once at a time, and what he draws becomes one loan or is lost | - |
| `WalletCheck` | units and retries of the debit of one collection | `pubsub_service.go`, `retrieve_subscriber_usage_error_handler.go` |
| `KafkaRetry` | stream, pool, collector, channels, cancellation | `kafka_retry_service.go` |
| `LoanAvailment` | requests for a loan, their locks, documents and publishers | `src/loan-availment/internal/pkg/`: `services/loan_availment_service.go`, `services/eligibility_check_service.go`, `downstreams/amax_service.go`, `store/availments.go`, `store/transaction_in_progress.go` |
| `AvailmentRetry` | runs of the retry and their producers, on top of `LoanAvailment` | `kafka/producer/*.go`, `store/availments_db_actions.go` of loan-availment |
| `SkipPeriods` | the key, the periods of a loan, three services and the clock | `business_rules.go`, `collection_rules.go`, `partial_data_deduction.go`, `store/availments.go` |
| `SubscriberLists` | imports and the requests beside them | `subs_blacklisting_service.go`, `product_whitelisting_service.go`, `sftp_service.go`, the handler of both, `eligibility_check_service.go` |
| `FeeSplit` | the split of each collection of a loan | `data_deduction_calculation.go`, `serializers.go`, `{partial,full}_data_deduction.go` |
| `Notices` | one notice, any one, from its cause to the gateway | `loan_status_service.go`, `notification_service.go` of loan-availment, notification-service |
| `AvailmentReport` | runs of the report, the file, the object, the clock | `store/availment_reports.go`, `availment_reports_service.go` |
| `MC*` | finite values and symmetry for TLC; `MCSubscriber`, `MCLoanAvailment` and `MCAvailmentLiveness` take the parts that share no state | - |
| `CollectionPipeline_proofs`, `PipelineSafety_proofs`, `SingleFlight_proofs`, `Ledger_proofs` | the pipeline, each on top of the one before: types; what holds under every fault; what the entry locks; the books and the refinement | - |
| `LoanAvailment_proofs` | `LoanAvailment`, `AvailmentRetry`, `Notices` and their composition `MCLoanAvailment` | - |
| `KafkaRetry_proofs` | `KafkaRetry` | - |
| `Subscriber_proofs` | `WalletCheck`, `FeeSplit`, `SkipPeriods` and their composition `MCSubscriber` | - |
| `AvailmentJobs_proofs` | `AvailmentReport` and `SubscriberLists` | - |

### How state and actions correspond to the code

Store. `inProgress[s]` counts the entries of MSISDN `s`; it is a count since
nothing in the code prevents a second insert. `active[s]` is the document of
`Loans` for `s`, `balance[l]` its `totalUnpaidLoan` (0 on an old loan, which is
what makes the consumer look the amount up). `unpaidDocs[l]` is the loan's
history in `UnpaidLoans`, `closedDocs[l]` the number of its documents in
`ClosedLoans`, `collections` and `topic` are sequences. A document that is not
read by the pipeline, or only for logs and text, is left out.

Consumer. `cons[c]` is a program counter with the local variables later steps
use. Two calls that other processes can come between are two actions; a step
that ends in the deferred `DeleteEntry` goes to `cleanup`. The outcomes of the
Redis and whitelist reads and of the loan's periods are a free choice, since
nothing in this model determines them.

Worker. `work[w]` likewise, with `mode` naming the branch of `RequestWallet`
the handler took. `AfterRecord`, `AfterReport`, `AfterRelease` and `AfterFlag`
say in which order a branch makes its calls and where it stops. `debits`,
`reported` and `archived` are the worker's effects on the wallet, the output
topic and the bucket.

Failures are values of `Faults`: `mongo`, `kafka`, `pubsub`, `gcs` (a call
returns an error, and a write may have been applied), `consumerCrash`,
`workerCrash` (a stop between two steps), `lease` (a second handler while the
first runs), `usage` (the balance check is wrong, since it compares totals that
other traffic moves). A promo event that Kafka delivers again after a crash is
one of the `MaxEvents` events. The wallet's answers are `WalletReplies` and
`UsageReplies`; `api` and `ignored` are answers that say the debit was refused,
and are taken at their word.

Retry service. A goroutine's `job` is where it is in `processDocumentsWorker`
and `processAndPublishBatch`; the ticker may fire whenever the batch is not
empty; a `select` with several ready cases may take any. A request that fails
before its cursor is open changes nothing and is not an action. Runs follow one
another. The handler that stored each collection is a small process beside it,
which publishes and flags at most once.

Availment. `req[r]` is where the goroutine of a request is, named for the call
it makes next, and `pub[r]` where its publisher is. A lock is written as the
request that inserted it, which the code does not know: `DeleteLock` takes any
one of the subscriber's, as `DeleteOne` by number does. A request that has run
its course is `done`, `kept` if its lock was left for the TTL index, or `lost`
with its instance. The many rules of validation and eligibility that refuse a
request read nothing the model changes and are one free choice; the look at the
lock and at the open loan are not. `Crash` and `Panic` end any set of running
requests, since instances share nothing but the database. A failed write of
this module writes nothing (a failed Kafka call may still have published).

`CollectionStore` takes a grant as one step that leaves one open loan with its
unpaid document. `OneLoan` and `RecordsInOrder` say when `LoanAvailment` may be
seen so: always for the order of documents; for the single loan as long as lock
checks do not overlap and no insert fails.

Retry of availments. It extends `LoanAvailment` and shares its documents, flags
and topic; the publishers of requests run beside it. A producer is named by the
run that made it. `Select` takes the producer that is the global one then, as
`SendMessageBatch` does; `CloseProducer` closes the one the run made and drops
what it still holds. `SetKafkaFlag` changes nothing, since a GUID never parses as
an ObjectID. `lossy` notes that messages of a run were left in a producer.

Periods. `cache` is what the consumer finds under the key: loan-availment writes
the promo education period under a name it does not look for
(`store/models/redisLoan.go:8`), so `SaveLoan` leaves it zero. `Rules` stands for
everything after the periods: a message is published or not, and the document
written back without its promo education period or not. `worker` is busy only
while the consumer is idle: the in-progress entry, whose exclusion
`SingleFlight` is about. `missed` notes that a grace period was not stored or was lost.

Lists. `imp` is the one import under way; its `file` stands for the local copy.
A document is a pair of its number, in the form it was written, and who created
it, since a race makes two of them and the rules find any one. Rules that read
nothing the model changes pass or refuse. `warned` marks requests that came in
after a blacklist was applied.

Fee. Amounts are whole pesos. `Partial`, `Full`, `Sent` and `NextFeeDoc` are the
four computations; `Failure` and `SentFailure` those of a refused debit.

Notices. They share nothing, so `followed` chooses one, before anything happens:
an answer to a question, or the receipt of the collection that leaves so much of
a loan. `Collected` is the worker's transaction as the readers see it.

Report. Hours of the model are those of the code when `Day` is 24; `Start`,
`Yesterday` and `Name` are its three computations of a day. A file holds the run
whose rows are in it, or `Nobody` when it was written in part. A run that has
opened a file goes on with it when it is removed (`linked`, `copy`), as it does
on a Unix file system.

## 3. Runs

| Run | Instance | What it asks |
|---|---|---|
| `single_flight` | 1 subscriber, 1 consumer, 2 handlers, 2 events, 2 loans; `mongo`, `kafka`, `gcs`, `consumerCrash`; all answers | Does the unowned entry serialise all work on a subscriber, and what rests on that: the history of unpaid documents (`UnpaidHistory`), at most one debit (`DebitedOnce`), truthful flags (`FlagTruth`), types |
| `loan_life` | 1 subscriber, 1 handler, 3 events, 2 loans; `kafka`, `usage` | Do the documents of a loan add up after every step and are the unpaid ones numbered in order (`LedgerBalanced`), is what is acknowledged recorded (`AckedIsRecorded`), and does the pipeline implement `LoanLedger` |
| `redelivery` | 1 consumer, 2 handlers, 2 deliveries of each message; `pubsub`, `workerCrash`, `lease` | What survives when messages are handled twice, at once or with crashes: `LoanAccounted`, `BookedIsDebited` |
| `liveness` | 2 subscribers, 1 consumer, 2 handlers, 2 events, no failure | Every entry is removed (`EntryReleased`), by whichever service has it |
| `two_consumers` | 2 consumers, no failure | Violated: `NoDuplicateProcessing` |
| `subscriber_state` | five parts. *periods*: 3 loans of both kinds, old and new, 9 units of time, `redis`, `mongo`, `crash`. *lists*: 2 lists of each kind, any 3 of which come, a known subscriber and a new one, 2 requests, `mongo`, `sftp`, `crash`. *fee*: totals up to 8 pesos, every fee, `mongo`, `wallet`, `crash`. *wallet*: 1 to 45 MB, deductions of 1, 2 and 20 MB, both units. *report*: 2 runs around the turn of a day of 6 hours, every failure | types (`SubscriberTypeOK`); `SkipsKept` (`PeriodsKept` and `GraceKept`), `NoticeHasLoan`; `ListedIsRefused`, `RemovedWhenApplied`, `NothingLost`, `AllowedStays`; `FeeNotOverstated`, `FirstSplitsExact`, `ReportsAgree`; `DebitsBounded`, `BookedWasDebited`; `BucketExact` (`RowsExact` and `ReportsWhole`) |
| `didnt_happen` | the unit the check uses | Violated: `DidntHappen` |
| `kafka_retry` | 2 collections, 2 goroutines, channels of 1, batches up to 2, 2 runs, every failure | `FlaggedWerePublished`, `PublishedPerRun`, `ResponseComplete` |
| `retry_ends` | 1 run, batches of 1, `mongo`, `kafka`, `cancel` | A request is always answered |
| `availment_faults` | 3 requests of a subscriber, every answer, every event but `crash`; 2 retry runs beside the publishers of up to 2 requests, and a notice, every failure | Types (`AvailmentTypeOK`); are reports true (`ReportsAreTrue`) whatever fails; does a lock outlive the requests that account for it when requests delete each other's (`LockIsJustified`); was what a retry answers sent, when another run closes its producer (`RunAccounts`) |
| `one_loan` | 4 requests; `redis`, `crash`; every answer that can be read, and none | One open loan (`OneLoan`); `CreditLine` is implemented (`ImplementsCredit`), strictly: no second top-up before the loan of the first is collected, also when the first went unnoticed |
| `availment_liveness` | 2 requests, every answer, `ttl`, `mongo`, `lock`, `redis`; a retry run; a notice among 2 loans, with 2 outages; 2 reports, every failure | Requests end (`RequestEnds`), locks go (`LockFreed`), outcomes are published (`OutcomeReported`); retries and reports end and notices reach the gateway (`JobsEnd`: `RetryRunEnds`, `ReportEnds`, `NoticeSettled`); what a notice says is never better than the truth (`AmountsNotBetter`) |

Why the bounds are enough. Subscribers share nothing but the services, so the
safety runs take one. A loan of 3 pesos at 2 MB per peso with a minimum of 2
pesos has every outcome of the calculation: 8 MB collect it in full, 5 MB leave
1 peso, 3 MB are too few for 3 pesos and collect the last one in full. Two
events make every race of one event with the next; three are needed to collect
a loan in two parts and start on a second loan. Two deliveries are a delivery
and its repetition. 43 MB is where a wallet of 1000 KB to the MB starts to look
debited by 1 MB when it was not, so 45 lies on both sides. Three requests are the
one that deletes another's lock, the other and the one that gets in, and a fourth
comes after them; requests of different subscribers share nothing. Channels of
one place are full after one send, and two goroutines compete for them.
Symmetry covers interchangeable subscribers, consumers, handlers, collections,
goroutines and requests; runs with liveness use none.

Nine units of time are enough for a loan's periods of 1 and 2 units, a grace
period of 1, and the same of a second loan. `ThreeFiles` leaves one file outside:
a list, its successor and one of the other kind are all an import can meet
halfway. Eight pesos allow a fee that is more and less than each of three
collections. A day of six hours with two of them ahead of UTC keeps every order
of the turns of both days; `FromTheEvening` begins in the last two hours of a
day of Manila, and the clock passes its turn and that of UTC. Two of the twelve hours
have no availment. `Chunks` of 2 make chunks of 3 hours, which grow to 4 and no
longer divide the day. Two outages are one that follows another.

The parts of a run share no variable, so the behaviours of one part say nothing
about another: they are one run since they ask the same question of each, with
every failure at once.

`CHECK_DEADLOCK FALSE` is set everywhere since the environment may stop: no
more events, loans, deliveries or requests. That no party waits forever is the
subject of `EntryReleased`, `RunEnds`, `RequestEnds`, `LockFreed` and `JobsEnd`.

`RecordsInOrder`, `LendsAlone` and `NamedByDay` are in no run: they are proved (section 5).

Every property of a run is also checked against a changed definition, a bug this code
could plausibly have (the definitions marked *Mutant* in the modules), which
violates it.

### What the runs show

*Single flight is real, but conditional.* With one consumer, an entry that
nobody owns and anybody may delete still serialises the work, because every
path that deletes it does so as the last thing it does for the subscriber, and
the failures of `single_flight` leave the entry in place at worst. It does
not survive a second instance (`two_consumers`), a publish that returns an error
although the message was stored (`pubsub`: the consumer deletes the entry while
the message is live), nor a redelivery (`workerCrash`, `lease`: the handler may
have deleted the entry before the message comes again). These three
faults are therefore absent from `single_flight`, and `redelivery`
checks what remains without it. `loan_life` leaves `mongo` out because a read
error that the consumer ignores restarts the version at 1, and a failed
transaction acknowledges a debited message.

*Liveness holds only without failures.* A failed publish, a failed balance
check, or a stopped consumer leaves an entry that nothing removes, so
`EntryReleased` is not claimed under faults; and a message whose debit is
refused for a reason to be ignored returns to the topic for as long as the
refusal lasts, so the `liveness` run leaves that answer, and none at all, out.

*One loan is conditional as well.* Five events break `OneLoan` and `LendsAlone`,
each by itself: `race` (the lock is read and inserted in two calls), `lock` (an
insert whose error is ignored), `late` (a lock that expires under a slow
request), `keyword` (a malformed request that deletes a lock it never had) and
`repay` (the second deletion takes the lock of the next request, and the loan
that would stop a third one has just been collected). `race` needs no failure:
of two requests that look for the lock together (`loan_availment_service.go:394`,
inserted at `:299`) both are topped up and both get a loan, although the code
has an error for each of the two cases (`error_collection.go:47` and `:31`).
`one_loan` leaves these five out. A second deletion alone does no harm: whoever
it lets in finds the loan.

It also leaves out what makes the service forget a top-up. After one that could
not be booked (`mongo`) or was not understood (`unread`) the lock is deleted and
there is no loan, so the next request is topped up too; a lock that expires
(`ttl`) after a top-up without an answer is all that knew of it. With any of the
three (`Forgets`) `CreditLine` is forgetful: a draw that was lost no longer stands
in the way of the next. What remains without them is the rule the code does have:
only a top-up without an answer keeps its lock. `OneLoan` and `LendsAlone` hold with
these three as well, which the theorems show, and so does `ImplementsCredit`.

*What a request is to a line of credit* (`CreditOf` in `LoanAvailment`): nothing before
AMAX has made the top-up; drawn from then until the loan is inserted; lost if the
request ends, or dies, without having inserted it; lent, and repaid once the loan is
collected. An announcement is a success on the Kafka topic. So the lender's
bookkeeping, which may be lost, is set against what the borrower got, which may not.

`LockIsJustified` counts: a subscriber's locks are never more than the requests
that hold one or left one to the index, however locks change hands.
`availment_liveness` has no crash of its own but keeps the panic of a publisher.
Without `ttl` a kept lock would stay for good.

*A period survives the key, the grace period does not.* The three writers erase
each other's parts, and a grant may lose its key to a deletion that was on its
way. It does not matter for the first two periods, which the consumer reads from the
document as well, even though the write-back of an old loan erases one of them:
by then it is over. The grace period is in the document too, but
`IsSkipPeriodActive` is given a field nobody sets (`missed`).

*Imports are safe to fail.* They add before they take away and remove the file
last, so a failure, or a stop at any call, leaves the stricter list in force
and the file where it is. Two things are not covered: a file that is replaced
while it is imported is removed unread (`replace`, left out of the run), and a
newcomer whose request inserts its document beside the import's may be granted
a loan though listed, for which reason `ListedIsRefused` speaks of `Known`.

*The fee errs to one side.* The next document has the whole fee collected so far
taken off it, not the last part of it, so it is right after the first partial
collection and too low after the second; it may go below zero. Nobody is ever
charged more than the fee.

*Notices are late, never flattering.* Only a loan that grows could make one so,
and `about` changes at most once, before the amounts are read. They may say that
less than nothing was collected: the document of a partial collection has no total.

*A report has its rows; its name is another matter.* `NamedByDay` lists when
the name is wrong: a day that was asked for, a run between midnight and eight in
Manila, a file created after the turn of the UTC day. It then takes
the place of another day's report.

*Findings.*

1. `didnt_happen`: the debit asks for MB times 1000 KB
   (`pubsub_service.go:302`), the check divides by 1024
   (`retrieve_subscriber_usage_error_handler.go:137`). In a wallet of 1024 KB to
   the MB, which the check's own tests use, a debit that happened never shows, is
   reported as "deduction didn't happen" and made again. Conversely, in a
   wallet of 1000 KB to the MB the difference passes for the deduction once the
   wallet is large enough (24 KB for each of its MB).
2. `two_consumers`: the entry is there "to prevent duplicate processing"
   (`business_rules.go:230`), but two instances pass the check together.

A third disagreement has no run of its own: when the balance check failed and
the upload that records it fails too (`gcs`), the error is logged and the message
acknowledged (`retrieve_subscriber_usage_error_handler.go:113`), under the comment
"Always ACK the message since we've recorded the error". `AckedIsRecorded` is
violated by that fault and is checked without it.

## 4. Fairness

- A consumer finishes the event it took: each call returns, with an answer or
  an error, and the code has no wait between calls. Weak fairness per instance.
- Pub/Sub delivers what is not acknowledged, and a handler finishes the message
  it was given: weak fairness per message and per handler.
- The Go scheduler runs every goroutine that can run, so the stream, each
  goroutine of the pool, the collector and the request are weakly fair. No
  fairness is assumed between the ready cases of a `select`, and none for the
  ticker.
- The goroutine of a request and its publisher are scheduled, and each call they
  make ends in an answer, an error or a timeout: weak fairness for each. MongoDB
  goes on removing expired locks: weak fairness of `Expire`, which needs the
  request to be over unless `late` is on.
- A retry run, a report and the relay of notices are goroutines that can run, and
  their calls return: weak fairness of each (`RetryFairness`, `ReportFairness`,
  `NoticeFairness`). Delivery by the Kafka client has none: a run ends without it.
  Outages of the gateway are bounded, since an SMS that is refused for ever
  returns to the topic for ever.
- Nobody has to ask for a loan or pay one back, nor to grant a loan, send an event, ask for a retry or cancel one.

## 5. Proofs

Every invariant and every action property a passing run checks, and the refinement
of the ledger, is proved for every value of the constants. What stays with TLC
alone is everything under fairness.

The theorems hold for every number of subscribers, consumers, handlers, loans,
events, collections and goroutines, every amount and rate, and any set of
faults unless the table says otherwise. They rest on the assumptions on the
constants: `StoreAssumption`, `ConsumerAssumption` (a positive conversion rate,
whole amounts), `WorkerAssumption`, `WalletAssumption` (a unit from 1000 to
1024 KB, positive deductions), `RetryAssumption` (finite sets, at least one
goroutine, which `kafka_retry_service.go:208` insists on, channels with room for
one), `AvailmentAssumption` (finitely many requests, each with a subscriber),
`AvailmentRetryAssumption`, `NoticeAssumption`, `SkipAssumption` (periods of any
length), `FeeAssumption`, `ListAssumption` (every file has a kind, and one name is
of one kind) and `ReportAssumption` (from one chunk to one for each hour).

Some theorems name faults they exclude, since the code does not stand them:

- `UndisturbedHandlers` (no `workerCrash`, no `lease`): a message that is given to a
  second handler is debited by both.
- `SingleConsumer`: check and insert of the entry are two calls (`two_consumers`
  shows what two consumers do).
- `ReliablePublisher` (no `pubsub`): a publish that fails after the message was sent
  deletes the entry of a message that is on its way.
- `EntryKeepers`, only for `EntriesAreOwned` (no `consumerCrash`, `mongo` or `kafka`,
  and no `error` from the balance check): in each of these cases the code gives the
  entry up, which is the hazard at `partial_data_deduction.go:295` and at
  `retrieve_subscriber_usage_error_handler.go:112`. TLC finds an entry nobody owns
  with any one of them; the bucket, the wallet and wrong balances do no harm.
- no `mongo`, only for `BooksBalance` and `AcksAreRecorded`: a consumer whose read of
  the unpaid document fails goes on with version 0, so that the next document is
  numbered 1 again, and a collection that cannot be stored is acknowledged all the
  same. No `gcs`, only for `AcksAreRecorded`. No `usage`, for the
  two theorems about debits: a balance check that is wrong repeats the debit or
  books one that never was.

| Theorem | States | Argument |
|---|---|---|
| `TypeCorrect` | `TypeOK` | `TypeOK` is inductive as it stands because it carries the facts about program counters the next steps need: who is busy has a subscriber, a loan or a message that exists; a message collects no more than it says is owed, without which `Remaining` would leave `Nat` |
| `FlagsAreTrue` | `FlagTruth` | `FlagInv`: besides, a handler about to set the flag has its collection in `reported`. `FlagTruth` alone does not survive the flag step |
| `CollectionsAreDebited` | `BookedIsDebited`, without the `usage` fault | `BookedInv`: besides, a handler on the success path has a debit for its message |
| `LoansAreAccounted` | `LoanAccounted` | `LoanInv`: besides, loans in hand, in messages and in documents were granted, so no transaction can close a loan before it exists |
| `MessagesAreDebitedOnce` | `DebitedOnce`, if `UndisturbedHandlers`, without `usage` | `HandlerInv`: a message is with at most one handler, never once it is acknowledged, and each step goes with its modes only (`PlaceOK`). On it `DebitInv`: a message nobody has begun, and one whose handler has yet to debit or has been refused, has no debit |
| `EntryIsALock` | `SingleFlight`, if `SingleConsumer`, `ReliablePublisher`, `UndisturbedHandlers` | `FlightInv`: besides, a consumer about to insert has found no entry, which one consumer keeps true until it inserts. Each of the many actions of the consumer is one of six moves, each of the handler's one of three, and the count of parties is followed through those |
| `HistoryIsKept` | `UnpaidHistory`, as above | `StableInv`: the loan a consumer has read and the loan of a message that may still be collected are the subscriber's active loan. So a second document of a loan is only ever written over the valid one |
| `AcksAreRecorded` | `AckedIsRecorded`, as above, without `mongo` and `gcs` | `RecordedInv`: besides, a handler past the record step of each mode has left one |
| `BooksBalance` | `LedgerBalanced`, as above, without `mongo` | `BooksInv`: what a consumer has read, and what a message that is due says, is what the newest document says (`ReadInv`, `DueInv`), and the first document is what is owed plus what is collected (`LoanBooks`). The numbers of the documents need MongoDB, the amounts do not, and the invariant keeps them apart so that the refinement can use the rest |
| `PipelineImplementsLedger` | `ImplementsLedger`, as above, `mongo` included | step by step: a grant is a loan, a transaction that commits is a collection or the last one, and every other step stutters, since it leaves `Owed` and the sum of the collections alone |
| `EntriesAreOwned` | every entry has a consumer that holds it or a message that may still be collected (`EntryOwned`), if `SingleConsumer`, `ReliablePublisher`, `UndisturbedHandlers`, `EntryKeepers` | inductive on `CoreInv`: a handler comes to where it only finishes by releasing the entry (`EntryIsReleased`), which for a partial collection needs that the message's loan is still there (`StableInv`), or it would give up at `fetch`; a consumer's six moves each keep, hand on or delete it |
| `DebitedAtMostTwice` | `DebitsBounded` | `WalletInv`: the volume is the wallet less the debits; after two debits of 1000 KB a check in 1024 KB always sees one, after one at a unit of 1000 it sees it at once |
| `ModestWalletsAreDebited` | `BookedWasDebited` | the same invariant: without a debit a modest wallet cannot look debited |
| `WalletTypeCorrect` | `WalletTypeOK` | the same invariant: a second debit is not sent unless the wallet holds it |
| `SkipTypeCorrect`, `SkipsAreKept`, `NoticesHaveLoans` | `SkipTypeOK`, `SkipsKept`, `NoticeHasLoan` | one invariant over document, key and the consumer's copy: a document's periods are those of its loan's day, unless erased after they were over; a key never names a promo education period but of the loan that is there; whoever is past the key has found no grace period or one that is over. `PeriodsKept` alone says nothing about the copy the consumer decides from |
| `ListTypeCorrect`, `ListedAreRefused`, `RemovedAreApplied`, `AllowedStay` | `ListTypeOK`, `ListedIsRefused`, `RemovedWhenApplied`, `AllowedStays` | `ListInv`: a known subscriber has one document (`DocumentInv`), the keys an import is done with are written (`WrittenInv`), and who is on all lists stays flagged from the first on (`RefusedInv`) |
| `NoFileIsLost` | `NothingLost`, without `replace` | `LostInv`: besides, there is one file of a name, and what is past the last call was applied |
| `ReportTypeCorrect`, `RowsAreExact`, `ReportsAreWhole`, `BucketIsExact` | `ReportTypeOK`, `RowsExact`, `ReportsWhole`, `BucketExact` | `ReportInv`: the rows are those of the hours before the next chunk; a file in the hands of one run holds its rows or nobody's before they are written; who has a file in hand alone has it linked |
| `NamesAreDays` | `NamedByDay`, if `Every = Day` | the same invariant, and arithmetic of days: a turn of the UTC day lies between the two computations or none does. With a shorter `Every` the name is that of the hour so long ago, and nothing is claimed |
| `FeeTypeCorrect`, `FeesNotOverstated`, `FirstSplitsAreExact`, `ReportsAlwaysAgree` | `FeeTypeOK`, `FeeNotOverstated`, `FirstSplitsExact`, `ReportsAgree` | what a message in hand says against what is owed now: it is the next collection, or the last one handled again, which must yield the same documents |
| `RetriedFlagsAreTrue` | `FlaggedWerePublished` | `RetryInv`: besides, the ids a goroutine holds as published, and those of a handler about to flag, were published, which cancellation and failing calls keep |
| `RetryTypeCorrect` | `RetryTypeOK` | `RunInv`: besides, goroutines and channels hold documents of this run only, in batches of at most `MaxBatch` |
| `RunsPublishOnce` | `PublishedPerRun` | `OnePlace`: a document is in the cursor, in a channel or with one goroutine; `OnceInv`: a document still to be published by the run, or by its handler, leaves room for that under the bound |
| `ResponsesAreComplete` | `ResponseComplete` | `EndInv`: a goroutine exits only when the channel is closed and empty or the run is cancelled, the collector after all of them and with nothing left in any channel. `AccountInv`: every document opened is unsent, reported as published, reported as failed or skipped, and only one of these; `ErrorInv`: what is reported as published is flagged, or about to be, or there was an error |
| `RunsNeverStick` | until a request is answered, stream, pool, collector or a goroutine can go on without a failure (`NeverStuck`) | `BatchInv` (a goroutine that publishes has something to publish, one past it a result) on `RunInv` and `EndInv`. The stream waits for room in `docChan`, so goroutines have something to take; a goroutine for room in a result channel, so the collector has something to collect; the main goroutine for the pool, then for the collector. Each condition is read off the guards of its actions; on the instances of `retry_ends` and `kafka_retry` TLC found it to agree with ENABLED of them |
| `RunsGetShorter` | every step but the start of a run leaves less to do (`RunsShrink`), by a measure that is well founded (`Finite`) | lexicographic: what the run and the handlers have before them (`tasks`, seven finite sets that only lose members), then how far each goroutine is from its next document (`steps`), then what the collector has before it (`backlog`). That a document taken leaves its queue is `OnePlace` |
| `AvailTypeCorrect` | `AvailTypeOK` | inductive as it stands, with the fact that a publisher starts only after the outcome |
| `RecordsFollow`, `ReportsHold` | `RecordsInOrder`, `ReportsAreTrue` | `RecordInv`: besides, what a request has stored at each place (`StoredSoFar`) and what a publisher may say of it (`Told`). Neither property survives a step alone: `RecordsInOrder` needs that whoever inserts a loan has its availment, `ReportsAreTrue` that a publisher of a success was started after the last insert |
| `OutcomesAreSent` | an outcome is sent once, under its GUID or a blank one (`SentOnce`), and until then a publisher or the request has it in hand (`OutcomeOwned`), unless `crash`, `mongo` or `kafka` may lose it | `OutcomeInv`: besides, a request that has only its lock to delete has started a publisher (`Started`), and nothing is stored where the outcome is open |
| `LocksAreJustified` | `LockIsJustified` | by counting: a step that ends one request deletes one lock of the subscriber or finds none, and a set of locks and a set of requests that lose at most and at least one keep their order. Where a request ends without deleting one it stays counted (`Kept`). Inductive with the types alone, under every fault |
| `OneLoanEach`, `LendsAloneEach` | `OneLoan`, `LendsAlone`, if `LocksWork` (none of the five events above) | `LoanInv`: as long as a subscriber has no loan, his one lock belongs to the request that passed the check; once he has one, locks may be deleted by anyone, and the loan keeps requests away. `OneLoan` alone does not survive the insert, and an invariant on locks alone does not survive the second deletion |
| `ToppedUpOnceEach` | `ProvisionedOnce`, if besides `NothingUnseen` (no `mongo`, no `ttl`, no unreadable answer) | `OnceInv` on top of `LoanInv`: whoever is topped up has an uncollected loan, is on the way to one, or has kept the lock (`Guarded`), and no step takes the last of these away from a top-up without giving it another (`GuardsStay`). The strict case of the next theorem says as much of the states; this one has the invariant it rests on |
| `RequestsImplementCredit` | `ImplementsCredit`, if `LocksWork` | step by step on `LoanInv`, `RecordInv` and, if nothing is forgotten, `OnceInv`: a top-up is a draw (`DrawMaps`), the insert of the loan lends (`BookingMaps`), a repayment repays, a publisher of a success announces, a crash or panic loses any number of draws at once (`LossMaps`), and all other steps stutter. That nothing of the borrower's is outstanding when he draws follows from these; that a request has not drawn before it comes to its top-up, nor lent before its insert, does not, and `CreditInv` adds it (`DrawsOnce`) |
| `RunsAccount`, `PartRunsAccount` | `RunAccounts`; the first beside all of `AvailNext` and from any documents, of which the run's instance is a part | `AccountInv`: what a run counts as sent is on the topic or in a queue of the producer it uses, or the run is marked as lossy, which closing that producer sees to |
| `AmountsHold` | `AmountsNotBetter` | `AmountInv`: the balance a notice has read is not less than the balance now, for the loan it is about, and the loan document, read before, shows no less than the balance read after. `AmountsNotBetter` says nothing of a notice that is not out yet |
| `SubscriberTypeCorrect`, `AvailmentTypeCorrect` | `SubscriberTypeOK`, `AvailmentTypeOK` | the types of the parts, each kept by the steps of all others |

The sums behind `BooksBalance` and the ledger (`PesosCollected`, a recursive function
over the list of collections) need induction. The library's theorems for it take an
operator, which no backend can instantiate; `SetInduction` of `Ledger_proofs` is the
same principle for a set of naturals, derived from the well-foundedness of `<`, and
is enough for what is needed: appending a collection adds its pesos, and nothing
else changes the sum.

Only model-checked, since liveness and ENABLED are beyond this prover:
`EntryReleased`, `RunEnds`, `RequestEnds`, `LockFreed`, `OutcomeReported` and
`JobsEnd`. What three of them need of the states is proved for every value of the
constants: `EntriesAreOwned` for `EntryReleased`, `RunsNeverStick` and
`RunsGetShorter` for `RunEnds`, `OutcomesAreSent` for `OutcomeReported`. The step
from there to "it happens", by fairness, stays with TLC. The two violated
properties are refuted by their runs.

## 6. What is not modelled

- The record's text, the texts of notices, the columns of the report; logs,
  traces, configuration, start-up, health and HTTP routing.
- Messages and events that cannot be decoded: they touch no state.
- A Kafka client that was not configured, and `default` branches no value reaches.
- Amounts with fractions, and a conversion rate of 0 (`data_deduction_calculation.go:167`),
  whose message cannot be encoded.
- What no property can hold the code to: a success handler that fails after the
  debit acknowledges the message and writes nothing (`pubsub_service.go:204`); a
  transaction id that cannot be parsed tops up under the id 0 (`amax_service.go:401`);
  a missing column of a list counts as the first (`subs_blacklisting_service.go:214`);
  a report shows a number's present loan for an availment whose loan is paid
  (`availment_reports.go:72`); the first file of the directory is taken whatever it
  is, and keeps later ones waiting if it cannot be read (`sftp_service.go:65`).
- The reason for a refusal of the wallet, which is outside the repository; AMAX itself.
- The rules about channel, customer type, brand, product and credit score: they
  read configuration nothing here changes, and are one free choice.
- Imports that run at once, the file of rejected rows, and what makes a row a
  number, beyond its three outcomes.
- The arrow loan cache: four counts written to an SFTP file nobody reads back.
- Notices of an availment and of the education period, which differ from the
  modelled ones in their text; `SaveSkipTimestamps` of the worker, which nothing calls.
- The composition of `SkipPeriods` with the pipeline: it takes exclusion from the
  in-progress entry as given, and the pipeline the periods as a free choice.

## 7. Plan

Done, in this order: the store, the consumer, the worker and their composition
with the ledger; their type and safety proofs; the wallet's units; the Kafka
retry service; the availment of a loan with its proofs; the periods, the lists,
the fee and the report with their proofs; the retry of availments and the notices.

The proofs of everything else a run checks but liveness followed: `SingleFlight` and
what rests on it up to the refinement of `LoanLedger`; the responses of the Kafka
retry; locks, retry and notices of loan-availment.

Last came the refinement of `CreditLine` by the requests of loan-availment, and
what the liveness properties need of the states: that whoever waits in a Kafka
retry waits for somebody who can go on, that runs get shorter, that entries and
outcomes have an owner.

Left to prove: the same for `RequestEnds`, `LockFreed` and `JobsEnd`, whose parties
hardly wait for each other; and the theorems about the lock under faults split
finer than `Faults` does (an error of the publisher only for messages that were
not sent, leases that end but outlast a handler).
