-------------------------- MODULE CollectionWorker --------------------------
(***************************************************************************)
(* promo-collection-worker: Pub/Sub delivers each message to a handler,    *)
(* which debits the subscriber's data wallet over HTTP and records the     *)
(* result.  One action per call that other handlers, the consumers and     *)
(* crashes can interleave with.                                            *)
(***************************************************************************)
EXTENDS CollectionStore

CONSTANTS
    Workers,         \* handlers that may run at once
    MaxDeliveries,   \* bound: deliveries of one message
    WalletReplies,   \* what the wallet may answer in this instance
    UsageReplies     \* what the balance check may answer in this instance

(***************************************************************************)
(* ok: debited.  noResponse: no HTTP response, debited or not.  unknown: a *)
(* body that cannot be decoded, debited or not.  api: refused.  ignored:   *)
(* refused with 9000 or OUTBOUND_CONN_ERROR, to be tried again.            *)
(* balance: the bucket's remaining volume is compared.  noBucket: the      *)
(* answer has no such bucket.  error: the check itself failed.             *)
(***************************************************************************)
ASSUME WorkerAssumption ==
    /\ MaxDeliveries \in Nat
    /\ WalletReplies \subseteq {"ok", "noResponse", "unknown", "api", "ignored"}
    /\ UsageReplies \subseteq {"balance", "noBucket", "error"}

VARIABLES
    acked,        \* messages acknowledged
    deliveries,   \* how often each message was delivered
    debits,       \* how often the wallet was debited for each message
    reported,     \* collections whose outcome is on the output topic; 0 for
                  \* an outcome whose collection was not stored
    archived,     \* messages whose request is in the GCS bucket
    work          \* what each handler is doing

workerVars == <<acked, deliveries, debits, reported, archived, work>>

WorkerPcs == {"idle", "decrement", "usage", "fetch", "commit", "record",
              "release", "report", "flag", "ack", "leave"}
Modes == {"none", "success", "unknown", "api", "ignored", "bucket"}

NoMsg        == 0
NoCollection == 0
IdleWorker   == [pc |-> "idle", msg |-> NoMsg, mode |-> "none",
                 loan |-> NoLoan, coll |-> NoCollection]

WorkerState == [pc : WorkerPcs, msg : MsgIds \cup {NoMsg}, mode : Modes,
                loan : LoanIds \cup {NoLoan}, coll : Nat]

\* Steps after which a handler holds a message.
Busy(w) == work[w].pc # "idle"

WorkerTypeOK ==
    /\ acked \subseteq 1..Len(topic)
    /\ deliveries \in [MsgIds -> 0..MaxDeliveries]
    /\ debits \in [MsgIds -> Nat]
    /\ reported \subseteq 0..Len(collections)
    /\ archived \subseteq 1..Len(topic)
    /\ work \in [Workers -> WorkerState]
    /\ \A w \in Workers :
          /\ Busy(w) => work[w].msg \in 1..Len(topic)
          /\ work[w].coll \in 0..Len(collections)
          /\ work[w].pc = "commit" => work[w].loan \in LoanIds

WorkerInit ==
    /\ acked = {}
    /\ deliveries = [m \in MsgIds |-> 0]
    /\ debits = [m \in MsgIds |-> 0]
    /\ reported = {}
    /\ archived = {}
    /\ work = [w \in Workers |-> IdleWorker]

-----------------------------------------------------------------------------
Doing(w, pc) == work[w].pc = pc
Continue(w, pc) == work' = [work EXCEPT ![w].pc = pc]
Msg(w)       == topic[work[w].msg]

\* Where the success path starts: partial collections read the loan first, a
\* full one takes the loan from the message.
SuccessState(w) ==
    [work[w] EXCEPT !.mode = "success",
                    !.pc   = IF Msg(w).kind = "Partial" THEN "fetch" ELSE "commit",
                    !.loan = IF Msg(w).kind = "Partial" THEN NoLoan ELSE Msg(w).loan]
Succeed(w)   == work' = [work EXCEPT ![w] = SuccessState(w)]

\* Mutant: the failed collection is not stored.
FailUnrecorded(w, mode) == work' = [work EXCEPT ![w] = [@ EXCEPT !.pc = "report", !.mode = mode]]

\* Where the error handlers start.
Fail(w, mode) == work' = [work EXCEPT ![w] = [@ EXCEPT !.pc = "record", !.mode = mode]]

-----------------------------------------------------------------------------
\* Receive hands an unacknowledged message to a free handler.
Deliver(w, m) ==
    /\ Doing(w, "idle")
    /\ m \in 1..Len(topic) /\ m \notin acked
    /\ deliveries[m] < MaxDeliveries
    /\ MayFail("lease") \/ \A v \in Workers : work[v].msg # m
    /\ deliveries' = [deliveries EXCEPT ![m] = @ + 1]
    /\ work' = [work EXCEPT ![w] = [IdleWorker EXCEPT !.pc = "decrement", !.msg = m]]
    /\ UNCHANGED <<storeVars, acked, debits, reported, archived>>

\* RequestWallet: the debit and the branch its answer selects.
Decrement(w) ==
    /\ Doing(w, "decrement")
    /\ LET m      == work[w].msg
           Debit  == debits' = [debits EXCEPT ![m] = @ + 1]
           Unsure == Debit \/ UNCHANGED debits
       IN \E r \in WalletReplies :
             \/ r = "ok" /\ Debit /\ Succeed(w)
             \/ r = "noResponse" /\ Unsure /\ Continue(w, "usage")
             \/ r = "unknown" /\ Unsure /\ Fail(w, "unknown")
             \/ r \in {"api", "ignored"} /\ UNCHANGED debits /\ Fail(w, r)
    /\ UNCHANGED <<storeVars, acked, deliveries, reported, archived>>

\* Mutant: a debit that got no answer counts as made.
DebitAssumed(m) == TRUE

\* CheckAndProcessBalance: whether the balance looks as if the debit was made,
\* and whether it looks as if it was not.
DebitSeen(m)   == debits[m] > 0 \/ MayFail("usage")
DebitUnseen(m) == debits[m] = 0 \/ MayFail("usage")

\* handleNoResponseCase: ask for the balance to learn whether the debit took
\* place.  A failed check is archived and acknowledged, archived or not.
CheckUsage(w) ==
    /\ Doing(w, "usage")
    /\ LET m      == work[w].msg
           Upload == archived' = archived \cup {m}
       IN \/ /\ "error" \in UsageReplies /\ Continue(w, "ack")
             /\ Upload \/ (MayFail("gcs") /\ UNCHANGED archived)
          \/ /\ "noBucket" \in UsageReplies /\ Fail(w, "bucket")
             /\ UNCHANGED archived
          \/ /\ "balance" \in UsageReplies
             /\ \/ DebitSeen(m) /\ Succeed(w)
                \/ DebitUnseen(m) /\ Continue(w, "leave")
             /\ UNCHANGED archived
    /\ UNCHANGED <<storeVars, acked, deliveries, debits, reported>>

\* fetchLoanAndCompute: the subscriber's loan of now, by MSISDN.  Without one
\* the handler gives up, which acknowledges the message.
FetchLoan(w) ==
    /\ Doing(w, "fetch")
    /\ LET l == active[Msg(w).sub] IN
       \/ /\ l # NoLoan
          /\ work' = [work EXCEPT ![w] = [@ EXCEPT !.pc = "commit", !.loan = l]]
       \/ (l = NoLoan \/ MayFail("mongo")) /\ Continue(w, "ack")
    /\ UNCHANGED <<storeVars, acked, deliveries, debits, reported, archived>>

-----------------------------------------------------------------------------
\* The collection both transactions insert.
Collected(w) == [msg |-> work[w].msg, loan |-> Msg(w).loan, pesos |-> Msg(w).pesos,
                 ok |-> TRUE, flagged |-> FALSE]

\* What the message's loan owes after this collection, by the message.
Remaining(w) == Msg(w).unpaid - Msg(w).pesos

\* performPartialDataTransaction, as one transaction: the loan that was read
\* gets the message's amounts, its newest unpaid document is closed, and the
\* message's loan gets the next one.
PartialTransaction(w) ==
    LET m == Msg(w)
        l == work[w].loan
        closed == [unpaidDocs EXCEPT ![l] = CloseLatest(@)]
    IN /\ balance' = IF \E s \in Subscribers : active[s] = l
                     THEN [balance EXCEPT ![l] = Remaining(w)] ELSE balance
       /\ unpaidDocs' = [closed EXCEPT ![m.loan] =
             Append(@, [amount |-> Remaining(w), open |-> TRUE,
                        version |-> m.version + 1])]
       /\ collections' = Append(collections, Collected(w))
       /\ UNCHANGED <<active, closedDocs>>

\* Mutant: the loan is not deleted from Loans.
FullTransactionKeepingLoan(w) ==
    LET l == Msg(w).loan IN
    /\ closedDocs' = [closedDocs EXCEPT ![l] = @ + 1]
    /\ collections' = Append(collections, Collected(w))
    /\ unpaidDocs' = [unpaidDocs EXCEPT ![l] =
          Append(CloseLatest(@), [amount |-> 0, open |-> FALSE,
                                  version |-> Msg(w).version + 1])]
    /\ UNCHANGED <<active, balance>>

\* performFullDataTransaction: the message's loan moves to ClosedLoans, with a
\* last unpaid document of 0 that is never valid.
FullTransaction(w) ==
    LET l == Msg(w).loan IN
    /\ closedDocs' = [closedDocs EXCEPT ![l] = @ + 1]
    /\ collections' = Append(collections, Collected(w))
    /\ unpaidDocs' = [unpaidDocs EXCEPT ![l] =
          Append(CloseLatest(@), [amount |-> 0, open |-> FALSE,
                                  version |-> Msg(w).version + 1])]
    /\ active' = [s \in Subscribers |-> IF active[s] = l THEN NoLoan ELSE active[s]]
    /\ balance' = [balance EXCEPT ![l] = 0]

Transaction(w) ==
    IF Msg(w).kind = "Partial" THEN PartialTransaction(w) ELSE FullTransaction(w)

\* A transaction that fails returns an error to RequestWallet, which then
\* acknowledges the message; the commit may have happened all the same.
Commit(w) ==
    /\ Doing(w, "commit")
    /\ \/ /\ Transaction(w)
          /\ work' = [work EXCEPT ![w] =
                         [@ EXCEPT !.pc = "report", !.coll = Len(collections) + 1]]
       \/ /\ MayFail("mongo")
          /\ \/ Transaction(w)
             \/ UNCHANGED <<active, balance, unpaidDocs, closedDocs, collections>>
          /\ Continue(w, "ack")
    /\ UNCHANGED <<inProgress, loanCount, topic, acked, deliveries, debits, reported,
                   archived>>

-----------------------------------------------------------------------------
\* Mutants: the entry goes before the message is done with, or never.
AfterRecordReleasing(mode) == "release"
AfterRecordKeeping(mode)   == "report"

\* The order of the calls in each mode.
AfterRecord(mode) == IF mode \in {"unknown", "bucket"} THEN "release" ELSE "report"

\* Mutants: the flag does not wait for the publish; an answer nobody could
\* read is tried again.
AfterReportUnchecked(mode, published) ==
    CASE mode = "success" -> "release"
      [] mode = "unknown" -> "ack"
      [] OTHER            -> "flag"
AfterReportRetrying(mode, published) ==
    CASE mode = "success" -> IF published THEN "release" ELSE "ack"
      [] mode = "unknown" -> "leave"
      [] OTHER            -> IF published THEN "flag" ELSE "leave"

AfterReport(mode, published) ==
    CASE mode = "success" -> IF published THEN "release" ELSE "ack"
      [] mode = "unknown" -> "ack"
      [] mode = "bucket"  -> IF published THEN "flag" ELSE "ack"
      [] mode = "api"     -> IF published THEN "flag" ELSE "release"
      [] OTHER            -> IF published THEN "flag" ELSE "leave"

AfterRelease(mode, deleted) ==
    CASE mode = "success" -> IF deleted THEN "flag" ELSE "ack"
      [] mode = "api"     -> "ack"
      [] OTHER            -> "report"

AfterFlag(mode) ==
    CASE mode = "api"     -> "release"
      [] mode = "ignored" -> "leave"
      [] OTHER            -> "ack"

\* The failed collection; the handler goes on when the insert fails.
RecordFailure(w) ==
    /\ Doing(w, "record")
    /\ LET entry  == [msg |-> work[w].msg, loan |-> Msg(w).loan, pesos |-> 0,
                      ok |-> FALSE, flagged |-> FALSE]
           Insert == /\ collections' = Append(collections, entry)
                     /\ work' = [work EXCEPT ![w] =
                           [@ EXCEPT !.pc = AfterRecord(work[w].mode),
                                     !.coll = Len(collections) + 1]]
       IN \/ Insert
          \/ /\ MayFail("mongo")
             /\ UNCHANGED collections
             /\ Continue(w, AfterRecord(work[w].mode))
    /\ UNCHANGED <<inProgress, active, balance, unpaidDocs, closedDocs, loanCount,
                   topic, acked, deliveries, debits, reported, archived>>

\* PublishSuccess or PublishFailure.  Without a delivery report in ten seconds
\* the publish counts as failed, though the broker may have the record.
ReportOutcome(w) ==
    /\ Doing(w, "report")
    /\ LET Publish == reported' = reported \cup {work[w].coll} IN
       \/ Publish /\ Continue(w, AfterReport(work[w].mode, TRUE))
       \/ /\ MayFail("kafka")
          /\ Publish \/ UNCHANGED reported
          /\ Continue(w, AfterReport(work[w].mode, FALSE))
    /\ UNCHANGED <<storeVars, acked, deliveries, debits, archived>>

\* DeleteEntry, by the message's MSISDN.
ReleaseEntry(w) ==
    /\ Doing(w, "release")
    /\ \/ /\ RemoveEntry(Msg(w).sub)
          /\ Continue(w, AfterRelease(work[w].mode, TRUE))
       \/ /\ MayFail("mongo") /\ MaybeRemoveEntry(Msg(w).sub)
          /\ Continue(w, AfterRelease(work[w].mode, FALSE))
    /\ UNCHANGED <<active, balance, unpaidDocs, closedDocs, loanCount, collections,
                   topic, acked, deliveries, debits, reported, archived>>

\* UpdatePublishToKafka: no document with the id is no error, and neither
\* outcome changes what the handler does next.
FlagReported(w) ==
    /\ Doing(w, "flag")
    /\ LET i    == work[w].coll
           Flag == collections' = IF i = NoCollection THEN collections
                                  ELSE [collections EXCEPT ![i].flagged = TRUE]
       IN Flag \/ (MayFail("mongo") /\ UNCHANGED collections)
    /\ Continue(w, AfterFlag(work[w].mode))
    /\ UNCHANGED <<inProgress, active, balance, unpaidDocs, closedDocs, loanCount,
                   topic, acked, deliveries, debits, reported, archived>>

\* handleActionResult: Ack, or neither ack nor keep: a nack and an ignored
\* message are both delivered again.
Acknowledge(w) ==
    /\ Doing(w, "ack")
    /\ acked' = acked \cup {work[w].msg}
    /\ work' = [work EXCEPT ![w] = IdleWorker]
    /\ UNCHANGED <<storeVars, deliveries, debits, reported, archived>>

Leave(w) ==
    /\ Doing(w, "leave")
    /\ work' = [work EXCEPT ![w] = IdleWorker]
    /\ UNCHANGED <<storeVars, acked, deliveries, debits, reported, archived>>

\* The handler stops between two calls; its message is delivered again.
WorkerCrash(w) ==
    /\ MayFail("workerCrash")
    /\ Busy(w)
    /\ work' = [work EXCEPT ![w] = IdleWorker]
    /\ UNCHANGED <<storeVars, acked, deliveries, debits, reported, archived>>

\* The steps of a handler that holds a message.
Handle(w) ==
    \/ Decrement(w) \/ CheckUsage(w) \/ FetchLoan(w) \/ Commit(w)
    \/ RecordFailure(w) \/ ReportOutcome(w) \/ ReleaseEntry(w) \/ FlagReported(w)
    \/ Acknowledge(w) \/ Leave(w)

WorkerNext == \E w \in Workers :
    (\E m \in MsgIds : Deliver(w, m)) \/ Handle(w) \/ WorkerCrash(w)
=============================================================================
