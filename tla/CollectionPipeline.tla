------------------------- MODULE CollectionPipeline -------------------------
(***************************************************************************)
(* The collection pipeline: loans are granted, consumers turn promo events *)
(* into messages, workers turn messages into debits and collections, all   *)
(* over one database and one topic.                                        *)
(***************************************************************************)
EXTENDS PromoConsumer, CollectionWorker

vars == <<storeVars, consumerVars, workerVars>>

Init == StoreInit /\ ConsumerInit /\ WorkerInit

Grant    == (\E s \in Subscribers : AvailLoan(s)) /\ UNCHANGED <<consumerVars, workerVars>>
Consumer == ConsumerNext /\ UNCHANGED workerVars
Worker   == WorkerNext /\ UNCHANGED consumerVars

Next == Grant \/ Consumer \/ Worker

Spec == Init /\ [][Next]_vars

\* A running consumer finishes the event it took; Pub/Sub delivers what is
\* not acknowledged, and a running handler finishes the message it was given.
\* Nobody has to grant a loan or send an event.
Fairness ==
    /\ \A c \in Consumers : WF_vars(Proceed(c) /\ UNCHANGED workerVars)
    /\ \A w \in Workers : WF_vars(Handle(w) /\ UNCHANGED consumerVars)
    /\ \A m \in MsgIds :
          WF_vars((\E w \in Workers : Deliver(w, m)) /\ UNCHANGED consumerVars)

FairSpec == Spec /\ Fairness

TypeOK == StoreTypeOK /\ ConsumerTypeOK /\ WorkerTypeOK

-----------------------------------------------------------------------------
(* What every fault leaves standing. *)

\* publishedToKafka is what the retry service goes by: a collection that
\* carries it has its outcome on the output topic.  The handlers publish
\* first and flag second, by the id chosen before the insert.
FlagTruth == \A i \in DOMAIN collections : collections[i].flagged => i \in reported

\* A loan is in exactly one of Loans and ClosedLoans from the moment it is
\* granted: no crash, redelivery or failed transaction loses it or shows it
\* in both, though a message may be applied more than once.
Granted == 1..loanCount
LoanAccounted ==
    \A l \in Granted :
       /\ closedDocs[l] = 0 <=> \E s \in Subscribers : active[s] = l
       /\ \A s, t \in Subscribers : active[s] = l /\ active[t] = l => s = t

\* Pesos are collected only for data that was taken: a successful collection
\* of a message comes after a debit for that message, also when the debit got
\* no answer and was inferred from the balance.
BookedIsDebited ==
    \A i \in DOMAIN collections : collections[i].ok => debits[collections[i].msg] > 0

-----------------------------------------------------------------------------
(* What CollectionTransactionsInProgress is for. *)

\* A consumer that inserted an entry and has neither handed it on nor
\* finished.
Holds(c, s) == /\ cons[c].sub = s
               /\ cons[c].pc \in {"rules", "old", "loan", "unpaid", "backfill", "skip",
                                  "publish", "cleanup"}

\* A handler that will touch neither the loan nor the entry again.
Finishing(w) ==
    \/ work[w].pc = "ack"
    \/ work[w].pc = "flag" /\ work[w].mode \in {"success", "bucket"}
    \/ work[w].pc = "report" /\ work[w].mode \in {"unknown", "bucket"}

\* A message that may still be collected.
Live(m, s) == /\ m \in DOMAIN topic
              /\ topic[m].sub = s
              /\ m \notin acked
              /\ ~\E w \in Workers : work[w].msg = m /\ Finishing(w)

\* The entry is a lock although nothing ties it to its maker: at any moment at
\* most one consumer or message is working on a subscriber, and while one is
\* there is exactly one entry.  (A consumer that is only cleaning up may have
\* deleted it already, in a call that returned an error.)
SingleFlight ==
    \A s \in Subscribers :
       /\ inProgress[s] <= 1
       /\ \A c \in Consumers : Holds(c, s) =>
             /\ cons[c].pc # "cleanup" => inProgress[s] = 1
             /\ \A d \in Consumers : Holds(d, s) => d = c
             /\ \A m \in MsgIds : ~Live(m, s)
       /\ \A m \in MsgIds : Live(m, s) =>
             /\ inProgress[s] = 1
             /\ \A n \in MsgIds : Live(n, s) => n = m

\* business_rules.go says the entry is checked "to prevent duplicate
\* processing": never two consumers past the check with an entry each, for
\* one subscriber.
NoDuplicateProcessing ==
    \A s \in Subscribers : \A c, d \in Consumers :
       Holds(c, s) /\ Holds(d, s) => c = d

-----------------------------------------------------------------------------
(* What single flight buys. *)

\* The pesos of every collection of a loan.
PesosCollected(l) ==
    LET total[n \in 0..Len(collections)] ==
            IF n = 0 THEN 0
            ELSE total[n - 1] + IF collections[n].loan = l THEN collections[n].pesos ELSE 0
    IN total[Len(collections)]

\* The unpaid amount as the newest UnpaidLoans document has it.
Owed(l) == IF unpaidDocs[l] = <<>> THEN 0 ELSE unpaidDocs[l][Len(unpaidDocs[l])].amount

\* The three collections that hold a loan's money agree: what was lent is
\* what is owed plus what the Collections documents add up to, although the
\* amounts come from a message written long before, and Loans agrees with
\* UnpaidLoans.  The documents are numbered as they were written.
LedgerBalanced ==
    \A l \in Granted :
       /\ unpaidDocs[l][1].amount = Owed(l) + PesosCollected(l)
       /\ balance[l] \in {0, Owed(l)}
       /\ closedDocs[l] <= 1
       /\ closedDocs[l] = 1 <=> Owed(l) = 0
       /\ \A i \in DOMAIN unpaidDocs[l] : unpaidDocs[l][i].version = i

\* The unpaid documents of a loan are a history: at most the newest is valid,
\* and it is valid for as long as the loan is active.  Were none valid, an old
\* loan could never be collected again.
UnpaidHistory ==
    \A l \in Granted : \A i \in DOMAIN unpaidDocs[l] :
       unpaidDocs[l][i].open <=> i = Len(unpaidDocs[l]) /\ closedDocs[l] = 0

\* A message is debited at most once: it is decremented again only when the
\* wallet refused it or its balance says the debit did not happen.
DebitedOnce == \A m \in MsgIds : debits[m] <= 1

\* retrieve_subscriber_usage_error_handler.go acknowledges "since we've
\* recorded the error": whatever is acknowledged left a collection or a file.
AckedIsRecorded ==
    \A m \in acked : m \in archived \/ \E i \in DOMAIN collections : collections[i].msg = m

\* The pipeline implements the ledger.
Ledger == INSTANCE LoanLedger WITH
    Loans     <- LoanIds,
    Amounts   <- Principals,
    status    <- [l \in LoanIds |-> IF l > loanCount THEN "none"
                                    ELSE IF closedDocs[l] > 0 THEN "closed" ELSE "open"],
    owed      <- [l \in LoanIds |-> Owed(l)],
    collected <- [l \in LoanIds |-> PesosCollected(l)]

ImplementsLedger == Ledger!LedgerSpec

-----------------------------------------------------------------------------
(* What must happen in the end. *)

\* An entry does not stay: nothing but the two services ever removes one, and
\* while it is there no event of the subscriber is collected.
EntryReleased == \A s \in Subscribers : inProgress[s] > 0 ~> inProgress[s] = 0
=============================================================================
