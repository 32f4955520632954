-------------------------- MODULE CollectionStore --------------------------
(***************************************************************************)
(* The state promo-collection and promo-collection-worker share, and the   *)
(* repository operations both use.  Documents live in MongoDB; the two     *)
(* services are joined by one Pub/Sub topic.  An amount is a whole number  *)
(* of pesos.                                                               *)
(***************************************************************************)
EXTENDS Naturals, Sequences

CONSTANTS
    Subscribers,   \* MSISDNs
    NoSub,         \* "no subscriber": what an idle consumer holds
    MaxLoans,      \* bound: loans ever granted
    MaxEvents,     \* bound: promo events ever received, so messages published
    Principals,    \* the amounts a loan may be granted for
    Faults         \* the failures this instance may suffer

(***************************************************************************)
(* mongo, kafka, pubsub, gcs: a call to that service returns an error; a   *)
(* write whose call fails may have been applied all the same.              *)
(* consumerCrash, workerCrash: the process (or one handler, by a panic)    *)
(* stops between two steps.                                                *)
(* lease: a handler outlives the acknowledgement deadline, which           *)
(* SetMaxExtension(-1) never extends, so Pub/Sub delivers the message to   *)
(* a second handler while the first still runs.                            *)
(* usage: the balance check of a debit that got no answer is wrong, since  *)
(* it compares totals and other traffic moves the wallet too.              *)
(***************************************************************************)
FaultKinds == {"mongo", "kafka", "pubsub", "gcs",
               "consumerCrash", "workerCrash", "lease", "usage"}

LoanIds == 1..MaxLoans
NoLoan  == 0
MsgIds  == 1..MaxEvents

ASSUME StoreAssumption ==
    /\ NoSub \notin Subscribers
    /\ MaxLoans \in Nat /\ MaxEvents \in Nat
    /\ Principals \subseteq Nat \ {0}
    /\ Faults \subseteq FaultKinds

VARIABLES
    inProgress,   \* CollectionTransactionsInProgress: documents per MSISDN
    active,       \* Loans: the subscriber's active loan, or NoLoan
    balance,      \* Loans.totalUnpaidLoan: 0 on an old loan and on a deleted one
    unpaidDocs,   \* UnpaidLoans per loan, by _id; open means validTo is null
    closedDocs,   \* ClosedLoans: documents per loan
    loanCount,    \* loans granted so far
    collections,  \* Collections, in insertion order
    topic         \* messages published for the worker, in order

storeVars == <<inProgress, active, balance, unpaidDocs, closedDocs,
               loanCount, collections, topic>>

UnpaidDoc  == [amount : Nat, open : BOOLEAN, version : Nat]
Collection == [msg : MsgIds, loan : LoanIds, pesos : Nat, ok : BOOLEAN,
               flagged : BOOLEAN]
Message    == [sub : Subscribers, loan : LoanIds, kind : {"Partial", "Full"},
               pesos : Nat, unpaid : Nat, version : Nat]

StoreTypeOK ==
    /\ inProgress \in [Subscribers -> Nat]
    /\ active \in [Subscribers -> LoanIds \cup {NoLoan}]
    /\ balance \in [LoanIds -> Nat]
    /\ unpaidDocs \in [LoanIds -> Seq(UnpaidDoc)]
    /\ closedDocs \in [LoanIds -> Nat]
    /\ loanCount \in 0..MaxLoans
    /\ collections \in Seq(Collection)
    /\ topic \in Seq(Message) /\ Len(topic) <= MaxEvents
    /\ \A m \in 1..Len(topic) : topic[m].pesos <= topic[m].unpaid

StoreInit ==
    /\ inProgress = [s \in Subscribers |-> 0]
    /\ active = [s \in Subscribers |-> NoLoan]
    /\ balance = [l \in LoanIds |-> 0]
    /\ unpaidDocs = [l \in LoanIds |-> <<>>]
    /\ closedDocs = [l \in LoanIds |-> 0]
    /\ loanCount = 0
    /\ collections = <<>>
    /\ topic = <<>>

-----------------------------------------------------------------------------
\* A call to service k may fail in this instance.
MayFail(k) == k \in Faults

\* CheckEntryExists: any document of the MSISDN will do.
EntryExists(s) == inProgress[s] > 0

\* InsertOne without a unique index: a second insert adds a second document.
AddEntry(s) == inProgress' = [inProgress EXCEPT ![s] = @ + 1]

\* Mutant: one more removal than there are documents.
RemoveEntryUnchecked(s) == inProgress' = [inProgress EXCEPT ![s] = @ - 1]

\* DeleteOne by MSISDN alone: whichever document matches first, whoever made
\* it; no document is no error.
RemoveEntry(s) == inProgress' = [inProgress EXCEPT ![s] = IF @ = 0 THEN 0 ELSE @ - 1]

\* A call that fails leaves its write done or not done.
MaybeAddEntry(s)    == AddEntry(s) \/ UNCHANGED inProgress
MaybeRemoveEntry(s) == RemoveEntry(s) \/ UNCHANGED inProgress

\* Mutant: the previous document stays valid.
CloseNone(docs) == docs

\* UpdatePreviousValidToField: only the newest document of the loan is closed.
CloseLatest(docs) == [docs EXCEPT ![Len(docs)].open = FALSE]

\* The documents GetUnpaidLoansByLoanId may return: those still valid.
OpenDocs(l) == {d \in {unpaidDocs[l][i] : i \in DOMAIN unpaidDocs[l]} : d.open}

-----------------------------------------------------------------------------
(***************************************************************************)
(* loan-availment grants a loan to a subscriber without one: the Loans     *)
(* document and its first UnpaidLoans document.  Loans written before the  *)
(* field existed have no totalUnpaidLoan, which reads as 0.                *)
(***************************************************************************)
AvailLoan(s) ==
    /\ active[s] = NoLoan
    /\ loanCount < MaxLoans
    /\ LET l == loanCount + 1 IN
       \E p \in Principals, b \in {0, 1} :
          /\ loanCount' = l
          /\ active' = [active EXCEPT ![s] = l]
          /\ balance' = [balance EXCEPT ![l] = b * p]
          /\ unpaidDocs' = [unpaidDocs EXCEPT
                ![l] = <<[amount |-> p, open |-> TRUE, version |-> 1]>>]
    /\ UNCHANGED <<inProgress, closedDocs, collections, topic>>
=============================================================================
