--------------------------- MODULE PromoConsumer ---------------------------
(***************************************************************************)
(* promo-collection: every consumer instance takes promo events from Kafka *)
(* one at a time and runs CheckBusinessLevelRulesForPromoCollection, which *)
(* ends in a message to the worker or in nothing.  One action per call     *)
(* that other processes can interleave with.                               *)
(***************************************************************************)
EXTENDS CollectionStore

CONSTANTS
    Consumers,       \* running instances of the service
    ConversionRate,  \* MB per peso
    MinCollection,   \* SystemLevelRules.minCollectionAmount, pesos
    Allowances       \* MaxDataCollectionPercent * WALLETAMOUNT, MB

ASSUME ConsumerAssumption ==
    /\ ConversionRate \in Nat \ {0}
    /\ MinCollection \in Nat
    /\ Allowances \subseteq Nat

VARIABLES
    eventsLeft,   \* bound: events the topic will still deliver
    cons          \* what each consumer is doing

consumerVars == <<eventsLeft, cons>>

ConsumerPcs == {"idle", "check", "create", "rules", "old", "loan", "unpaid",
                "backfill", "publish", "skip", "cleanup"}

IdleConsumer == [pc |-> "idle", sub |-> NoSub, allowance |-> 0, loan |-> NoLoan,
                 unpaid |-> 0, version |-> 0, kind |-> "Partial", pesos |-> 0]

ConsumerState ==
    [pc : ConsumerPcs, sub : Subscribers \cup {NoSub}, allowance : Nat,
     loan : LoanIds \cup {NoLoan}, unpaid : Nat, version : Nat,
     kind : {"Partial", "Full"}, pesos : Nat]

ConsumerTypeOK ==
    /\ eventsLeft \in Nat
    /\ cons \in [Consumers -> ConsumerState]
    /\ \A c \in Consumers : cons[c].pc # "idle" => cons[c].sub \in Subscribers
    /\ \A c \in Consumers :
          cons[c].pc \in {"old", "unpaid", "backfill", "publish", "skip"} =>
             cons[c].loan \in LoanIds
    /\ \A c \in Consumers :
          cons[c].pc = "publish" => cons[c].pesos <= cons[c].unpaid

ConsumerInit ==
    /\ eventsLeft = MaxEvents
    /\ cons = [c \in Consumers |-> IdleConsumer]

-----------------------------------------------------------------------------
At(c, pc)   == cons[c].pc = pc
Goto(c, pc) == cons' = [cons EXCEPT ![c].pc = pc]
Finish(c)   == cons' = [cons EXCEPT ![c] = IdleConsumer]

\* utils.ComputeMaxDeductibleAmount: min(M * P, L * C), in MB.
Deductible(allowance, unpaid) ==
    IF allowance < unpaid * ConversionRate THEN allowance
    ELSE unpaid * ConversionRate

\* Mutant: the last peso need not be covered.
IsFullButOne(allowance, unpaid) ==
    Deductible(allowance, unpaid) + ConversionRate >= unpaid * ConversionRate

\* DataToBeDeductedCalculation: everything, a whole number of pesos, or nothing.
IsFull(allowance, unpaid) == Deductible(allowance, unpaid) = unpaid * ConversionRate
IsPartial(allowance, unpaid) ==
    /\ ~IsFull(allowance, unpaid)
    /\ Deductible(allowance, unpaid) >= MinCollection * ConversionRate
PesosOf(allowance, unpaid) == Deductible(allowance, unpaid) \div ConversionRate

-----------------------------------------------------------------------------
\* PromoKafkaConsumer takes the next event of any subscriber.  Offsets are
\* committed on a timer: an event consumed twice is one of these too.
TakeEvent(c) ==
    /\ At(c, "idle") /\ eventsLeft > 0
    /\ eventsLeft' = eventsLeft - 1
    /\ \E s \in Subscribers, a \in Allowances :
          cons' = [cons EXCEPT ![c] = [@ EXCEPT !.pc = "check", !.sub = s, !.allowance = a]]
    /\ UNCHANGED storeVars

\* Step 1 ends the event: the rules cannot be read, or the feature is off.
SkipEvent(c) ==
    /\ At(c, "check")
    /\ Finish(c)
    /\ UNCHANGED <<eventsLeft, storeVars>>

\* Step 2: an entry in progress ends the event.
CheckEntry(c) ==
    /\ At(c, "check")
    /\ IF EntryExists(cons[c].sub) THEN Finish(c) ELSE Goto(c, "create")
    /\ UNCHANGED <<eventsLeft, storeVars>>

\* Step 3: the entry is inserted in a second call.  On an error nothing is
\* cleaned up, though the insert may have been applied.
CreateEntry(c) ==
    /\ At(c, "create")
    /\ \/ AddEntry(cons[c].sub) /\ Goto(c, "rules")
       \/ MayFail("mongo") /\ MaybeAddEntry(cons[c].sub) /\ Finish(c)
    /\ UNCHANGED <<eventsLeft, active, balance, unpaidDocs, closedDocs, loanCount,
                   collections, topic>>

\* Steps 4 to 8: the Redis skip period, the active loan, the whitelist and the
\* loan's own skip period may each end the event; going on needs an active
\* loan, and one without a conversion rate, an old one, is updated first.
EvaluateRules(c) ==
    /\ At(c, "rules")
    /\ LET l == active[cons[c].sub] IN
       \/ Goto(c, "cleanup")
       \/ l # NoLoan /\ Goto(c, "loan")
       \/ /\ l # NoLoan
          /\ cons' = [cons EXCEPT ![c] =
                         [@ EXCEPT !.pc = "old", !.loan = l, !.unpaid = balance[l]]]
    /\ UNCHANGED <<eventsLeft, storeVars>>

\* UpdateOldLoanDocument writes the unpaid amount that was read, or found, to
\* the loan, if it is still there.
WriteBack(c) ==
    LET l == cons[c].loan IN
    balance' = IF \E s \in Subscribers : active[s] = l
               THEN [balance EXCEPT ![l] = cons[c].unpaid] ELSE balance

\* processOldLoanForPromoCollection gives the loan its rates and periods and
\* goes on unless one of the periods is still active.
UpdateOldLoan(c) ==
    /\ At(c, "old")
    /\ \/ WriteBack(c) /\ (Goto(c, "loan") \/ Goto(c, "cleanup"))
       \/ MayFail("mongo") /\ UNCHANGED balance /\ Goto(c, "cleanup")
    /\ UNCHANGED <<eventsLeft, inProgress, active, unpaidDocs, closedDocs, loanCount,
                   collections, topic>>

\* CollectionRules reads the rules and then the loan, by MSISDN, once more.
ReadLoan(c) ==
    /\ At(c, "loan")
    /\ LET l == active[cons[c].sub] IN
       \/ l = NoLoan /\ Goto(c, "cleanup")
       \/ /\ l # NoLoan
          /\ cons' = [cons EXCEPT ![c] =
                         [@ EXCEPT !.pc = "unpaid", !.loan = l, !.unpaid = balance[l]]]
       \/ MayFail("mongo") /\ Goto(c, "cleanup")
    /\ UNCHANGED <<eventsLeft, storeVars>>

\* What follows once the unpaid amount u and the version v are known.
Decide(c, u, v) ==
    LET a == cons[c].allowance IN
    cons' = [cons EXCEPT ![c] = [@ EXCEPT
        !.pc = IF IsFull(a, u) \/ IsPartial(a, u) THEN "publish" ELSE "skip",
        !.unpaid = u, !.version = v,
        !.kind = IF IsFull(a, u) THEN "Full" ELSE "Partial",
        !.pesos = PesosOf(a, u)]]

\* getTotalUnpaidLoan on a loan with an amount: the document only supplies the
\* version, and failing to find it is not an error.  Then getConversionRate
\* may find no rate.
ReadUnpaid(c) ==
    /\ At(c, "unpaid") /\ cons[c].unpaid > 0
    /\ LET docs == OpenDocs(cons[c].loan) IN
       \/ \E d \in docs : Decide(c, cons[c].unpaid, d.version)
       \/ (docs = {} \/ MayFail("mongo")) /\ Decide(c, cons[c].unpaid, 0)
       \/ Goto(c, "cleanup")
    /\ UNCHANGED <<eventsLeft, storeVars>>

\* getTotalUnpaidLoan on a loan without an amount takes it from the valid
\* document; none, or one of 0, is an error.
FindUnpaid(c) ==
    /\ At(c, "unpaid") /\ cons[c].unpaid = 0
    /\ LET docs == OpenDocs(cons[c].loan) IN
       \/ \E d \in docs :
             /\ d.amount > 0
             /\ cons' = [cons EXCEPT ![c] =
                   [@ EXCEPT !.pc = "backfill", !.unpaid = d.amount, !.version = d.version]]
       \/ /\ MayFail("mongo") \/ docs = {} \/ \E d \in docs : d.amount = 0
          /\ Goto(c, "cleanup")
    /\ UNCHANGED <<eventsLeft, storeVars>>

\* It is written back to the loan before anything is decided.
BackfillUnpaid(c) ==
    /\ At(c, "backfill")
    /\ \/ /\ WriteBack(c)
          /\ Decide(c, cons[c].unpaid, cons[c].version) \/ Goto(c, "cleanup")
       \/ MayFail("mongo") /\ UNCHANGED balance /\ Goto(c, "cleanup")
    /\ UNCHANGED <<eventsLeft, inProgress, active, unpaidDocs, closedDocs, loanCount,
                   collections, topic>>

\* handlePartialOrSkipCollection below the minimum: the entry goes, and an
\* error brings the deferred deletion.
SkipCollection(c) ==
    /\ At(c, "skip")
    /\ \/ RemoveEntry(cons[c].sub) /\ Finish(c)
       \/ MayFail("mongo") /\ MaybeRemoveEntry(cons[c].sub) /\ Goto(c, "cleanup")
    /\ UNCHANGED <<eventsLeft, active, balance, unpaidDocs, closedDocs, loanCount,
                   collections, topic>>

\* buildPubSubMsg: the message carries the loan as it was read.
Snapshot(c) == [sub |-> cons[c].sub, loan |-> cons[c].loan, kind |-> cons[c].kind,
                pesos |-> cons[c].pesos, unpaid |-> cons[c].unpaid,
                version |-> cons[c].version]

\* Mutant: the deferred deletion also follows a publish that succeeded.
PublishAndCleanup(c) ==
    /\ At(c, "publish")
    /\ Len(topic) < MaxEvents
    /\ topic' = Append(topic, Snapshot(c))
    /\ Goto(c, "cleanup")
    /\ UNCHANGED <<eventsLeft, inProgress, active, balance, unpaidDocs, closedDocs,
                   loanCount, collections>>

\* A published message leaves the entry to the worker.  An error of the
\* publisher is followed by the deferred deletion, even when the service did
\* receive the message.
PublishMessage(c) ==
    /\ At(c, "publish")
    /\ Len(topic) < MaxEvents
    /\ \/ topic' = Append(topic, Snapshot(c)) /\ Finish(c)
       \/ /\ MayFail("pubsub")
          /\ topic' = Append(topic, Snapshot(c)) \/ UNCHANGED topic
          /\ Goto(c, "cleanup")
    /\ UNCHANGED <<eventsLeft, inProgress, active, balance, unpaidDocs, closedDocs,
                   loanCount, collections>>

\* The deferred DeleteEntry, whose error is only logged.
Cleanup(c) ==
    /\ At(c, "cleanup")
    /\ \/ RemoveEntry(cons[c].sub)
       \/ MayFail("mongo") /\ MaybeRemoveEntry(cons[c].sub)
    /\ Finish(c)
    /\ UNCHANGED <<eventsLeft, active, balance, unpaidDocs, closedDocs, loanCount,
                   collections, topic>>

\* The process stops: no deferred call runs, and nothing expires the entry.
ConsumerCrash(c) ==
    /\ MayFail("consumerCrash")
    /\ ~At(c, "idle")
    /\ Finish(c)
    /\ UNCHANGED <<eventsLeft, storeVars>>

\* The steps that follow once an event is taken.
Proceed(c) ==
    \/ SkipEvent(c) \/ CheckEntry(c) \/ CreateEntry(c) \/ EvaluateRules(c)
    \/ UpdateOldLoan(c) \/ ReadLoan(c) \/ ReadUnpaid(c) \/ FindUnpaid(c)
    \/ BackfillUnpaid(c) \/ SkipCollection(c) \/ PublishMessage(c) \/ Cleanup(c)

ConsumerNext == \E c \in Consumers : TakeEvent(c) \/ Proceed(c) \/ ConsumerCrash(c)
=============================================================================
