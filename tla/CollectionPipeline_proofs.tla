---------------------- MODULE CollectionPipeline_proofs ----------------------
(***************************************************************************)
(* What holds in CollectionPipeline for any number of subscribers,         *)
(* consumers, handlers, loans, events and deliveries, and under any        *)
(* combination of the faults unless a theorem names one.                   *)
(***************************************************************************)
EXTENDS CollectionPipeline, TLAPS

-----------------------------------------------------------------------------
(* Lemmas about the operators. *)

\* Whole pesos out of at most u pesos' worth of data are at most u: the
\* subtraction the worker does with a message never goes below zero.
LEMMA WholePesos ==
    ASSUME NEW a \in Nat, NEW u \in Nat
    PROVE  PesosOf(a, u) \in Nat /\ PesosOf(a, u) <= u
<1> DEFINE d == Deductible(a, u)
<1>1. ConversionRate \in Nat \ {0}
  BY ConsumerAssumption
<1>2. u * ConversionRate \in Nat
  BY <1>1
<1>3. d \in Nat /\ d <= u * ConversionRate
  BY <1>2 DEF Deductible
<1> HIDE DEF d
<1>4. /\ d \div ConversionRate \in Nat
      /\ (d \div ConversionRate) * ConversionRate <= d
  BY <1>1, <1>3, Z3
<1>5. d \div ConversionRate <= u
  BY <1>1, <1>3, <1>4, Z3
<1> QED
  BY <1>4, <1>5 DEF PesosOf, d

\* Closing the newest document keeps the list a list of documents, of the
\* same length, and only that document changes.
LEMMA CloseLatestType ==
    ASSUME NEW docs \in Seq(UnpaidDoc)
    PROVE  /\ CloseLatest(docs) \in Seq(UnpaidDoc)
           /\ Len(CloseLatest(docs)) = Len(docs)
<1> DEFINE n    == Len(docs)
           last == [docs[n] EXCEPT !.open = FALSE]
<1>1. CloseLatest(docs) = [docs EXCEPT ![n] = last]
  BY Zenon DEF CloseLatest
<1>2. CASE n = 0
  <2>1. n \notin DOMAIN docs
    BY <1>2
  <2>2. CloseLatest(docs) = docs
    BY <1>1, <2>1
  <2> QED
    BY <2>2
<1>3. CASE n # 0
  <2>1. n \in 1..Len(docs)
    BY <1>3
  <2>2. docs[n] \in UnpaidDoc
    BY <2>1
  <2>3. last \in UnpaidDoc
    BY <2>2 DEF UnpaidDoc
  <2> HIDE DEF last
  <2> QED
    BY <1>1, <2>1, <2>3
<1> QED
  BY <1>2, <1>3

\* What is read back as a loan's valid unpaid document is one of its documents.
LEMMA OpenDocsType ==
    ASSUME StoreTypeOK, NEW l \in LoanIds
    PROVE  OpenDocs(l) \subseteq UnpaidDoc
<1> DEFINE docs == unpaidDocs[l]
<1>1. docs \in Seq(UnpaidDoc)
  BY DEF StoreTypeOK
<1> HIDE DEF docs
<1>2. \A i \in DOMAIN docs : docs[i] \in UnpaidDoc
  BY <1>1
<1>3. OpenDocs(l) \subseteq {docs[i] : i \in DOMAIN docs}
  BY DEF OpenDocs, docs
<1> QED
  BY <1>2, <1>3

-----------------------------------------------------------------------------
(* Type correctness. *)

\* Granting a loan keeps the types.
LEMMA GrantType == TypeOK /\ Grant => TypeOK'
<1> SUFFICES ASSUME TypeOK, Grant PROVE TypeOK'
  OBVIOUS
<1> USE DEF TypeOK, LoanIds, NoLoan
<1>1. PICK s \in Subscribers : AvailLoan(s)
  BY DEF Grant
<1>2. PICK p \in Principals, b \in {0, 1} :
         /\ loanCount' = loanCount + 1
         /\ active' = [active EXCEPT ![s] = loanCount + 1]
         /\ balance' = [balance EXCEPT ![loanCount + 1] = b * p]
         /\ unpaidDocs' = [unpaidDocs EXCEPT
               ![loanCount + 1] = <<[amount |-> p, open |-> TRUE, version |-> 1]>>]
  BY <1>1 DEF AvailLoan
<1>3. p \in Nat /\ b * p \in Nat
  BY StoreAssumption
<1>4. StoreTypeOK'
  <2>1. loanCount + 1 \in LoanIds /\ loanCount' \in 0..MaxLoans
    BY <1>1, <1>2, StoreAssumption DEF AvailLoan, StoreTypeOK
  <2>2. <<[amount |-> p, open |-> TRUE, version |-> 1]>> \in Seq(UnpaidDoc)
    BY <1>3 DEF UnpaidDoc
  <2>3. unpaidDocs' \in [LoanIds -> Seq(UnpaidDoc)]
    BY <1>2, <2>1, <2>2 DEF StoreTypeOK
  <2>4. balance' \in [LoanIds -> Nat]
    BY <1>2, <1>3, <2>1 DEF StoreTypeOK
  <2>5. active' \in [Subscribers -> LoanIds \cup {NoLoan}]
    BY <1>2, <2>1 DEF StoreTypeOK
  <2> QED
    BY <1>1, <2>1, <2>3, <2>4, <2>5 DEF AvailLoan, StoreTypeOK
<1>5. ConsumerTypeOK'
  BY DEF Grant, ConsumerTypeOK, consumerVars
<1>6. WorkerTypeOK'
  BY <1>1 DEF Grant, AvailLoan, WorkerTypeOK, workerVars, Busy
<1> QED
  BY <1>4, <1>5, <1>6

\* A consumer that only moves on, or gives its event up, keeps the types.
LEMMA GotoType ==
    ASSUME ConsumerTypeOK, NEW c \in Consumers, NEW pc \in ConsumerPcs,
           Goto(c, pc), eventsLeft' = eventsLeft,
           pc # "idle", cons[c].pc # "idle",
           pc \notin {"old", "unpaid", "backfill", "publish", "skip"}
    PROVE  ConsumerTypeOK'
  BY DEF ConsumerTypeOK, ConsumerState, Goto

\* Finishing an event leaves an idle consumer, which is well-typed.
LEMMA FinishType ==
    ASSUME ConsumerTypeOK, NEW c \in Consumers,
           Finish(c), eventsLeft' = eventsLeft
    PROVE  ConsumerTypeOK'
  BY DEF ConsumerTypeOK, ConsumerState, Finish, IdleConsumer, ConsumerPcs, NoLoan

\* What a consumer decides to collect is a whole number of pesos, at most
\* what is unpaid.
LEMMA DecideType ==
    ASSUME ConsumerTypeOK, NEW c \in Consumers, cons[c].pc \in {"unpaid", "backfill"},
           NEW u \in Nat, NEW v \in Nat, Decide(c, u, v), eventsLeft' = eventsLeft
    PROVE  ConsumerTypeOK'
<1> DEFINE a == cons[c].allowance
           pesos == PesosOf(a, u)
           next == IF IsFull(a, u) \/ IsPartial(a, u) THEN "publish" ELSE "skip"
           kind == IF IsFull(a, u) THEN "Full" ELSE "Partial"
<1>1. a \in Nat /\ cons[c].loan \in LoanIds /\ cons[c].sub \in Subscribers
  BY DEF ConsumerTypeOK, ConsumerState
<1>2. pesos \in Nat /\ pesos <= u
  BY <1>1, WholePesos
<1>3. next \in {"publish", "skip"} /\ kind \in {"Full", "Partial"}
  OBVIOUS
<1>4. cons' = [cons EXCEPT ![c] = [@ EXCEPT !.pc = next, !.unpaid = u,
                           !.version = v, !.kind = kind, !.pesos = pesos]]
  BY Zenon DEF Decide
<1> HIDE DEF next, kind, pesos
<1>5. cons[c] \in ConsumerState
  BY DEF ConsumerTypeOK
<1>6. /\ cons'[c] \in ConsumerState
      /\ cons'[c].pc = next /\ cons'[c].sub = cons[c].sub
      /\ cons'[c].loan = cons[c].loan
      /\ cons'[c].unpaid = u /\ cons'[c].pesos = pesos
  BY <1>1, <1>2, <1>3, <1>4, <1>5 DEF ConsumerTypeOK, ConsumerState, ConsumerPcs
<1> QED
  BY <1>1, <1>2, <1>3, <1>4, <1>6 DEF ConsumerTypeOK

\* A consumer that reads a loan holds one of the loans.
LEMMA HoldType ==
    ASSUME ConsumerTypeOK, NEW c \in Consumers, cons[c].sub \in Subscribers,
           NEW pc \in {"old", "unpaid"}, NEW l \in LoanIds, NEW u \in Nat,
           cons' = [cons EXCEPT ![c] = [@ EXCEPT !.pc = pc, !.loan = l, !.unpaid = u]],
           eventsLeft' = eventsLeft
    PROVE  ConsumerTypeOK'
<1>1. cons[c] \in ConsumerState
  BY DEF ConsumerTypeOK
<1> QED
  BY <1>1 DEF ConsumerTypeOK, ConsumerState, ConsumerPcs

\* Writing an amount back keeps the types of the store.
LEMMA WriteBackType ==
    ASSUME StoreTypeOK, NEW c \in Consumers, cons[c].loan \in LoanIds,
           cons[c].unpaid \in Nat, WriteBack(c) \/ UNCHANGED balance,
           UNCHANGED <<inProgress, active, unpaidDocs, closedDocs, loanCount,
                       collections, topic>>
    PROVE  StoreTypeOK'
<1>1. balance' \in [LoanIds -> Nat]
  BY DEF WriteBack, StoreTypeOK
<1> QED
  BY <1>1 DEF StoreTypeOK

\* Every step of a consumer keeps the types of the store and its own.
LEMMA ConsumerStepType ==
    ASSUME TypeOK, NEW c \in Consumers, TakeEvent(c) \/ Proceed(c) \/ ConsumerCrash(c)
    PROVE  StoreTypeOK' /\ ConsumerTypeOK'
<1> USE DEF TypeOK, At
<1> DEFINE s == cons[c].sub
<1>0. /\ cons[c] \in ConsumerState
      /\ cons[c].pc # "idle" => s \in Subscribers
  BY DEF ConsumerTypeOK
<1>a. UNCHANGED storeVars => StoreTypeOK'
  BY DEF storeVars, StoreTypeOK
<1>b. ASSUME s \in Subscribers, MaybeAddEntry(s) \/ MaybeRemoveEntry(s),
             UNCHANGED <<active, balance, unpaidDocs, closedDocs, loanCount,
                         collections, topic>>
      PROVE  StoreTypeOK'
  BY <1>b DEF MaybeAddEntry, MaybeRemoveEntry, AddEntry, RemoveEntry, StoreTypeOK
<1>1. CASE TakeEvent(c)
  <2>0. eventsLeft > 0 /\ eventsLeft' = eventsLeft - 1
    BY <1>1, Zenon DEF TakeEvent
  <2>1. eventsLeft' \in Nat
    BY <2>0 DEF ConsumerTypeOK
  <2>2. PICK t \in Subscribers, a \in Allowances :
          cons' = [cons EXCEPT ![c] = [@ EXCEPT !.pc = "check", !.sub = t, !.allowance = a]]
    BY <1>1 DEF TakeEvent
  <2>3. ConsumerTypeOK'
    BY <1>0, <2>1, <2>2, ConsumerAssumption DEF ConsumerTypeOK, ConsumerState, ConsumerPcs
  <2> QED
    BY <1>1, <1>a, <2>3 DEF TakeEvent
<1>2. CASE SkipEvent(c)
  BY <1>2, <1>a, FinishType DEF SkipEvent
<1>3. CASE CheckEntry(c)
  <2>1. Finish(c) \/ Goto(c, "create")
    BY <1>3 DEF CheckEntry
  <2> QED
    BY <1>3, <1>a, <2>1, FinishType, GotoType DEF CheckEntry, ConsumerPcs
<1>4. CASE CreateEntry(c)
  <2>1. StoreTypeOK'
    BY <1>4, <1>0, <1>b DEF CreateEntry, MaybeAddEntry
  <2> QED
    BY <1>4, <2>1, FinishType, GotoType DEF CreateEntry, ConsumerPcs
<1>5. CASE EvaluateRules(c)
  <2> DEFINE l == active[s]
             u == balance[l]
             q == [cons[c] EXCEPT !.pc = "old", !.loan = l, !.unpaid = u]
  <2>1. /\ s \in Subscribers /\ eventsLeft' = eventsLeft /\ UNCHANGED storeVars
        /\ cons[c].pc # "idle"
    BY <1>5, <1>0 DEF EvaluateRules
  <2>2. \/ \E pc \in {"cleanup", "loan"} : Goto(c, pc)
        \/ l # NoLoan /\ cons' = [cons EXCEPT ![c] = q]
    BY <1>5, Zenon DEF EvaluateRules
  <2>3. CASE \E pc \in {"cleanup", "loan"} : Goto(c, pc)
    BY <1>a, <2>1, <2>3, GotoType DEF ConsumerPcs
  <2>4. CASE l # NoLoan /\ cons' = [cons EXCEPT ![c] = q]
    <3>1. l \in LoanIds /\ u \in Nat
      BY <2>1, <2>4 DEF StoreTypeOK
    <3> HIDE DEF l, u
    <3> QED
      BY <1>a, <2>1, <2>4, <3>1, HoldType
  <2> QED
    BY <2>2, <2>3, <2>4
<1>6. CASE UpdateOldLoan(c)
  <2>1. cons[c].loan \in LoanIds /\ cons[c].unpaid \in Nat
    BY <1>6, <1>0 DEF UpdateOldLoan, ConsumerTypeOK, ConsumerState
  <2>2. StoreTypeOK'
    BY <1>6, <2>1, WriteBackType DEF UpdateOldLoan
  <2> QED
    BY <1>6, <2>2, GotoType DEF UpdateOldLoan, ConsumerPcs
<1>7. CASE ReadLoan(c)
  <2> DEFINE l == active[s]
             u == balance[l]
             q == [cons[c] EXCEPT !.pc = "unpaid", !.loan = l, !.unpaid = u]
  <2>1. /\ s \in Subscribers /\ eventsLeft' = eventsLeft /\ UNCHANGED storeVars
        /\ cons[c].pc # "idle"
    BY <1>7, <1>0 DEF ReadLoan
  <2>2. \/ \E pc \in {"cleanup", "loan"} : Goto(c, pc)
        \/ l # NoLoan /\ cons' = [cons EXCEPT ![c] = q]
    BY <1>7, Zenon DEF ReadLoan
  <2>3. CASE \E pc \in {"cleanup", "loan"} : Goto(c, pc)
    BY <1>a, <2>1, <2>3, GotoType DEF ConsumerPcs
  <2>4. CASE l # NoLoan /\ cons' = [cons EXCEPT ![c] = q]
    <3>1. l \in LoanIds /\ u \in Nat
      BY <2>1, <2>4 DEF StoreTypeOK
    <3> HIDE DEF l, u
    <3> QED
      BY <1>a, <2>1, <2>4, <3>1, HoldType
  <2> QED
    BY <2>2, <2>3, <2>4
<1>8. CASE ReadUnpaid(c)
  <2>1. cons[c].loan \in LoanIds /\ cons[c].unpaid \in Nat
    BY <1>8, <1>0 DEF ReadUnpaid, ConsumerTypeOK, ConsumerState
  <2>2. \A d \in OpenDocs(cons[c].loan) : d.version \in Nat
    BY <2>1, OpenDocsType DEF UnpaidDoc
  <2>3. (\E v \in Nat : Decide(c, cons[c].unpaid, v)) \/ Goto(c, "cleanup")
    BY <1>8, <2>2 DEF ReadUnpaid
  <2>4. CASE Goto(c, "cleanup")
    BY <1>8, <1>a, <2>4, GotoType DEF ReadUnpaid, ConsumerPcs
  <2>5. CASE \E v \in Nat : Decide(c, cons[c].unpaid, v)
    BY <1>8, <1>a, <2>1, <2>5, DecideType DEF ReadUnpaid
  <2> QED
    BY <2>3, <2>4, <2>5
<1>9. CASE FindUnpaid(c)
  <2>1. cons[c].loan \in LoanIds /\ cons[c].sub \in Subscribers
    BY <1>9, <1>0 DEF FindUnpaid, ConsumerTypeOK
  <2>2. CASE Goto(c, "cleanup")
    BY <1>9, <1>a, <2>2, GotoType DEF FindUnpaid, ConsumerPcs
  <2>3. CASE ~Goto(c, "cleanup")
    <3>1. PICK d \in OpenDocs(cons[c].loan) :
             cons' = [cons EXCEPT ![c] = [cons[c] EXCEPT
                         !.pc = "backfill", !.unpaid = d.amount, !.version = d.version]]
      BY <1>9, <2>3, Zenon DEF FindUnpaid
    <3>2. d.amount \in Nat /\ d.version \in Nat
      BY <2>1, OpenDocsType DEF UnpaidDoc
    <3> DEFINE n == d.amount
               v == d.version
    <3> HIDE DEF n, v
    <3>3. cons' = [cons EXCEPT ![c] = [cons[c] EXCEPT
                      !.pc = "backfill", !.unpaid = n, !.version = v]]
      BY <3>1, Zenon DEF n, v
    <3>4. ConsumerTypeOK'
      BY <1>9, <1>0, <2>1, <3>2, <3>3 DEF FindUnpaid, ConsumerTypeOK, ConsumerState,
         ConsumerPcs, n, v
    <3> QED
      BY <1>9, <1>a, <3>4 DEF FindUnpaid
  <2> QED
    BY <2>2, <2>3
<1>10. CASE BackfillUnpaid(c)
  <2>1. /\ cons[c].loan \in LoanIds /\ cons[c].unpaid \in Nat
        /\ cons[c].version \in Nat
    BY <1>10, <1>0 DEF BackfillUnpaid, ConsumerTypeOK, ConsumerState
  <2>2. StoreTypeOK'
    BY <1>10, <2>1, WriteBackType DEF BackfillUnpaid
  <2>3. Goto(c, "cleanup") \/ Decide(c, cons[c].unpaid, cons[c].version)
    BY <1>10 DEF BackfillUnpaid
  <2>4. ConsumerTypeOK'
    BY <1>10, <2>1, <2>3, GotoType, DecideType DEF BackfillUnpaid, ConsumerPcs
  <2> QED
    BY <2>2, <2>4
<1>11. CASE SkipCollection(c)
  <2>1. StoreTypeOK'
    BY <1>11, <1>0, <1>b DEF SkipCollection, MaybeRemoveEntry
  <2> QED
    BY <1>11, <2>1, FinishType, GotoType DEF SkipCollection, ConsumerPcs
<1>12. CASE PublishMessage(c)
  <2>1. /\ cons[c].loan \in LoanIds /\ s \in Subscribers
        /\ cons[c].pesos <= cons[c].unpaid
    BY <1>12, <1>0 DEF PublishMessage, ConsumerTypeOK
  <2>2. Snapshot(c) \in Message /\ Snapshot(c).pesos <= Snapshot(c).unpaid
    BY <1>0, <2>1 DEF Snapshot, Message, ConsumerState
  <2>3. topic' = topic \/ topic' = Append(topic, Snapshot(c))
    BY <1>12 DEF PublishMessage
  <2> HIDE DEF s
  <2>4. StoreTypeOK'
    <3>1. /\ topic' \in Seq(Message) /\ Len(topic') <= MaxEvents
          /\ \A m \in 1..Len(topic') : topic'[m].pesos <= topic'[m].unpaid
      <4>1. CASE topic' = topic
        BY <4>1 DEF StoreTypeOK
      <4>2. CASE topic' = Append(topic, Snapshot(c))
        <5>1. Len(topic) < MaxEvents /\ topic \in Seq(Message)
          BY <1>12 DEF PublishMessage, StoreTypeOK
        <5>2. /\ topic' \in Seq(Message) /\ Len(topic') = Len(topic) + 1
              /\ \A m \in 1..Len(topic) : topic'[m] = topic[m]
              /\ topic'[Len(topic) + 1] = Snapshot(c)
          BY <2>2, <4>2, <5>1
        <5>3. ASSUME NEW m \in 1..Len(topic')
              PROVE  topic'[m].pesos <= topic'[m].unpaid
          <6>1. Len(topic) \in Nat
            BY <5>1
          <6>2. m \in 1..Len(topic) \/ m = Len(topic) + 1
            BY <5>2, <6>1
          <6>3. CASE m \in 1..Len(topic)
            <7>1. topic[m].pesos <= topic[m].unpaid
              BY <6>3 DEF StoreTypeOK
            <7> QED
              BY <5>2, <6>3, <7>1
          <6>4. CASE m = Len(topic) + 1
            BY <2>2, <5>2, <6>4
          <6> QED
            BY <6>2, <6>3, <6>4
        <5>4. Len(topic') <= MaxEvents
          BY <5>1, <5>2, StoreAssumption
        <5> QED
          BY <5>2, <5>3, <5>4
      <4> QED
        BY <2>3, <4>1, <4>2
    <3> QED
      BY <1>12, <3>1 DEF PublishMessage, StoreTypeOK
  <2>5. ConsumerTypeOK'
    BY <1>12, FinishType, GotoType DEF PublishMessage, ConsumerPcs
  <2> QED
    BY <2>4, <2>5
<1>13. CASE Cleanup(c)
  <2>1. StoreTypeOK'
    BY <1>13, <1>0, <1>b DEF Cleanup, MaybeRemoveEntry
  <2> QED
    BY <1>13, <2>1, FinishType DEF Cleanup
<1>14. CASE ConsumerCrash(c)
  BY <1>14, <1>a, FinishType DEF ConsumerCrash
<1> QED
  BY <1>1, <1>2, <1>3, <1>4, <1>5, <1>6, <1>7, <1>8, <1>9, <1>10, <1>11, <1>12, <1>13,
     <1>14
  DEF Proceed

\* A longer topic keeps the types of the workers.
LEMMA ConsumerKeepsWorkerType ==
    ASSUME TypeOK, NEW c \in Consumers, TakeEvent(c) \/ Proceed(c) \/ ConsumerCrash(c),
           UNCHANGED workerVars
    PROVE  WorkerTypeOK'
<1>1. collections' = collections
  BY DEF TakeEvent, Proceed, ConsumerCrash, SkipEvent, CheckEntry, CreateEntry,
         EvaluateRules, UpdateOldLoan, ReadLoan, ReadUnpaid, FindUnpaid, BackfillUnpaid,
         SkipCollection,
         PublishMessage, Cleanup, storeVars
<1>2. topic' = topic \/ topic' = Append(topic, Snapshot(c))
  BY DEF TakeEvent, Proceed, ConsumerCrash, SkipEvent, CheckEntry, CreateEntry,
         EvaluateRules, UpdateOldLoan, ReadLoan, ReadUnpaid, FindUnpaid, BackfillUnpaid,
         SkipCollection,
         PublishMessage, Cleanup, storeVars
<1>3. Len(topic) \in Nat /\ Len(topic') \in Nat /\ Len(topic) <= Len(topic')
  <2>1. topic \in Seq(Message)
    BY DEF TypeOK, StoreTypeOK
  <2>2. CASE topic' = topic
    BY <2>1, <2>2
  <2>3. CASE topic' = Append(topic, Snapshot(c))
    <3>1. cons[c].pc = "publish" \/ topic' = topic
      BY DEF TakeEvent, Proceed, ConsumerCrash, SkipEvent, CheckEntry, CreateEntry,
             EvaluateRules, UpdateOldLoan, ReadLoan, ReadUnpaid, FindUnpaid, BackfillUnpaid,
         SkipCollection,
             PublishMessage, Cleanup, storeVars, At
    <3>2. topic' \in Seq(Message)
      BY ConsumerStepType DEF StoreTypeOK
    <3>3. Len(topic') = Len(topic) + 1 \/ topic' = topic
      BY <2>1, <2>3, <3>2
    <3> QED
      BY <2>1, <3>3
  <2> QED
    BY <1>2, <2>2, <2>3
<1> QED
  BY <1>1, <1>3 DEF TypeOK, WorkerTypeOK, workerVars, Busy

-----------------------------------------------------------------------------
(* The steps of a handler. *)

\* The lists a handler's state points into only grow.
StoreGrows ==
    /\ topic' = topic /\ deliveries' \in [MsgIds -> 0..MaxDeliveries]
    /\ Len(collections) <= Len(collections')
    /\ acked' \subseteq 1..Len(topic) /\ archived' \subseteq 1..Len(topic)
    /\ debits' \in [MsgIds -> Nat]
    /\ reported' \subseteq 0..Len(collections)

\* A handler given a new state of the right type keeps the workers' types.
LEMMA WorkUpdateType ==
    ASSUME WorkerTypeOK, NEW w \in Workers, NEW r \in WorkerState,
           work' = [work EXCEPT ![w] = r],
           r.pc # "idle" => r.msg \in 1..Len(topic),
           r.coll \in 0..Len(collections'),
           r.pc = "commit" => r.loan \in LoanIds,
           Len(collections) \in Nat, Len(collections') \in Nat, StoreGrows
    PROVE  WorkerTypeOK'
<1>1. work' \in [Workers -> WorkerState]
  BY DEF WorkerTypeOK
<1>2. \A v \in Workers : work'[v] = IF v = w THEN r ELSE work[v]
  BY DEF WorkerTypeOK
<1>3. \A v \in Workers :
        /\ work'[v].pc # "idle" => work'[v].msg \in 1..Len(topic)
        /\ work'[v].coll \in 0..Len(collections')
        /\ work'[v].pc = "commit" => work'[v].loan \in LoanIds
  BY <1>2 DEF WorkerTypeOK, Busy, StoreGrows
<1> QED
  BY <1>1, <1>3 DEF WorkerTypeOK, Busy, StoreGrows

\* A handler that only moves on keeps them too.
LEMMA ContinueType ==
    ASSUME WorkerTypeOK, NEW w \in Workers, NEW pc \in WorkerPcs \ {"idle", "commit"},
           Continue(w, pc), Busy(w),
           Len(collections) \in Nat, Len(collections') \in Nat, StoreGrows
    PROVE  WorkerTypeOK'
<1> DEFINE r == [work[w] EXCEPT !.pc = pc]
<1>1. work' = [work EXCEPT ![w] = r]
  BY Zenon DEF Continue
<1>2. work[w] \in WorkerState /\ work[w].msg \in 1..Len(topic)
      /\ work[w].coll \in 0..Len(collections)
  BY DEF WorkerTypeOK, Busy
<1>3. /\ r \in WorkerState /\ r.pc = pc /\ r.msg = work[w].msg
      /\ r.coll = work[w].coll
  BY <1>2 DEF WorkerState
<1> HIDE DEF r
<1>4. r.coll \in 0..Len(collections')
  BY <1>2, <1>3 DEF StoreGrows
<1> QED
  BY <1>1, <1>2, <1>3, <1>4, WorkUpdateType

\* A handler that is done with its message keeps them too.
LEMMA IdleType ==
    ASSUME WorkerTypeOK, NEW w \in Workers, work' = [work EXCEPT ![w] = IdleWorker],
           Len(collections) \in Nat, Len(collections') \in Nat, StoreGrows
    PROVE  WorkerTypeOK'
<1> DEFINE r == IdleWorker
<1>1. r \in WorkerState /\ r.pc = "idle" /\ r.coll = 0
  BY DEF IdleWorker, WorkerState, WorkerPcs, Modes, NoMsg, NoLoan, NoCollection
<1> HIDE DEF r
<1>2. work' = [work EXCEPT ![w] = r]
  BY DEF r
<1>3. r.coll \in 0..Len(collections') /\ r.pc # "commit"
  BY <1>1
<1> QED
  BY <1>1, <1>2, <1>3, WorkUpdateType

\* The order of the calls leads to steps there are, and to no transaction.
LEMMA OrderType ==
    ASSUME NEW mode \in Modes, NEW b \in BOOLEAN
    PROVE  /\ AfterRecord(mode) \in WorkerPcs \ {"idle", "commit"}
           /\ AfterReport(mode, b) \in WorkerPcs \ {"idle", "commit"}
           /\ AfterRelease(mode, b) \in WorkerPcs \ {"idle", "commit"}
           /\ AfterFlag(mode) \in WorkerPcs \ {"idle", "commit"}
<1>1. AfterRecord(mode) \in WorkerPcs \ {"idle", "commit"}
  BY DEF AfterRecord, WorkerPcs
<1>2. AfterReport(mode, b) \in {"release", "ack", "flag", "leave"}
  BY DEF AfterReport, Modes
<1>3. AfterRelease(mode, b) \in {"flag", "ack", "report"}
  BY DEF AfterRelease, Modes
<1>4. AfterFlag(mode) \in {"release", "leave", "ack"}
  BY DEF AfterFlag, Modes
<1> QED
  BY <1>1, <1>2, <1>3, <1>4 DEF WorkerPcs

\* A transaction keeps the documents well formed and inserts one collection.
LEMMA TransactionType ==
    ASSUME StoreTypeOK, NEW w \in Workers, work[w].msg \in MsgIds,
           Msg(w) \in Message, Msg(w).pesos <= Msg(w).unpaid,
           work[w].loan \in LoanIds, Transaction(w),
           UNCHANGED <<inProgress, loanCount, topic>>
    PROVE  StoreTypeOK' /\ Len(collections') = Len(collections) + 1
<1> DEFINE m == Msg(w)
           l == work[w].loan
           left == Remaining(w)
           entry == Collected(w)
<1>1. /\ m.loan \in LoanIds /\ m.unpaid \in Nat /\ m.pesos \in Nat
      /\ m.version + 1 \in Nat /\ left \in Nat
  BY DEF Message, Remaining
<1>2. entry \in Collection
  BY <1>1 DEF Collected, Collection
<1> HIDE DEF left, entry
<1>3. /\ collections' = Append(collections, entry)
      /\ collections' \in Seq(Collection)
      /\ Len(collections') = Len(collections) + 1
  <2>1. collections' = Append(collections, entry)
    BY DEF Transaction, PartialTransaction, FullTransaction, entry
  <2> QED
    BY <1>2, <2>1 DEF StoreTypeOK
<1>4. CASE PartialTransaction(w)
  <2> DEFINE closed == [unpaidDocs EXCEPT ![l] = CloseLatest(@)]
             doc == [amount |-> left, open |-> TRUE, version |-> m.version + 1]
  <2>1. closed \in [LoanIds -> Seq(UnpaidDoc)]
    BY CloseLatestType DEF StoreTypeOK
  <2>2. doc \in UnpaidDoc
    BY <1>1 DEF UnpaidDoc
  <2>3. unpaidDocs' = [closed EXCEPT ![m.loan] = Append(@, doc)]
    BY <1>4 DEF PartialTransaction, left
  <2> HIDE DEF closed, doc
  <2>4. unpaidDocs' \in [LoanIds -> Seq(UnpaidDoc)]
    BY <1>1, <2>1, <2>2, <2>3
  <2>5. balance' = balance \/ balance' = [balance EXCEPT ![l] = left]
    BY <1>4 DEF PartialTransaction, left
  <2>6. balance' \in [LoanIds -> Nat]
    BY <1>1, <2>5 DEF StoreTypeOK
  <2> QED
    BY <1>3, <1>4, <2>4, <2>6 DEF PartialTransaction, StoreTypeOK
<1>5. CASE FullTransaction(w)
  <2> DEFINE doc == [amount |-> 0, open |-> FALSE, version |-> m.version + 1]
  <2>1. doc \in UnpaidDoc
    BY <1>1 DEF UnpaidDoc
  <2>2. /\ closedDocs' = [closedDocs EXCEPT ![m.loan] = @ + 1]
        /\ unpaidDocs' = [unpaidDocs EXCEPT ![m.loan] = Append(CloseLatest(@), doc)]
        /\ active' = [s \in Subscribers |-> IF active[s] = m.loan THEN NoLoan ELSE active[s]]
        /\ balance' = [balance EXCEPT ![m.loan] = 0]
    BY <1>5 DEF FullTransaction
  <2> HIDE DEF doc
  <2>3. unpaidDocs' \in [LoanIds -> Seq(UnpaidDoc)]
    <3>1. Append(CloseLatest(unpaidDocs[m.loan]), doc) \in Seq(UnpaidDoc)
      BY <1>1, <2>1, CloseLatestType DEF StoreTypeOK
    <3> QED
      BY <1>1, <2>2, <3>1 DEF StoreTypeOK
  <2>4. /\ closedDocs' \in [LoanIds -> Nat] /\ balance' \in [LoanIds -> Nat]
        /\ active' \in [Subscribers -> LoanIds \cup {NoLoan}]
    <3>1. /\ closedDocs \in [LoanIds -> Nat] /\ balance \in [LoanIds -> Nat]
          /\ active \in [Subscribers -> LoanIds \cup {NoLoan}]
      BY DEF StoreTypeOK
    <3>2. closedDocs' \in [LoanIds -> Nat]
      <4>1. PICK k, x : k = m.loan /\ x = closedDocs[m.loan] + 1
        OBVIOUS
      <4>2. x \in Nat
        BY <1>1, <3>1, <4>1
      <4>3. closedDocs' = [closedDocs EXCEPT ![k] = x]
        BY <2>2, <4>1
      <4> QED
        BY <3>1, <4>2, <4>3
    <3>3. balance' \in [LoanIds -> Nat]
      BY <2>2, <3>1
    <3>4. active' \in [Subscribers -> LoanIds \cup {NoLoan}]
      BY <2>2, <3>1
    <3> QED
      BY <3>2, <3>3, <3>4
  <2> QED
    BY <1>3, <1>5, <2>3, <2>4 DEF FullTransaction, StoreTypeOK
<1> QED
  BY <1>4, <1>5 DEF Transaction

\* Replacing an element keeps a sequence's type and length.
LEMMA ReplaceType ==
    ASSUME NEW S, NEW q \in Seq(S), NEW i \in 1..Len(q), NEW x \in S
    PROVE  /\ [q EXCEPT ![i] = x] \in Seq(S)
           /\ Len([q EXCEPT ![i] = x]) = Len(q)
OBVIOUS

\* Setting a flag changes no other part of the list.
LEMMA FlagType ==
    ASSUME collections \in Seq(Collection), NEW i \in 1..Len(collections),
           collections' = [collections EXCEPT ![i].flagged = TRUE]
    PROVE  /\ collections' \in Seq(Collection) /\ Len(collections') = Len(collections)
           /\ collections'[i] = [collections[i] EXCEPT !.flagged = TRUE]
           /\ \A j \in 1..Len(collections) : j # i => collections'[j] = collections[j]
<1> DEFINE entry == [collections[i] EXCEPT !.flagged = TRUE]
<1>1. collections' = [collections EXCEPT ![i] = entry]
  BY Zenon
<1>2. entry \in Collection
  <2>1. collections[i] \in Collection
    OBVIOUS
  <2> QED
    BY <2>1 DEF Collection
<1> HIDE DEF entry
<1>3. /\ collections' \in Seq(Collection) /\ Len(collections') = Len(collections)
  <2> DEFINE q == [collections EXCEPT ![i] = entry]
  <2>1. q \in Seq(Collection)
    BY <1>2, ReplaceType
  <2>2. Len(q) = Len(collections)
    BY <1>2, ReplaceType
  <2>3. collections' = q
    BY <1>1
  <2> HIDE DEF q
  <2> QED
    BY <2>1, <2>2, <2>3
<1>4. DOMAIN collections = 1..Len(collections)
  OBVIOUS
<1>5. /\ collections'[i] = entry
      /\ \A j \in 1..Len(collections) : j # i => collections'[j] = collections[j]
  BY <1>1, <1>4
<1> QED
  BY <1>3, <1>5 DEF entry

\* Every step of a handler keeps the types of the store and the workers.
LEMMA WorkerStepType ==
    ASSUME TypeOK, NEW w \in Workers,
           (\E m \in MsgIds : Deliver(w, m)) \/ Handle(w) \/ WorkerCrash(w)
    PROVE  StoreTypeOK' /\ WorkerTypeOK'
<1> USE DEF TypeOK, Doing
<1> DEFINE r == work[w]
           m == Msg(w)
<1>0. /\ r \in WorkerState
      /\ r.coll \in 0..Len(collections)
      /\ Len(collections) \in Nat /\ Len(topic) \in Nat
      /\ Busy(w) => r.msg \in 1..Len(topic)
  BY DEF WorkerTypeOK, StoreTypeOK
<1>m. ASSUME Busy(w)
      PROVE  /\ r.msg \in MsgIds
             /\ m \in Message /\ m.pesos <= m.unpaid
  BY <1>0, <1>m, StoreAssumption DEF Msg, StoreTypeOK, MsgIds
<1>a. UNCHANGED storeVars => StoreTypeOK'
  BY DEF storeVars, StoreTypeOK
<1>g. ASSUME UNCHANGED <<storeVars, acked, deliveries, debits, reported, archived>>
      PROVE  StoreGrows
  BY <1>0, <1>g DEF StoreGrows, WorkerTypeOK, storeVars
<1>1. CASE \E i \in MsgIds : Deliver(w, i)
  <2>1. PICK i \in MsgIds : Deliver(w, i)
    BY <1>1
  <2> DEFINE q == [IdleWorker EXCEPT !.pc = "decrement", !.msg = i]
  <2>2. /\ i \in 1..Len(topic) /\ deliveries[i] < MaxDeliveries
        /\ deliveries' = [deliveries EXCEPT ![i] = @ + 1]
        /\ work' = [work EXCEPT ![w] = q]
        /\ UNCHANGED <<storeVars, acked, debits, reported, archived>>
    BY <2>1 DEF Deliver
  <2>3. q \in WorkerState /\ q.pc = "decrement" /\ q.msg = i /\ q.coll = 0
    BY DEF IdleWorker, WorkerState, WorkerPcs, Modes, NoMsg, NoLoan, NoCollection
  <2> HIDE DEF q
  <2>4. deliveries' \in [MsgIds -> 0..MaxDeliveries]
    BY <2>2, WorkerAssumption DEF WorkerTypeOK
  <2>5. StoreGrows /\ Len(collections') \in Nat
    BY <1>0, <2>2, <2>4 DEF StoreGrows, WorkerTypeOK, storeVars
  <2>6. q.coll \in 0..Len(collections')
    BY <2>3, <2>5
  <2>7. WorkerTypeOK'
    BY <1>0, <2>2, <2>3, <2>5, <2>6, WorkUpdateType
  <2> QED
    BY <1>a, <2>2, <2>7
<1>2. ASSUME Busy(w), NEW kind \in {"Partial", "Full"}, m.kind = kind, Succeed(w),
             Len(collections') \in Nat, StoreGrows
      PROVE  WorkerTypeOK'
  <2> DEFINE q == SuccessState(w)
  <2>1. /\ q \in WorkerState /\ q.pc \in {"fetch", "commit"} /\ q.msg = r.msg
        /\ q.coll = r.coll
        /\ q.pc = "commit" => q.loan \in LoanIds
    BY <1>0, <1>m, <1>2 DEF SuccessState, WorkerState, WorkerPcs, Modes, Message, NoLoan
  <2> HIDE DEF q
  <2>2. work' = [work EXCEPT ![w] = q]
    BY <1>2 DEF Succeed, q
  <2>3. q.coll \in 0..Len(collections')
    BY <1>0, <1>2, <2>1 DEF StoreGrows
  <2> QED
    BY <1>0, <1>2, <2>1, <2>2, <2>3, WorkUpdateType
<1>3. ASSUME Busy(w), NEW mode \in Modes, Fail(w, mode), Len(collections') \in Nat,
             StoreGrows
      PROVE  WorkerTypeOK'
  <2> DEFINE q == [r EXCEPT !.pc = "record", !.mode = mode]
  <2>1. q \in WorkerState /\ q.pc = "record" /\ q.msg = r.msg /\ q.coll = r.coll
    BY <1>0 DEF WorkerState, WorkerPcs
  <2>2. work' = [work EXCEPT ![w] = q]
    BY <1>3, Zenon DEF Fail
  <2> HIDE DEF q
  <2>3. q.coll \in 0..Len(collections')
    BY <1>0, <1>3, <2>1 DEF StoreGrows
  <2> QED
    BY <1>0, <1>3, <2>1, <2>2, <2>3, WorkUpdateType
<1>4. CASE Decrement(w)
  <2>1. /\ Busy(w) /\ UNCHANGED <<storeVars, acked, deliveries, reported, archived>>
        /\ debits' = debits \/ debits' = [debits EXCEPT ![r.msg] = @ + 1]
        /\ \/ Succeed(w) \/ Continue(w, "usage")
           \/ Fail(w, "unknown") \/ Fail(w, "api") \/ Fail(w, "ignored")
    <3>1. PICK reply \in WalletReplies :
            \/ /\ debits' = debits \/ debits' = [debits EXCEPT ![r.msg] = @ + 1]
               /\ \/ Succeed(w) \/ Continue(w, "usage") \/ Fail(w, "unknown")
            \/ reply \in {"api", "ignored"} /\ UNCHANGED debits /\ Fail(w, reply)
      BY <1>4 DEF Decrement
    <3> QED
      BY <1>4, <3>1 DEF Decrement, Busy
  <2>2. debits' \in [MsgIds -> Nat]
    <3>1. r.msg \in MsgIds /\ debits \in [MsgIds -> Nat]
      BY <1>m, <2>1 DEF WorkerTypeOK
    <3> QED
      BY <2>1, <3>1
  <2>3. StoreGrows /\ Len(collections') \in Nat
    BY <1>0, <2>1, <2>2 DEF StoreGrows, WorkerTypeOK, storeVars
  <2>4. m.kind \in {"Partial", "Full"}
    BY <1>m, <2>1 DEF Message
  <2>5. WorkerTypeOK'
    BY <1>0, <1>2, <1>3, <2>1, <2>3, <2>4, ContinueType DEF WorkerPcs, Modes
  <2> QED
    BY <1>a, <2>1, <2>5
<1>5. CASE CheckUsage(w)
  <2>1. /\ Busy(w) /\ UNCHANGED <<storeVars, acked, deliveries, debits, reported>>
        /\ archived' = archived \/ archived' = archived \cup {r.msg}
        /\ \/ Succeed(w) \/ Continue(w, "ack") \/ Continue(w, "leave")
           \/ Fail(w, "bucket")
    BY <1>5 DEF CheckUsage, Busy
  <2>2. archived' \subseteq 1..Len(topic)
    BY <1>0, <2>1 DEF WorkerTypeOK
  <2>3. StoreGrows /\ Len(collections') \in Nat
    BY <1>0, <2>1, <2>2 DEF StoreGrows, WorkerTypeOK, storeVars
  <2>4. m.kind \in {"Partial", "Full"}
    BY <1>m, <2>1 DEF Message
  <2>5. WorkerTypeOK'
    BY <1>0, <1>2, <1>3, <2>1, <2>3, <2>4, ContinueType DEF WorkerPcs, Modes
  <2> QED
    BY <1>a, <2>1, <2>5
<1>6. CASE FetchLoan(w)
  <2>1. /\ Busy(w) /\ UNCHANGED <<storeVars, acked, deliveries, debits, reported, archived>>
    BY <1>6 DEF FetchLoan, Busy
  <2>2. StoreGrows /\ Len(collections') \in Nat
    BY <1>0, <1>g, <2>1 DEF storeVars
  <2>3. CASE Continue(w, "ack")
    BY <1>0, <1>a, <2>1, <2>2, <2>3, ContinueType DEF WorkerPcs
  <2>4. CASE ~Continue(w, "ack")
    <3> DEFINE l == active[m.sub]
               q == [r EXCEPT !.pc = "commit", !.loan = l]
    <3>1. l # NoLoan /\ work' = [work EXCEPT ![w] = q]
      BY <1>6, <2>4, Zenon DEF FetchLoan
    <3>2. l \in LoanIds
      BY <1>m, <2>1, <3>1 DEF StoreTypeOK, Message
    <3> HIDE DEF l
    <3>3. /\ q \in WorkerState /\ q.pc = "commit" /\ q.msg = r.msg
          /\ q.coll = r.coll /\ q.loan = l
      BY <1>0, <3>2 DEF WorkerState, WorkerPcs
    <3> HIDE DEF q
    <3>4. q.coll \in 0..Len(collections')
      BY <1>0, <2>2, <3>3 DEF StoreGrows
    <3>5. WorkerTypeOK'
      BY <1>0, <2>1, <2>2, <3>1, <3>2, <3>3, <3>4, WorkUpdateType
    <3> QED
      BY <1>a, <2>1, <3>5
  <2> QED
    BY <2>3, <2>4
<1>7. CASE Commit(w)
  <2> DEFINE n == Len(collections) + 1
             q == [r EXCEPT !.pc = "report", !.coll = n]
  <2>1. /\ Busy(w) /\ r.pc = "commit"
        /\ UNCHANGED <<inProgress, loanCount, topic, acked, deliveries, debits,
                       reported, archived>>
    BY <1>7 DEF Commit, Busy
  <2>2. /\ \/ Transaction(w)
           \/ UNCHANGED <<active, balance, unpaidDocs, closedDocs, collections>>
        /\ \/ Transaction(w) /\ work' = [work EXCEPT ![w] = q]
           \/ Continue(w, "ack")
    BY <1>7 DEF Commit
  <2>3. r.loan \in LoanIds /\ m.loan \in LoanIds
    BY <1>m, <2>1 DEF WorkerTypeOK, Message
  <2>4. Transaction(w) => StoreTypeOK' /\ Len(collections') = n
    BY <1>m, <2>1, <2>3, TransactionType
  <2>5. StoreTypeOK'
    BY <2>1, <2>2, <2>4 DEF StoreTypeOK
  <2>6. Len(collections') \in Nat /\ StoreGrows
    BY <1>0, <2>1, <2>2, <2>4 DEF StoreGrows, WorkerTypeOK
  <2>7. CASE Continue(w, "ack")
    BY <1>0, <2>1, <2>5, <2>6, <2>7, ContinueType DEF WorkerPcs
  <2>8. CASE Transaction(w) /\ work' = [work EXCEPT ![w] = q]
    <3>0. n \in Nat
      BY <1>0
    <3> HIDE DEF n
    <3>1. q \in WorkerState /\ q.pc = "report" /\ q.msg = r.msg /\ q.coll = n
      BY <1>0, <3>0 DEF WorkerState, WorkerPcs
    <3> HIDE DEF q
    <3>2. q.coll \in 0..Len(collections')
      BY <1>0, <2>4, <2>8, <3>0, <3>1
    <3>3. WorkerTypeOK'
      BY <1>0, <2>1, <2>6, <2>8, <3>1, <3>2, WorkUpdateType
    <3> QED
      BY <2>5, <3>3
  <2> QED
    BY <2>2, <2>7, <2>8
<1>8. CASE RecordFailure(w)
  <2> DEFINE n == Len(collections) + 1
             pc == AfterRecord(r.mode)
             entry == [msg |-> r.msg, loan |-> m.loan, pesos |-> 0, ok |-> FALSE,
                       flagged |-> FALSE]
             q == [r EXCEPT !.pc = pc, !.coll = n]
  <2>1. /\ Busy(w)
        /\ UNCHANGED <<inProgress, active, balance, unpaidDocs, closedDocs, loanCount,
                       topic, acked, deliveries, debits, reported, archived>>
        /\ \/ collections' = Append(collections, entry) /\ work' = [work EXCEPT ![w] = q]
           \/ collections' = collections /\ Continue(w, pc)
    BY <1>8 DEF RecordFailure, Busy
  <2>2. r.mode \in Modes
    BY <1>0 DEF WorkerState
  <2>3. pc \in WorkerPcs \ {"idle", "commit"}
    BY <2>2, OrderType
  <2>4. entry \in Collection
    BY <1>m, <2>1 DEF Collection, Message
  <2> HIDE DEF entry, pc
  <2>5. /\ collections' \in Seq(Collection)
        /\ Len(collections') \in Nat /\ Len(collections) <= Len(collections')
        /\ collections' = Append(collections, entry) => Len(collections') = n
    <3>1. collections \in Seq(Collection)
      BY DEF StoreTypeOK
    <3>2. CASE collections' = Append(collections, entry)
      BY <1>0, <2>4, <3>1, <3>2
    <3>3. CASE collections' = collections /\ collections' # Append(collections, entry)
      BY <1>0, <3>1, <3>3
    <3> QED
      BY <2>1, <3>2, <3>3
  <2>6. StoreTypeOK'
    BY <2>1, <2>5 DEF StoreTypeOK
  <2>7. StoreGrows
    BY <2>1, <2>5 DEF StoreGrows, WorkerTypeOK
  <2>8. CASE Continue(w, pc)
    BY <1>0, <2>1, <2>3, <2>5, <2>6, <2>7, <2>8, ContinueType
  <2>9. CASE collections' = Append(collections, entry) /\ work' = [work EXCEPT ![w] = q]
    <3>0. n \in Nat
      BY <1>0
    <3> HIDE DEF n
    <3>1. q \in WorkerState /\ q.pc = pc /\ q.msg = r.msg /\ q.coll = n
      BY <1>0, <2>3, <3>0 DEF WorkerState
    <3> HIDE DEF q
    <3>2. q.coll \in 0..Len(collections')
      BY <1>0, <2>5, <2>9, <3>0, <3>1
    <3>3. WorkerTypeOK'
      BY <1>0, <2>1, <2>3, <2>5, <2>7, <2>9, <3>1, <3>2, WorkUpdateType
    <3> QED
      BY <2>6, <3>3
  <2> QED
    BY <2>1, <2>8, <2>9
<1>9. CASE ReportOutcome(w)
  <2>1. /\ Busy(w) /\ UNCHANGED <<storeVars, acked, deliveries, debits, archived>>
        /\ reported' = reported \/ reported' = reported \cup {r.coll}
        /\ \E b \in BOOLEAN : Continue(w, AfterReport(r.mode, b))
    BY <1>9 DEF ReportOutcome, Busy
  <2>2. r.mode \in Modes
    BY <1>0 DEF WorkerState
  <2>3. reported' \subseteq 0..Len(collections)
    BY <1>0, <2>1 DEF WorkerTypeOK
  <2>4. StoreGrows /\ Len(collections') \in Nat
    BY <1>0, <2>1, <2>3 DEF StoreGrows, WorkerTypeOK, storeVars
  <2> QED
    BY <1>0, <1>a, <2>1, <2>2, <2>4, OrderType, ContinueType
<1>10. CASE ReleaseEntry(w)
  <2>1. /\ Busy(w)
        /\ UNCHANGED <<active, balance, unpaidDocs, closedDocs, loanCount, collections,
                       topic, acked, deliveries, debits, reported, archived>>
        /\ RemoveEntry(m.sub) \/ UNCHANGED inProgress
        /\ \E b \in BOOLEAN : Continue(w, AfterRelease(r.mode, b))
    BY <1>10 DEF ReleaseEntry, MaybeRemoveEntry, Busy
  <2>2. r.mode \in Modes /\ m.sub \in Subscribers
    BY <1>0, <1>m, <2>1 DEF WorkerState, Message
  <2>3. StoreTypeOK'
    <3>1. ASSUME NEW s \in Subscribers, RemoveEntry(s)
          PROVE  inProgress' \in [Subscribers -> Nat]
      BY <3>1 DEF RemoveEntry, StoreTypeOK
    <3>2. inProgress' \in [Subscribers -> Nat]
      BY <2>1, <2>2, <3>1 DEF StoreTypeOK
    <3> QED
      BY <2>1, <3>2 DEF StoreTypeOK
  <2>4. StoreGrows /\ Len(collections') \in Nat
    BY <1>0, <2>1 DEF StoreGrows, WorkerTypeOK
  <2> QED
    BY <1>0, <2>1, <2>2, <2>3, <2>4, OrderType, ContinueType
<1>11. CASE FlagReported(w)
  <2>1. /\ Busy(w)
        /\ UNCHANGED <<inProgress, active, balance, unpaidDocs, closedDocs, loanCount,
                       topic, acked, deliveries, debits, reported, archived>>
        /\ \/ collections' = collections
           \/ /\ r.coll # NoCollection
              /\ collections' = [collections EXCEPT ![r.coll].flagged = TRUE]
        /\ Continue(w, AfterFlag(r.mode))
    BY <1>11 DEF FlagReported, Busy
  <2>2. r.mode \in Modes
    BY <1>0 DEF WorkerState
  <2>3. collections' \in Seq(Collection) /\ Len(collections') = Len(collections)
    BY <1>0, <2>1, FlagType DEF StoreTypeOK
  <2>4. StoreTypeOK'
    BY <2>1, <2>3 DEF StoreTypeOK
  <2>5. StoreGrows /\ Len(collections') \in Nat
    BY <1>0, <2>1, <2>3 DEF StoreGrows, WorkerTypeOK
  <2>6. AfterFlag(r.mode) \in WorkerPcs \ {"idle", "commit"}
    BY <2>2, OrderType
  <2> QED
    BY <1>0, <2>1, <2>4, <2>5, <2>6, ContinueType
<1>12. CASE Acknowledge(w)
  <2>1. /\ Busy(w) /\ work' = [work EXCEPT ![w] = IdleWorker]
        /\ acked' = acked \cup {r.msg}
        /\ UNCHANGED <<storeVars, deliveries, debits, reported, archived>>
    BY <1>12 DEF Acknowledge, Busy
  <2>2. acked' \subseteq 1..Len(topic)
    BY <1>0, <2>1 DEF WorkerTypeOK
  <2>3. StoreGrows /\ Len(collections') \in Nat
    BY <1>0, <2>1, <2>2 DEF StoreGrows, WorkerTypeOK, storeVars
  <2> QED
    BY <1>0, <1>a, <2>1, <2>3, IdleType
<1>13. CASE Leave(w) \/ WorkerCrash(w)
  <2>1. /\ work' = [work EXCEPT ![w] = IdleWorker]
        /\ UNCHANGED <<storeVars, acked, deliveries, debits, reported, archived>>
    BY <1>13 DEF Leave, WorkerCrash
  <2>2. StoreGrows /\ Len(collections') \in Nat
    BY <1>0, <1>g, <2>1 DEF storeVars
  <2> QED
    BY <1>0, <1>a, <2>1, <2>2, IdleType
<1> QED
  BY <1>1, <1>4, <1>5, <1>6, <1>7, <1>8, <1>9, <1>10, <1>11, <1>12, <1>13
  DEF Handle

\* The initial state has the types.
LEMMA InitType == Init => TypeOK
<1> SUFFICES ASSUME Init PROVE TypeOK
  OBVIOUS
<1>1. Len(topic) = 0 /\ Len(collections) = 0
  BY DEF Init, StoreInit
<1>2. StoreTypeOK
  BY <1>1, StoreAssumption DEF Init, StoreInit, StoreTypeOK, NoLoan
<1>3. ConsumerTypeOK
  BY StoreAssumption DEF Init, ConsumerInit, ConsumerTypeOK, IdleConsumer,
     ConsumerState, ConsumerPcs, NoLoan
<1>4. WorkerTypeOK
  BY <1>1, WorkerAssumption DEF Init, WorkerInit, WorkerTypeOK, IdleWorker, WorkerState,
     WorkerPcs, Modes, Busy, NoMsg, NoLoan, NoCollection
<1> QED
  BY <1>2, <1>3, <1>4 DEF TypeOK

\* Every step keeps the types.
LEMMA NextType == TypeOK /\ [Next]_vars => TypeOK'
<1> SUFFICES ASSUME TypeOK, [Next]_vars PROVE TypeOK'
  OBVIOUS
<1>1. CASE Grant
  BY <1>1, GrantType
<1>2. CASE Consumer
  <2>1. PICK c \in Consumers : TakeEvent(c) \/ Proceed(c) \/ ConsumerCrash(c)
    BY <1>2 DEF Consumer, ConsumerNext
  <2>2. StoreTypeOK' /\ ConsumerTypeOK'
    BY <2>1, ConsumerStepType
  <2>3. WorkerTypeOK'
    BY <1>2, <2>1, ConsumerKeepsWorkerType DEF Consumer
  <2> QED
    BY <2>2, <2>3 DEF TypeOK
<1>3. CASE Worker
  <2>1. PICK w \in Workers :
           (\E m \in MsgIds : Deliver(w, m)) \/ Handle(w) \/ WorkerCrash(w)
    BY <1>3 DEF Worker, WorkerNext
  <2>2. StoreTypeOK' /\ WorkerTypeOK'
    BY <2>1, WorkerStepType
  <2>3. ConsumerTypeOK'
    BY <1>3 DEF Worker, consumerVars, TypeOK, ConsumerTypeOK
  <2> QED
    BY <2>2, <2>3 DEF TypeOK
<1>4. CASE UNCHANGED vars
  BY <1>4 DEF vars, storeVars, consumerVars, workerVars, TypeOK, StoreTypeOK,
     ConsumerTypeOK, WorkerTypeOK, Busy
<1> QED
  BY <1>1, <1>2, <1>3, <1>4 DEF Next

\* Whatever fails and however the processes interleave, every document, message
\* and handler has its type; in particular no amount becomes negative: a message
\* never asks for more pesos than it says are unpaid, and a handler never
\* refers to a message or a collection that does not exist.
THEOREM TypeCorrect == Spec => []TypeOK
<1> QED
  BY InitType, NextType, PTL DEF Spec

=============================================================================
