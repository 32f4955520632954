------------------------ MODULE PipelineSafety_proofs ------------------------
(***************************************************************************)
(* The safety properties of CollectionPipeline that hold whatever fails,   *)
(* for every value of the constants.                                       *)
(***************************************************************************)
EXTENDS CollectionPipeline_proofs

WorkerStep(w) == (\E m \in MsgIds : Deliver(w, m)) \/ Handle(w) \/ WorkerCrash(w)
ConsumerStep(c) == TakeEvent(c) \/ Proceed(c) \/ ConsumerCrash(c)

-----------------------------------------------------------------------------
(* What a step leaves alone. *)

\* A consumer changes neither loans nor collections, and publishes at most the
\* message its state describes.
LEMMA ConsumerFrame ==
    ASSUME NEW c \in Consumers, ConsumerStep(c)
    PROVE  /\ UNCHANGED <<active, unpaidDocs, closedDocs, loanCount, collections>>
           /\ \/ topic' = topic
              \/ At(c, "publish") /\ topic' = Append(topic, Snapshot(c))
  BY DEF ConsumerStep, TakeEvent, Proceed, ConsumerCrash, SkipEvent, CheckEntry,
         CreateEntry, EvaluateRules, UpdateOldLoan, ReadLoan, ReadUnpaid, FindUnpaid,
         BackfillUnpaid,
         SkipCollection, PublishMessage, Cleanup, storeVars

\* Moving on changes nothing but the step a handler is at.
LEMMA ContinueFacts ==
    ASSUME WorkerTypeOK, NEW w \in Workers, NEW pc, Continue(w, pc)
    PROVE  /\ work'[w].pc = pc /\ work'[w].msg = work[w].msg
           /\ work'[w].mode = work[w].mode /\ work'[w].loan = work[w].loan
           /\ work'[w].coll = work[w].coll
           /\ \A v \in Workers \ {w} : work'[v] = work[v]
<1>1. work[w] \in WorkerState /\ work \in [Workers -> WorkerState]
  BY DEF WorkerTypeOK
<1>2. work' = [work EXCEPT ![w] = [work[w] EXCEPT !.pc = pc]]
  BY Zenon DEF Continue
<1> QED
  BY <1>1, <1>2 DEF WorkerState

\* The same for the updates that set other fields.
LEMMA SucceedFacts ==
    ASSUME WorkerTypeOK, NEW w \in Workers, Succeed(w)
    PROVE  /\ work'[w].pc \in {"fetch", "commit"}
           /\ work'[w].msg = work[w].msg /\ work'[w].mode = "success"
           /\ work'[w].loan = NoLoan \/ work'[w].loan = Msg(w).loan
           /\ \A v \in Workers \ {w} : work'[v] = work[v]
<1>1. work[w] \in WorkerState /\ work \in [Workers -> WorkerState]
  BY DEF WorkerTypeOK
<1>2. work' = [work EXCEPT ![w] = SuccessState(w)]
  BY DEF Succeed
<1> QED
  BY <1>1, <1>2 DEF WorkerState, SuccessState

\* An error handler starts by recording the failure, with the same message.
LEMMA FailFacts ==
    ASSUME WorkerTypeOK, NEW w \in Workers, NEW mode, Fail(w, mode)
    PROVE  /\ work'[w].pc = "record" /\ work'[w].msg = work[w].msg
           /\ work'[w].mode = mode
           /\ \A v \in Workers \ {w} : work'[v] = work[v]
<1>1. work[w] \in WorkerState /\ work \in [Workers -> WorkerState]
  BY DEF WorkerTypeOK
<1>2. work' = [work EXCEPT ![w] = [work[w] EXCEPT !.pc = "record", !.mode = mode]]
  BY Zenon DEF Fail
<1> QED
  BY <1>1, <1>2 DEF WorkerState

\* A commit is followed by the report or by the acknowledgement.
LEMMA CommitFacts ==
    ASSUME WorkerTypeOK, NEW w \in Workers, Commit(w)
    PROVE  /\ work'[w].pc \in {"report", "ack"} /\ work'[w].msg = work[w].msg
           /\ work'[w].mode = work[w].mode
           /\ \A v \in Workers \ {w} : work'[v] = work[v]
<1>1. work[w] \in WorkerState /\ work \in [Workers -> WorkerState]
  BY DEF WorkerTypeOK
<1> DEFINE q == [work[w] EXCEPT !.pc = "report", !.coll = Len(collections) + 1]
<1>2. work' = [work EXCEPT ![w] = q] \/ Continue(w, "ack")
  BY Zenon DEF Commit
<1>3. CASE work' = [work EXCEPT ![w] = q]
  BY <1>1, <1>3 DEF WorkerState
<1> QED
  BY <1>2, <1>3, ContinueFacts

\* What follows the record of a failure depends on the mode alone.
LEMMA RecordFacts ==
    ASSUME WorkerTypeOK, NEW w \in Workers, RecordFailure(w)
    PROVE  /\ work'[w].pc = AfterRecord(work[w].mode)
           /\ work'[w].msg = work[w].msg /\ work'[w].mode = work[w].mode
           /\ \A v \in Workers \ {w} : work'[v] = work[v]
<1>1. work[w] \in WorkerState /\ work \in [Workers -> WorkerState]
  BY DEF WorkerTypeOK
<1> DEFINE pc == AfterRecord(work[w].mode)
           q  == [work[w] EXCEPT !.pc = pc, !.coll = Len(collections) + 1]
<1>2. work' = [work EXCEPT ![w] = q] \/ Continue(w, pc)
  BY Zenon DEF RecordFailure
<1> HIDE DEF pc
<1>3. CASE work' = [work EXCEPT ![w] = q]
  BY <1>1, <1>3 DEF WorkerState, pc
<1> QED
  BY <1>2, <1>3, ContinueFacts DEF pc

\* A loan that was read is committed; without one the handler gives up.
LEMMA FetchFacts ==
    ASSUME WorkerTypeOK, NEW w \in Workers, FetchLoan(w)
    PROVE  /\ work'[w].pc \in {"commit", "ack"} /\ work'[w].msg = work[w].msg
           /\ work'[w].mode = work[w].mode
           /\ work'[w].pc = "commit" => work'[w].loan = active[Msg(w).sub]
           /\ \A v \in Workers \ {w} : work'[v] = work[v]
<1>1. work[w] \in WorkerState /\ work \in [Workers -> WorkerState]
  BY DEF WorkerTypeOK
<1> DEFINE q == [work[w] EXCEPT !.pc = "commit", !.loan = active[Msg(w).sub]]
<1>2. work' = [work EXCEPT ![w] = q] \/ Continue(w, "ack")
  BY Zenon DEF FetchLoan
<1>3. CASE work' = [work EXCEPT ![w] = q]
  BY <1>1, <1>3 DEF WorkerState
<1> QED
  BY <1>2, <1>3, ContinueFacts

\* Deliver, Acknowledge, Leave and WorkerCrash replace the whole state.
LEMMA IdleFacts ==
    ASSUME WorkerTypeOK, NEW w \in Workers, work' = [work EXCEPT ![w] = IdleWorker]
    PROVE  work'[w] = IdleWorker /\ work'[w].pc = "idle" /\ \A v \in Workers \ {w} : work'[v] = work[v]
  BY DEF WorkerTypeOK, IdleWorker

\* A delivered message is debited first, and no other handler moves.
LEMMA DeliverFacts ==
    ASSUME WorkerTypeOK, NEW w \in Workers, NEW m \in MsgIds, Deliver(w, m)
    PROVE  /\ work'[w].pc = "decrement" /\ work'[w].msg = m /\ work'[w].mode = "none"
           /\ \A v \in Workers \ {w} : work'[v] = work[v]
<1> DEFINE q == [IdleWorker EXCEPT !.pc = "decrement", !.msg = m]
<1>1. work' = [work EXCEPT ![w] = q]
  BY DEF Deliver
<1>2. q.pc = "decrement" /\ q.msg = m /\ q.mode = "none"
  BY DEF IdleWorker
<1> HIDE DEF q
<1> QED
  BY <1>1, <1>2 DEF WorkerTypeOK

\* What a longer list of collections contains.
LEMMA AppendFacts ==
    ASSUME collections \in Seq(Collection), NEW e, collections' = Append(collections, e)
    PROVE  \A i \in DOMAIN collections' :
              \/ i \in DOMAIN collections /\ collections'[i] = collections[i]
              \/ i = Len(collections) + 1 /\ collections'[i] = e
<1>1. DOMAIN collections = 1..Len(collections) /\ Len(collections) \in Nat
  OBVIOUS
<1>2. DOMAIN collections' = 1..Len(collections) + 1
  OBVIOUS
<1> QED
  BY <1>1, <1>2

-----------------------------------------------------------------------------
(* FlagTruth: publish first, flag second. *)

\* A handler about to set the flag has the outcome published.
AboutToFlag(w) == work[w].pc = "flag" \/ (work[w].pc = "release" /\ work[w].mode = "success")
FlagInv == /\ FlagTruth
           /\ \A w \in Workers : AboutToFlag(w) => work[w].coll \in reported

\* A step of one handler, or of nobody, that adds no collection: only the
\* handler itself has to be looked at.
LEMMA FlagFrame ==
    ASSUME FlagInv, collections' = collections, reported \subseteq reported',
           \A w \in Workers :
              work'[w] = work[w] \/ (AboutToFlag(w)' => work'[w].coll \in reported')
    PROVE  FlagInv'
<1>1. FlagTruth'
  BY DEF FlagInv, FlagTruth
<1>2. ASSUME NEW w \in Workers, AboutToFlag(w)' PROVE work'[w].coll \in reported'
  BY <1>2 DEF FlagInv, AboutToFlag
<1> QED
  BY <1>1, <1>2 DEF FlagInv

\* A new collection does not carry the flag.
LEMMA FlagAppend ==
    ASSUME FlagInv, collections \in Seq(Collection), NEW e, e.flagged = FALSE,
           collections' = Append(collections, e), reported' = reported,
           \A w \in Workers :
              work'[w] = work[w] \/ ~AboutToFlag(w)'
    PROVE  FlagInv'
<1>1. FlagTruth'
  BY AppendFacts DEF FlagInv, FlagTruth
<1>2. ASSUME NEW w \in Workers, AboutToFlag(w)' PROVE work'[w].coll \in reported'
  BY <1>2 DEF FlagInv, AboutToFlag
<1> QED
  BY <1>1, <1>2 DEF FlagInv

\* Every step of a handler keeps the flags true.
LEMMA FlagStep ==
    ASSUME TypeOK, FlagInv, NEW w \in Workers, WorkerStep(w)
    PROVE  FlagInv'
<1> DEFINE r == work[w]
<1>0. /\ WorkerTypeOK /\ collections \in Seq(Collection)
      /\ r.mode \in Modes /\ r.coll \in 0..Len(collections)
      /\ Len(collections) \in Nat
  BY DEF TypeOK, StoreTypeOK, WorkerTypeOK, WorkerState
<1>f. ASSUME UNCHANGED <<collections, reported>>, ~AboutToFlag(w)',
             \A v \in Workers \ {w} : work'[v] = work[v]
      PROVE  FlagInv'
  BY <1>f, FlagFrame
<1>1. CASE \E m \in MsgIds : Deliver(w, m)
  BY <1>0, <1>1, <1>f, DeliverFacts DEF Deliver, storeVars, AboutToFlag
<1>2. CASE Acknowledge(w) \/ Leave(w) \/ WorkerCrash(w)
  BY <1>0, <1>2, <1>f, IdleFacts DEF Acknowledge, Leave, WorkerCrash, storeVars, AboutToFlag
<1>3. CASE Decrement(w)
  <2>1. /\ UNCHANGED <<collections, reported>>
        /\ Succeed(w) \/ Continue(w, "usage") \/ \E mode : Fail(w, mode)
    BY <1>3 DEF Decrement, storeVars
  <2> QED
    BY <1>0, <2>1, <1>f, SucceedFacts, ContinueFacts, FailFacts DEF AboutToFlag
<1>4. CASE CheckUsage(w)
  <2>1. /\ UNCHANGED <<collections, reported>>
        /\ \/ Succeed(w) \/ Continue(w, "ack") \/ Continue(w, "leave")
           \/ \E mode : Fail(w, mode)
    BY <1>4 DEF CheckUsage, storeVars
  <2> QED
    BY <1>0, <2>1, <1>f, SucceedFacts, ContinueFacts, FailFacts DEF AboutToFlag
<1>5. CASE FetchLoan(w)
  <2>1. UNCHANGED <<collections, reported>>
    BY <1>5 DEF FetchLoan, storeVars
  <2> QED
    BY <1>0, <1>5, <2>1, <1>f, FetchFacts DEF AboutToFlag
<1>6. CASE Commit(w)
  <2>1. /\ reported' = reported
        /\ \/ collections' = collections
           \/ collections' = Append(collections, Collected(w))
    BY <1>6 DEF Commit, Transaction, PartialTransaction, FullTransaction
  <2>2. Collected(w).flagged = FALSE
    BY DEF Collected
  <2>3. ~AboutToFlag(w)' /\ \A v \in Workers \ {w} : work'[v] = work[v]
    BY <1>0, <1>6, CommitFacts DEF AboutToFlag
  <2> QED
    BY <1>0, <1>f, <2>1, <2>2, <2>3, FlagAppend
<1>7. CASE RecordFailure(w)
  <2> DEFINE e == [msg |-> r.msg, loan |-> Msg(w).loan, pesos |-> 0, ok |-> FALSE,
                   flagged |-> FALSE]
  <2>1. /\ reported' = reported
        /\ collections' = collections \/ collections' = Append(collections, e)
    BY <1>7 DEF RecordFailure
  <2>2. e.flagged = FALSE
    OBVIOUS
  <2> HIDE DEF e
  <2>3. ~AboutToFlag(w)' /\ \A v \in Workers \ {w} : work'[v] = work[v]
    BY <1>0, <1>7, RecordFacts DEF AboutToFlag, AfterRecord
  <2> QED
    BY <1>0, <1>f, <2>1, <2>2, <2>3, FlagAppend
<1>8. CASE ReportOutcome(w)
  <2>1. CASE Continue(w, AfterReport(r.mode, TRUE)) /\ reported' = reported \cup {r.coll}
    <3>1. collections' = collections
      BY <1>8 DEF ReportOutcome, storeVars
    <3>2. work'[w].coll \in reported' /\ \A v \in Workers \ {w} : work'[v] = work[v]
      BY <1>0, <2>1, ContinueFacts
    <3> QED
      BY <2>1, <3>1, <3>2, FlagFrame
  <2>2. CASE /\ Continue(w, AfterReport(r.mode, FALSE))
             /\ reported' = reported \/ reported' = reported \cup {r.coll}
    <3>1. collections' = collections
      BY <1>8 DEF ReportOutcome, storeVars
    <3>2. /\ work'[w].pc = AfterReport(r.mode, FALSE) /\ work'[w].mode = r.mode
          /\ \A v \in Workers \ {w} : work'[v] = work[v]
      BY <1>0, <2>2, ContinueFacts
    <3>3. ~AboutToFlag(w)'
      BY <1>0, <3>2 DEF AboutToFlag, AfterReport, Modes
    <3> QED
      BY <2>2, <3>1, <3>2, <3>3, FlagFrame
  <2> QED
    BY <1>8, <2>1, <2>2 DEF ReportOutcome
<1>9. CASE ReleaseEntry(w)
  <2>1. UNCHANGED <<collections, reported>> /\ r.pc = "release"
    BY <1>9 DEF ReleaseEntry, Doing
  <2>2. PICK b \in BOOLEAN : Continue(w, AfterRelease(r.mode, b))
    BY <1>9 DEF ReleaseEntry
  <2>3. /\ work'[w].pc = AfterRelease(r.mode, b) /\ work'[w].mode = r.mode
        /\ work'[w].coll = r.coll
        /\ \A v \in Workers \ {w} : work'[v] = work[v]
    BY <1>0, <2>2, ContinueFacts
  <2>4. CASE r.mode = "success"
    <3>1. r.coll \in reported
      BY <2>1, <2>4 DEF FlagInv, AboutToFlag
    <3> QED
      BY <2>1, <2>3, <3>1, FlagFrame
  <2>5. CASE r.mode # "success"
    <3>1. ~AboutToFlag(w)'
      BY <1>0, <2>3, <2>5 DEF AboutToFlag, AfterRelease, Modes
    <3> QED
      BY <1>f, <2>1, <2>3, <3>1
  <2> QED
    BY <2>4, <2>5
<1>10. CASE FlagReported(w)
  <2>1. /\ r.coll \in reported /\ reported' = reported
        /\ \/ collections' = collections
           \/ /\ r.coll # NoCollection
              /\ collections' = [collections EXCEPT ![r.coll].flagged = TRUE]
    BY <1>10 DEF FlagReported, Doing, FlagInv, AboutToFlag
  <2>2. /\ work'[w].coll = r.coll
        /\ \A v \in Workers \ {w} : work'[v] = work[v]
    BY <1>0, <1>10, ContinueFacts DEF FlagReported
  <2>3. FlagTruth'
    <3>1. CASE collections' = collections
      BY <2>1, <3>1 DEF FlagInv, FlagTruth
    <3>2. CASE r.coll # NoCollection /\ collections' = [collections EXCEPT ![r.coll].flagged = TRUE]
      <4>1. r.coll \in 1..Len(collections)
        BY <1>0, <3>2 DEF NoCollection
      <4>2. /\ Len(collections') = Len(collections) /\ collections' \in Seq(Collection)
            /\ \A j \in 1..Len(collections) : j # r.coll => collections'[j] = collections[j]
        BY <1>0, <3>2, <4>1, FlagType
      <4>3. DOMAIN collections' = 1..Len(collections) /\ DOMAIN collections = 1..Len(collections)
        BY <1>0, <4>2
      <4> QED
        BY <2>1, <4>2, <4>3 DEF FlagInv, FlagTruth
    <3> QED
      BY <2>1, <3>1, <3>2
  <2>4. ASSUME NEW v \in Workers, AboutToFlag(v)' PROVE work'[v].coll \in reported'
    BY <2>1, <2>2, <2>4 DEF FlagInv, AboutToFlag
  <2> QED
    BY <2>3, <2>4 DEF FlagInv
<1> QED
  BY <1>1, <1>2, <1>3, <1>4, <1>5, <1>6, <1>7, <1>8, <1>9, <1>10 DEF WorkerStep, Handle

\* The flag publishedToKafka tells the truth: whatever fails and wherever a
\* handler stops, a collection that carries it has its outcome on the output
\* topic, so the retry service never passes over an unreported one.
THEOREM FlagsAreTrue == Spec => []FlagTruth
<1>1. Init => FlagInv
  BY DEF Init, StoreInit, WorkerInit, FlagInv, FlagTruth, AboutToFlag, IdleWorker
<1>2. TypeOK /\ FlagInv /\ [Next]_vars => FlagInv'
  <2> SUFFICES ASSUME TypeOK, FlagInv, [Next]_vars PROVE FlagInv'
    OBVIOUS
  <2>1. CASE Grant
    BY <2>1, FlagFrame DEF Grant, AvailLoan, workerVars
  <2>2. CASE Consumer
    <3>1. collections' = collections /\ UNCHANGED workerVars
      BY <2>2, ConsumerFrame DEF Consumer, ConsumerNext, ConsumerStep
    <3> QED
      BY <3>1, FlagFrame DEF workerVars
  <2>3. CASE Worker
    BY <2>3, FlagStep DEF Worker, WorkerNext, WorkerStep
  <2>4. CASE UNCHANGED vars
    BY <2>4, FlagFrame DEF vars, storeVars, workerVars
  <2> QED
    BY <2>1, <2>2, <2>3, <2>4 DEF Next
<1>3. FlagInv => FlagTruth
  BY DEF FlagInv
<1> QED
  BY <1>1, <1>2, <1>3, TypeCorrect, PTL DEF Spec

-----------------------------------------------------------------------------
(* BookedIsDebited: no collection without a debit. *)

\* A handler on the success path has seen the debit of its message.
BookedInv ==
    /\ BookedIsDebited
    /\ \A w \in Workers : work[w].pc \in {"fetch", "commit"} => debits[work[w].msg] > 0

\* A step that adds no collection and takes no handler to the success path.
LEMMA BookedFrame ==
    ASSUME BookedInv, collections' = collections, debits' = debits,
           \A w \in Workers :
              \/ work'[w] = work[w]
              \/ work'[w].pc \in {"fetch", "commit"} => debits[work'[w].msg] > 0
    PROVE  BookedInv'
  BY DEF BookedInv, BookedIsDebited

\* The number of debits of a message never goes down.
LEMMA DebitFacts ==
    ASSUME WorkerTypeOK, NEW w \in Workers, work[w].msg \in MsgIds, Decrement(w)
    PROVE  /\ \A m \in MsgIds : debits'[m] >= debits[m]
           /\ \/ Succeed(w) /\ debits'[work[w].msg] > 0
              \/ Continue(w, "usage") \/ \E mode : Fail(w, mode)
<1> DEFINE m == work[w].msg
<1>1. debits \in [MsgIds -> Nat]
  BY DEF WorkerTypeOK
<1>2. /\ debits' = debits \/ debits' = [debits EXCEPT ![m] = @ + 1]
      /\ \/ Succeed(w) /\ debits' = [debits EXCEPT ![m] = @ + 1]
         \/ Continue(w, "usage") \/ \E mode : Fail(w, mode)
  BY DEF Decrement
<1> HIDE DEF m
<1>3. m \in MsgIds
  BY DEF m
<1>4. debits' = [debits EXCEPT ![m] = @ + 1] =>
         debits'[m] > 0 /\ \A n \in MsgIds : debits'[n] >= debits[n]
  BY <1>1, <1>3
<1>5. debits' = debits => \A n \in MsgIds : debits'[n] >= debits[n]
  BY <1>1
<1> QED
  BY <1>2, <1>4, <1>5 DEF m

\* Every step of a handler keeps collections covered by debits.
LEMMA BookedStep ==
    ASSUME "usage" \notin Faults, TypeOK, TypeOK', BookedInv,
           NEW w \in Workers, WorkerStep(w)
    PROVE  BookedInv'
<1> DEFINE r == work[w]
<1>0. /\ WorkerTypeOK /\ collections \in Seq(Collection)
      /\ debits \in [MsgIds -> Nat] /\ debits' \in [MsgIds -> Nat]
      /\ \A v \in Workers : Busy(v) => work[v].msg \in MsgIds
  <2>1. \A i \in 1..Len(topic) : i \in MsgIds
    BY StoreAssumption DEF TypeOK, StoreTypeOK, MsgIds
  <2> QED
    BY <2>1 DEF TypeOK, StoreTypeOK, WorkerTypeOK
<1>f. ASSUME UNCHANGED <<collections, debits>>,
             work'[w].pc \notin {"fetch", "commit"} \/ debits[work'[w].msg] > 0,
             \A v \in Workers \ {w} : work'[v] = work[v]
      PROVE  BookedInv'
  BY <1>f, BookedFrame
<1>1. CASE \E m \in MsgIds : Deliver(w, m)
  BY <1>0, <1>1, <1>f, DeliverFacts DEF Deliver, storeVars
<1>2. CASE Acknowledge(w) \/ Leave(w) \/ WorkerCrash(w)
  BY <1>0, <1>2, <1>f, IdleFacts DEF Acknowledge, Leave, WorkerCrash, storeVars
<1>3. CASE Decrement(w)
  <2>1. collections' = collections /\ r.msg \in MsgIds
    BY <1>0, <1>3 DEF Decrement, storeVars, Doing, Busy
  <2>2. \A n \in MsgIds : debits'[n] >= debits[n]
    BY <1>0, <1>3, <2>1, DebitFacts
  <2>3. BookedIsDebited'
    <3>1. \A i \in DOMAIN collections : collections[i].msg \in MsgIds
      <4>1. \A i \in DOMAIN collections : collections[i] \in Collection
        BY <1>0
      <4> QED
        BY <4>1 DEF Collection
    <3>2. \A i \in DOMAIN collections : collections[i].ok => debits[collections[i].msg] > 0
      BY DEF BookedInv, BookedIsDebited
    <3>3. \A n \in MsgIds : debits[n] > 0 => debits'[n] > 0
      BY <1>0, <2>2
    <3> QED
      BY <2>1, <3>1, <3>2, <3>3 DEF BookedIsDebited
  <2>4. ASSUME NEW v \in Workers, v # w, work'[v].pc \in {"fetch", "commit"}
        PROVE  debits'[work'[v].msg] > 0
    <3>1. work'[v] = work[v]
      BY <1>0, <1>3, <2>1, <2>4, DebitFacts, SucceedFacts, ContinueFacts, FailFacts
    <3>2. work[v].msg \in MsgIds
      BY <1>0, <2>4, <3>1 DEF Busy
    <3>3. debits[work[v].msg] > 0
      BY <2>4, <3>1 DEF BookedInv
    <3> QED
      BY <1>0, <2>2, <3>1, <3>2, <3>3
  <2>5. ASSUME work'[w].pc \in {"fetch", "commit"} PROVE debits'[work'[w].msg] > 0
    <3>1. Succeed(w) /\ debits'[r.msg] > 0
      BY <1>0, <1>3, <2>1, <2>5, DebitFacts, ContinueFacts, FailFacts
    <3> QED
      BY <1>0, <3>1, SucceedFacts
  <2> QED
    BY <2>3, <2>4, <2>5 DEF BookedInv
<1>4. CASE CheckUsage(w)
  <2>1. /\ UNCHANGED <<collections, debits>> /\ Busy(w)
        /\ \/ Succeed(w) /\ DebitSeen(r.msg)
           \/ Continue(w, "ack") \/ Continue(w, "leave") \/ \E mode : Fail(w, mode)
    BY <1>4 DEF CheckUsage, storeVars, Doing, Busy
  <2>2. CASE Succeed(w) /\ DebitSeen(r.msg)
    <3>1. debits[r.msg] > 0
      BY <2>2 DEF DebitSeen, MayFail
    <3> QED
      BY <1>0, <1>f, <2>1, <2>2, <3>1, SucceedFacts
  <2> QED
    BY <1>0, <1>f, <2>1, <2>2, ContinueFacts, FailFacts
<1>5. CASE FetchLoan(w)
  <2>1. /\ UNCHANGED <<collections, debits>> /\ debits[r.msg] > 0
    BY <1>5 DEF FetchLoan, storeVars, Doing, BookedInv
  <2> QED
    BY <1>0, <1>5, <1>f, <2>1, FetchFacts
<1>6. CASE Commit(w)
  <2>1. /\ debits' = debits /\ debits[r.msg] > 0
        /\ \/ collections' = collections
           \/ collections' = Append(collections, Collected(w))
    BY <1>6 DEF Commit, Transaction, PartialTransaction, FullTransaction, Doing, BookedInv
  <2>2. Collected(w).msg = r.msg
    BY DEF Collected
  <2>3. BookedIsDebited'
    <3>1. CASE collections' = collections
      BY <2>1, <3>1 DEF BookedInv, BookedIsDebited
    <3>2. CASE collections' = Append(collections, Collected(w))
      BY <1>0, <2>1, <2>2, <3>2, AppendFacts DEF BookedInv, BookedIsDebited
    <3> QED
      BY <2>1, <3>1, <3>2
  <2>4. \A v \in Workers : work'[v] = work[v] \/ work'[v].pc \notin {"fetch", "commit"}
    BY <1>0, <1>6, CommitFacts
  <2> QED
    BY <2>1, <2>3, <2>4 DEF BookedInv
<1>7. CASE RecordFailure(w)
  <2> DEFINE e == [msg |-> r.msg, loan |-> Msg(w).loan, pesos |-> 0, ok |-> FALSE,
                   flagged |-> FALSE]
  <2>1. /\ debits' = debits
        /\ collections' = collections \/ collections' = Append(collections, e)
    BY <1>7 DEF RecordFailure
  <2>2. ~e.ok
    OBVIOUS
  <2> HIDE DEF e
  <2>3. BookedIsDebited'
    <3>1. CASE collections' = collections
      BY <2>1, <3>1 DEF BookedInv, BookedIsDebited
    <3>2. CASE collections' = Append(collections, e)
      BY <1>0, <2>1, <2>2, <3>2, AppendFacts DEF BookedInv, BookedIsDebited
    <3> QED
      BY <2>1, <3>1, <3>2
  <2>4. \A v \in Workers : work'[v] = work[v] \/ work'[v].pc \notin {"fetch", "commit"}
    BY <1>0, <1>7, RecordFacts DEF AfterRecord
  <2> QED
    BY <2>1, <2>3, <2>4 DEF BookedInv
<1>8. CASE ReportOutcome(w)
  <2>1. UNCHANGED <<collections, debits>> /\ r.mode \in Modes
    BY <1>0, <1>8 DEF ReportOutcome, storeVars, WorkerTypeOK, WorkerState
  <2>2. PICK b \in BOOLEAN : Continue(w, AfterReport(r.mode, b))
    BY <1>8 DEF ReportOutcome
  <2>3. AfterReport(r.mode, b) \notin {"fetch", "commit"}
    BY <2>1 DEF AfterReport, Modes
  <2> QED
    BY <1>0, <1>f, <2>1, <2>2, <2>3, ContinueFacts
<1>9. CASE ReleaseEntry(w)
  <2>1. UNCHANGED <<collections, debits>> /\ r.mode \in Modes
    BY <1>0, <1>9 DEF ReleaseEntry, WorkerTypeOK, WorkerState
  <2>2. PICK b \in BOOLEAN : Continue(w, AfterRelease(r.mode, b))
    BY <1>9 DEF ReleaseEntry
  <2>3. AfterRelease(r.mode, b) \notin {"fetch", "commit"}
    BY <2>1 DEF AfterRelease, Modes
  <2> QED
    BY <1>0, <1>f, <2>1, <2>2, <2>3, ContinueFacts
<1>10. CASE FlagReported(w)
  <2>1. /\ debits' = debits /\ r.coll \in 0..Len(collections) /\ r.mode \in Modes
        /\ \/ collections' = collections
           \/ /\ r.coll # NoCollection
              /\ collections' = [collections EXCEPT ![r.coll].flagged = TRUE]
        /\ Continue(w, AfterFlag(r.mode))
    BY <1>0, <1>10 DEF FlagReported, WorkerTypeOK, WorkerState
  <2>2. AfterFlag(r.mode) \notin {"fetch", "commit"}
    BY <2>1 DEF AfterFlag, Modes
  <2>3. \A v \in Workers : work'[v] = work[v] \/ work'[v].pc \notin {"fetch", "commit"}
    BY <1>0, <2>1, <2>2, ContinueFacts
  <2>4. BookedIsDebited'
    <3>1. CASE collections' = collections
      BY <2>1, <3>1 DEF BookedInv, BookedIsDebited
    <3>2. CASE r.coll # NoCollection /\ collections' = [collections EXCEPT ![r.coll].flagged = TRUE]
      <4>1. r.coll \in 1..Len(collections)
        BY <1>0, <2>1, <3>2 DEF NoCollection
      <4>2. /\ Len(collections') = Len(collections) /\ collections' \in Seq(Collection)
            /\ collections'[r.coll] = [collections[r.coll] EXCEPT !.flagged = TRUE]
            /\ \A j \in 1..Len(collections) : j # r.coll => collections'[j] = collections[j]
        BY <1>0, <3>2, <4>1, FlagType
      <4>3. DOMAIN collections' = 1..Len(collections) /\ DOMAIN collections = 1..Len(collections)
        BY <1>0, <4>2
      <4>4. collections[r.coll] \in Collection
        BY <1>0, <4>1
      <4>5. \A j \in 1..Len(collections) : /\ collections'[j].ok = collections[j].ok
                                           /\ collections'[j].msg = collections[j].msg
        BY <4>2, <4>4 DEF Collection
      <4> QED
        BY <2>1, <4>3, <4>5 DEF BookedInv, BookedIsDebited
    <3> QED
      BY <2>1, <3>1, <3>2
  <2> QED
    BY <2>1, <2>3, <2>4 DEF BookedInv
<1> QED
  BY <1>1, <1>2, <1>3, <1>4, <1>5, <1>6, <1>7, <1>8, <1>9, <1>10 DEF WorkerStep, Handle

\* Pesos are collected only for data that was taken: unless the balance check
\* itself misleads, no crash, redelivery or failed call makes a successful
\* collection of a message whose debit never happened.
THEOREM CollectionsAreDebited ==
    ASSUME "usage" \notin Faults
    PROVE  Spec => []BookedIsDebited
<1>1. Init => BookedInv
  BY DEF Init, StoreInit, WorkerInit, BookedInv, BookedIsDebited, IdleWorker
<1>2. TypeOK /\ TypeOK' /\ BookedInv /\ [Next]_vars => BookedInv'
  <2> SUFFICES ASSUME TypeOK, TypeOK', BookedInv, [Next]_vars PROVE BookedInv'
    OBVIOUS
  <2>1. CASE Grant
    BY <2>1, BookedFrame DEF Grant, AvailLoan, workerVars
  <2>2. CASE Consumer
    <3>1. collections' = collections /\ UNCHANGED workerVars
      BY <2>2, ConsumerFrame DEF Consumer, ConsumerNext, ConsumerStep
    <3> QED
      BY <3>1, BookedFrame DEF workerVars
  <2>3. CASE Worker
    BY <2>3, BookedStep DEF Worker, WorkerNext, WorkerStep
  <2>4. CASE UNCHANGED vars
    BY <2>4, BookedFrame DEF vars, storeVars, workerVars
  <2> QED
    BY <2>1, <2>2, <2>3, <2>4 DEF Next
<1>3. BookedInv => BookedIsDebited
  BY DEF BookedInv
<1> QED
  BY <1>1, <1>2, <1>3, TypeCorrect, PTL DEF Spec

-----------------------------------------------------------------------------
(* LoanAccounted: in exactly one of Loans and ClosedLoans. *)

\* Nothing refers to a loan that was not granted, and no such loan is closed.
LoanInv ==
    /\ LoanAccounted
    /\ \A s \in Subscribers : active[s] <= loanCount
    /\ \A l \in LoanIds : l > loanCount => closedDocs[l] = 0
    /\ \A m \in DOMAIN topic : topic[m].loan <= loanCount
    /\ \A c \in Consumers : cons[c].loan <= loanCount

\* A consumer only comes to hold a loan by reading a subscriber's active one.
LEMMA ConsumerLoans ==
    ASSUME ConsumerTypeOK, NEW c \in Consumers, ConsumerStep(c), NEW d \in Consumers
    PROVE  \/ cons'[d].loan = cons[d].loan
           \/ cons'[d].loan = NoLoan
           \/ \E s \in Subscribers : cons'[d].loan = active[s]
<1>1. /\ cons \in [Consumers -> ConsumerState]
      /\ cons[c].pc # "idle" => cons[c].sub \in Subscribers
  BY DEF ConsumerTypeOK
<1>2. ASSUME cons' = cons \/ Finish(c) \/ \E pc : Goto(c, pc)
      PROVE  cons'[d].loan = cons[d].loan \/ cons'[d].loan = NoLoan
  BY <1>1, <1>2 DEF Finish, Goto, IdleConsumer, ConsumerState
<1>3. ASSUME NEW u, NEW v, Decide(c, u, v)
      PROVE  cons'[d].loan = cons[d].loan
  <2> DEFINE a == cons[c].allowance
             pc == IF IsFull(a, u) \/ IsPartial(a, u) THEN "publish" ELSE "skip"
             kind == IF IsFull(a, u) THEN "Full" ELSE "Partial"
             pesos == PesosOf(a, u)
             q == [cons[c] EXCEPT !.pc = pc, !.unpaid = u, !.version = v, !.kind = kind,
                                  !.pesos = pesos]
  <2>1. cons' = [cons EXCEPT ![c] = q]
    BY <1>3, Zenon DEF Decide
  <2> HIDE DEF pc, kind, pesos
  <2> QED
    BY <1>1, <2>1 DEF ConsumerState
<1>4. CASE TakeEvent(c)
  <2>1. PICK s \in Subscribers, a \in Allowances :
           cons' = [cons EXCEPT ![c] =
                       [cons[c] EXCEPT !.pc = "check", !.sub = s, !.allowance = a]]
    BY <1>4, Zenon DEF TakeEvent
  <2> QED
    BY <1>1, <2>1 DEF ConsumerState
<1>5. CASE ReadLoan(c) \/ EvaluateRules(c)
  <2> DEFINE l == active[cons[c].sub]
             Hold(pc) == cons' = [cons EXCEPT ![c] =
                [cons[c] EXCEPT !.pc = pc, !.loan = l, !.unpaid = balance[l]]]
  <2>1. Hold("unpaid") \/ Hold("old") \/ \E pc : Goto(c, pc)
    BY <1>5, Zenon DEF ReadLoan, EvaluateRules
  <2>2. ASSUME NEW pc, Hold(pc)
        PROVE  \E s \in Subscribers : cons'[d].loan = cons[d].loan \/ cons'[d].loan = active[s]
    <3>1. cons[c].sub \in Subscribers
      BY <1>1, <1>5 DEF ReadLoan, EvaluateRules, At
    <3>2. cons'[d].loan = cons[d].loan \/ cons'[d].loan = l
      BY <1>1, <2>2 DEF ConsumerState
    <3> QED
      BY <3>1, <3>2
  <2> QED
    BY <1>2, <2>1, <2>2
<1>6. CASE FindUnpaid(c)
  <2>1. \/ Goto(c, "cleanup")
        \/ \E x \in OpenDocs(cons[c].loan) : cons' = [cons EXCEPT ![c] =
              [cons[c] EXCEPT !.pc = "backfill", !.unpaid = x.amount, !.version = x.version]]
    BY <1>6, Zenon DEF FindUnpaid
  <2>2. ASSUME NEW n, NEW v, cons' = [cons EXCEPT ![c] =
                  [cons[c] EXCEPT !.pc = "backfill", !.unpaid = n, !.version = v]]
        PROVE  cons'[d].loan = cons[d].loan
    BY <1>1, <2>2 DEF ConsumerState
  <2> QED
    BY <1>2, <2>1, <2>2
<1>7. CASE ReadUnpaid(c) \/ BackfillUnpaid(c)
  <2>1. (\E u, v : Decide(c, u, v)) \/ \E pc : Goto(c, pc)
    BY <1>7 DEF ReadUnpaid, BackfillUnpaid
  <2> QED
    BY <1>2, <1>3, <2>1
<1>8. CASE \/ SkipEvent(c) \/ CheckEntry(c) \/ CreateEntry(c) \/ UpdateOldLoan(c)
          \/ SkipCollection(c) \/ PublishMessage(c) \/ Cleanup(c) \/ ConsumerCrash(c)
  <2>1. cons' = cons \/ Finish(c) \/ \E pc : Goto(c, pc)
    BY <1>8 DEF SkipEvent, CheckEntry, CreateEntry, UpdateOldLoan,
       SkipCollection, PublishMessage, Cleanup, ConsumerCrash
  <2> QED
    BY <1>2, <2>1
<1> QED
  BY <1>4, <1>5, <1>6, <1>7, <1>8 DEF ConsumerStep, Proceed

\* Granting a loan makes it active, and nobody else's.
LEMMA GrantLoans ==
    ASSUME TypeOK, LoanInv, Grant
    PROVE  LoanInv'
<1>1. PICK s \in Subscribers : AvailLoan(s) /\ UNCHANGED <<consumerVars, workerVars>>
  BY DEF Grant
<1> DEFINE l == loanCount + 1
<1>2. /\ loanCount' = l /\ active' = [active EXCEPT ![s] = l] /\ active[s] = NoLoan
      /\ loanCount < MaxLoans /\ UNCHANGED <<closedDocs, topic, cons>>
  BY <1>1 DEF AvailLoan, consumerVars
<1>3. /\ loanCount \in Nat /\ MaxLoans \in Nat
      /\ active \in [Subscribers -> LoanIds \cup {NoLoan}]
      /\ \A c \in Consumers : cons[c].loan \in Nat
      /\ \A m \in DOMAIN topic : topic[m].loan \in Nat
  <2>1. \A m \in DOMAIN topic : topic[m] \in Message
    BY DEF TypeOK, StoreTypeOK
  <2>2. \A c \in Consumers : cons[c] \in ConsumerState
    BY DEF TypeOK, ConsumerTypeOK
  <2>3. \A m \in DOMAIN topic : topic[m].loan \in Nat
    BY <2>1, StoreAssumption DEF Message, LoanIds
  <2>4. \A c \in Consumers : cons[c].loan \in Nat
    BY <2>2, StoreAssumption DEF ConsumerState, LoanIds, NoLoan
  <2> QED
    BY <2>3, <2>4, StoreAssumption DEF TypeOK, StoreTypeOK
<1>4. l \in LoanIds /\ closedDocs[l] = 0 /\ active'[s] = l
  BY <1>2, <1>3 DEF LoanInv, LoanIds
<1>5. \A t \in Subscribers : t # s => active'[t] = active[t] /\ active[t] # l
  BY <1>2, <1>3 DEF LoanInv, LoanIds, NoLoan
<1>6. LoanAccounted'
  <2> SUFFICES ASSUME NEW k \in 1..l
               PROVE  /\ closedDocs[k] = 0 <=> \E t \in Subscribers : active'[t] = k
                      /\ \A t, u \in Subscribers :
                            active'[t] = k /\ active'[u] = k => t = u
    BY <1>2 DEF LoanAccounted, Granted
  <2>1. CASE k = l
    BY <1>4, <1>5, <2>1
  <2>2. CASE k # l
    <3>1. k \in Granted /\ k # NoLoan
      BY <1>3, <2>2 DEF Granted, NoLoan
    <3>2. \A t \in Subscribers : active'[t] = k <=> active[t] = k
      BY <1>2, <1>4, <1>5, <2>2, <3>1
    <3> QED
      BY <3>1, <3>2 DEF LoanInv, LoanAccounted
  <2> QED
    BY <2>1, <2>2
<1>7. \A t \in Subscribers : active'[t] <= l
  BY <1>3, <1>4, <1>5 DEF LoanInv, LoanIds, NoLoan
<1>8. /\ \A k \in LoanIds : k > l => closedDocs[k] = 0
      /\ \A m \in DOMAIN topic : topic[m].loan <= l
      /\ \A c \in Consumers : cons[c].loan <= l
  BY <1>3 DEF LoanInv, LoanIds
<1> QED
  BY <1>2, <1>6, <1>7, <1>8 DEF LoanInv

\* A consumer's message is about a loan it read, so about one that was granted.
LEMMA ConsumerStepLoans ==
    ASSUME TypeOK, LoanInv, NEW c \in Consumers, ConsumerStep(c)
    PROVE  LoanInv'
<1>1. UNCHANGED <<active, closedDocs, loanCount>>
  BY ConsumerFrame
<1>2. loanCount \in Nat /\ topic \in Seq(Message)
  BY StoreAssumption DEF TypeOK, StoreTypeOK
<1>3. \A m \in DOMAIN topic' : topic'[m].loan <= loanCount
  <2>1. CASE topic' = topic
    BY <2>1 DEF LoanInv
  <2>2. CASE topic' = Append(topic, Snapshot(c))
    <3>1. Snapshot(c).loan <= loanCount
      BY DEF Snapshot, LoanInv
    <3> DEFINE e == Snapshot(c)
    <3> HIDE DEF e
    <3>2. \A m \in DOMAIN topic' : (m \in DOMAIN topic /\ topic'[m] = topic[m]) \/ topic'[m] = e
      <4>1. DOMAIN topic = 1..Len(topic) /\ Len(topic) \in Nat
        BY <1>2
      <4>2. DOMAIN topic' = 1..Len(topic) + 1
        BY <1>2, <2>2
      <4> QED
        BY <1>2, <2>2, <4>1, <4>2 DEF e
    <3> QED
      BY <3>1, <3>2 DEF LoanInv, e
  <2> QED
    BY <2>1, <2>2, ConsumerFrame
<1>4. \A d \in Consumers : cons'[d].loan <= loanCount
  BY <1>2, ConsumerLoans DEF LoanInv, NoLoan, TypeOK
<1> QED
  BY <1>1, <1>3, <1>4 DEF LoanInv, LoanAccounted, Granted

\* Only a transaction moves a loan, and a full one moves it to ClosedLoans.
LEMMA WorkerFrame ==
    ASSUME NEW w \in Workers, WorkerStep(w)
    PROVE  /\ UNCHANGED <<loanCount, topic>>
           /\ UNCHANGED <<active, closedDocs>> \/ (Busy(w) /\ FullTransaction(w))
<1>1. CASE Commit(w)
  BY <1>1 DEF Commit, Transaction, PartialTransaction, Doing, Busy
<1>2. CASE ~Commit(w)
  BY <1>2 DEF WorkerStep, Handle, Deliver, Decrement, CheckUsage, FetchLoan, RecordFailure,
     ReportOutcome, ReleaseEntry, FlagReported, Acknowledge, Leave, WorkerCrash, storeVars
<1> QED
  BY <1>1, <1>2

\* A handler keeps every loan in one place: only a full collection moves one.
LEMMA WorkerStepLoans ==
    ASSUME TypeOK, LoanInv, NEW w \in Workers, WorkerStep(w), cons' = cons
    PROVE  LoanInv'
<1>1. UNCHANGED <<loanCount, topic>>
  BY WorkerFrame
<1>2. CASE UNCHANGED <<active, closedDocs>>
  BY <1>1, <1>2 DEF LoanInv, LoanAccounted, Granted
<1>3. CASE Busy(w) /\ FullTransaction(w)
  <2> DEFINE l == Msg(w).loan
  <2>1. l \in LoanIds /\ l \in Granted /\ l # NoLoan
    <3>1. work[w].msg \in DOMAIN topic
      BY <1>3 DEF TypeOK, WorkerTypeOK, StoreTypeOK
    <3>2. Msg(w) \in Message
      BY <3>1 DEF Msg, TypeOK, StoreTypeOK
    <3>3. l \in LoanIds /\ l <= loanCount
      BY <3>1, <3>2 DEF Msg, Message, LoanInv
    <3> QED
      BY <3>3, StoreAssumption DEF TypeOK, StoreTypeOK, Granted, LoanIds, NoLoan
  <2>2. /\ closedDocs' = [closedDocs EXCEPT ![l] = @ + 1]
        /\ active' = [s \in Subscribers |-> IF active[s] = l THEN NoLoan ELSE active[s]]
    BY <1>3 DEF FullTransaction
  <2> HIDE DEF l
  <2>3. /\ closedDocs \in [LoanIds -> Nat] /\ loanCount \in Nat /\ Granted \subseteq Nat \ {0}
        /\ active \in [Subscribers -> LoanIds \cup {NoLoan}]
        /\ Granted \subseteq LoanIds
    BY StoreAssumption DEF TypeOK, StoreTypeOK, Granted, LoanIds
  <2>4. LoanAccounted'
    <3> SUFFICES ASSUME NEW k \in Granted
                 PROVE  /\ closedDocs'[k] = 0 <=> \E t \in Subscribers : active'[t] = k
                        /\ \A t, u \in Subscribers :
                              active'[t] = k /\ active'[u] = k => t = u
      BY <1>1 DEF LoanAccounted, Granted
    <3>1. CASE k = l
      <4>1. closedDocs'[k] # 0
        BY <2>1, <2>2, <2>3, <3>1
      <4>2. \A t \in Subscribers : active'[t] # k
        BY <2>1, <2>2, <3>1
      <4> QED
        BY <4>1, <4>2
    <3>2. CASE k # l
      <4>1. closedDocs'[k] = closedDocs[k]
        BY <2>1, <2>2, <2>3, <3>2
      <4>2. \A t \in Subscribers : active'[t] = k <=> active[t] = k
        BY <2>2, <2>3, <3>2 DEF NoLoan
      <4> QED
        BY <4>1, <4>2 DEF LoanInv, LoanAccounted
    <3> QED
      BY <3>1, <3>2
  <2>5. \A s \in Subscribers : active'[s] <= loanCount
    BY <2>2, <2>3 DEF LoanInv, NoLoan
  <2>6. \A k \in LoanIds : k > loanCount => closedDocs'[k] = 0
    BY <2>1, <2>2, <2>3 DEF LoanInv, Granted, LoanIds
  <2> QED
    BY <1>1, <2>4, <2>5, <2>6 DEF LoanInv
<1> QED
  BY <1>2, <1>3, WorkerFrame

\* LoanInv is inductive.
LEMMA LoanIsInvariant == Spec => []LoanInv
<1>1. Init => LoanInv
  BY StoreAssumption DEF Init, StoreInit, ConsumerInit, LoanInv, LoanAccounted, Granted,
     IdleConsumer, NoLoan
<1>2. TypeOK /\ LoanInv /\ [Next]_vars => LoanInv'
  <2> SUFFICES ASSUME TypeOK, LoanInv, [Next]_vars PROVE LoanInv'
    OBVIOUS
  <2>1. CASE Grant
    BY <2>1, GrantLoans
  <2>2. CASE Consumer
    BY <2>2, ConsumerStepLoans DEF Consumer, ConsumerNext, ConsumerStep
  <2>3. CASE Worker
    BY <2>3, WorkerStepLoans DEF Worker, WorkerNext, WorkerStep, consumerVars
  <2>4. CASE UNCHANGED vars
    BY <2>4 DEF vars, storeVars, consumerVars, LoanInv, LoanAccounted, Granted
  <2> QED
    BY <2>1, <2>2, <2>3, <2>4 DEF Next
<1> QED
  BY <1>1, <1>2, TypeCorrect, PTL DEF Spec

\* No loan is lost and none is in two places: whatever fails and however often a
\* message is delivered, a granted loan is the active loan of exactly one
\* subscriber until it is in ClosedLoans, and of nobody afterwards.
THEOREM LoansAreAccounted == Spec => []LoanAccounted
<1>1. LoanInv => LoanAccounted
  BY DEF LoanInv
<1> QED
  BY <1>1, LoanIsInvariant, PTL

=============================================================================
