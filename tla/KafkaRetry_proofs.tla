------------------------- MODULE KafkaRetry_proofs -------------------------
(***************************************************************************)
(* For any number of collections, goroutines, runs and channel places,     *)
(* with every failure: the flag the retry service goes by is true, its     *)
(* state keeps to its types, a run publishes a collection at most once,    *)
(* the response of a run nobody cancelled accounts for every document, and *)
(* a run never sticks and always gets shorter.                             *)
(***************************************************************************)
EXTENDS KafkaRetry, FiniteSetTheorems, TLAPS

\* Whatever is flagged or about to be was published, and counts only grow.
RetryInv ==
    /\ published \in [Docs -> Nat]
    /\ flagged \subseteq {d \in Docs : published[d] > 0}
    /\ DOMAIN handler = Docs
    /\ \A d \in Docs : handler[d] = "flag" => published[d] > 0
    /\ job \in [Goroutines -> JobState]
    /\ \A g \in Goroutines : job[g].ok \subseteq {d \in Docs : published[d] > 0}

\* Nothing is published or flagged at first.
LEMMA RetryStart == RetryInit => RetryInv
<1> SUFFICES ASSUME RetryInit PROVE RetryInv  OBVIOUS
<1> DEFINE exited == [IdleJob EXCEPT !.pc = "exit"]
<1>1. exited \in JobState /\ exited.ok = {}  BY DEF IdleJob, JobState
<1>2. job = [g \in Goroutines |-> exited]  BY DEF RetryInit
<1> HIDE DEF exited
<1>3. job \in [Goroutines -> JobState] /\ \A g \in Goroutines : job[g].ok = {}
      BY <1>1, <1>2
<1>4. /\ published \in [Docs -> Nat] /\ flagged = {} /\ DOMAIN handler = Docs
      /\ \A d \in Docs : handler[d] # "flag"
      BY DEF RetryInit
<1> QED  BY <1>3, <1>4 DEF RetryInv

\* A publish never makes a collection unpublished.
LEMMA PublishGrows ==
    ASSUME published \in [Docs -> Nat], NEW d \in Docs, MaybePublish(d)
    PROVE  /\ published' \in [Docs -> Nat]
           /\ \A e \in Docs : published[e] > 0 => published'[e] > 0
           /\ Publish(d) => published'[d] > 0
  BY DEF MaybePublish, Publish

\* A goroutine's new job keeps the invariant if its ids were published.
LEMMA JobStep ==
    ASSUME RetryInv, published' \in [Docs -> Nat],
           \A e \in Docs : published[e] > 0 => published'[e] > 0,
           UNCHANGED <<flagged, handler>>,
           NEW g \in Goroutines, NEW j \in JobState, SetJob(g, j),
           j.ok \subseteq {d \in Docs : published'[d] > 0}
    PROVE  RetryInv'
<1>1. job' \in [Goroutines -> JobState]  BY DEF RetryInv, SetJob
<1>2. ASSUME NEW h \in Goroutines PROVE job'[h].ok \subseteq {d \in Docs : published'[d] > 0}
      BY <1>2 DEF RetryInv, SetJob
<1> QED  BY <1>1, <1>2 DEF RetryInv

\* A batch that is given up, or done with, is a new job without ids.
LEMMA ReturnedType ==
    ASSUME NEW j \in JobState
    PROVE  Returned(j) \in JobState /\ Returned(j).ok = {}
  BY DEF Returned, IdleJob, JobState

\* What follows a batch keeps or drops the ids it has published.
LEMMA AfterType ==
    ASSUME NEW j \in JobState
    PROVE  /\ AfterPublish(j) \in JobState /\ AfterPublish(j).ok \subseteq j.ok
           /\ AfterUpdate(j) \in JobState /\ AfterUpdate(j).ok \subseteq j.ok
  BY ReturnedType DEF AfterPublish, AfterUpdate, JobState

\* Publishing one document adds its id only after the publish.
LEMMA PublishStep ==
    ASSUME RetryInv, NEW g \in Goroutines, PublishDocument(g)
    PROVE  RetryInv'
<1> PICK d \in job[g].batch :
      LET left == [job[g] EXCEPT !.batch = @ \ {d}]
          Go(j) == SetJob(g, IF j.batch = {} THEN AfterPublish(j) ELSE j)
          Failed == [left EXCEPT !.bad = @ \cup {d}]
      IN \/ Publish(d) /\ Go([left EXCEPT !.ok = @ \cup {d}]) /\ UNCHANGED errorChan
         \/ /\ MayFail("kafka") /\ MaybePublish(d)
            /\ \/ errorChan < BufferSize /\ errorChan' = errorChan + 1 /\ Go(Failed)
               \/ /\ errorChan = BufferSize /\ ~cancelled /\ Go(Failed)
                  /\ UNCHANGED errorChan
               \/ cancelled /\ SetJob(g, Returned(job[g])) /\ UNCHANGED errorChan
    BY DEF PublishDocument
<1> DEFINE left == [job[g] EXCEPT !.batch = @ \ {d}]
           Done == [left EXCEPT !.ok = @ \cup {d}]
           Failed == [left EXCEPT !.bad = @ \cup {d}]
           Next(j) == IF j.batch = {} THEN AfterPublish(j) ELSE j
<1>1. /\ d \in Docs /\ MaybePublish(d) /\ UNCHANGED <<flagged, handler>>
      /\ \/ Publish(d) /\ SetJob(g, Next(Done))
         \/ SetJob(g, Next(Failed))
         \/ SetJob(g, Returned(job[g]))
      BY DEF RetryInv, JobState, PublishDocument, MaybePublish
<1>2. job[g] \in JobState /\ job[g].ok \subseteq {e \in Docs : published[e] > 0}
      BY DEF RetryInv
<1>3. /\ published' \in [Docs -> Nat]
      /\ \A e \in Docs : published[e] > 0 => published'[e] > 0
      /\ Publish(d) => published'[d] > 0
      BY <1>1, PublishGrows DEF RetryInv
<1>4. /\ Done \in JobState /\ Done.ok = job[g].ok \cup {d}
      /\ Failed \in JobState /\ Failed.ok = job[g].ok
      BY <1>1, <1>2 DEF JobState
<1>5. ASSUME NEW j \in JobState PROVE Next(j) \in JobState /\ Next(j).ok \subseteq j.ok
      BY AfterType
<1> HIDE DEF left, Done, Failed, Next
<1>6. CASE Publish(d) /\ SetJob(g, Next(Done))
  <2>1. Next(Done) \in JobState /\ Next(Done).ok \subseteq {e \in Docs : published'[e] > 0}
        BY <1>1, <1>2, <1>3, <1>4, <1>5, <1>6
  <2> QED  BY <1>1, <1>3, <1>6, <2>1, JobStep
<1>7. CASE SetJob(g, Next(Failed))
  <2>1. Next(Failed) \in JobState /\ Next(Failed).ok \subseteq {e \in Docs : published'[e] > 0}
        BY <1>2, <1>3, <1>4, <1>5
  <2> QED  BY <1>1, <1>3, <1>7, <2>1, JobStep
<1>8. CASE SetJob(g, Returned(job[g]))
  <2>1. Returned(job[g]) \in JobState /\ Returned(job[g]).ok = {}  BY <1>2, ReturnedType
  <2> QED  BY <1>1, <1>3, <1>8, <2>1, JobStep
<1> QED  BY <1>1, <1>6, <1>7, <1>8

\* The bulk update flags nothing but the ids of the batch.
LEMMA FlagStep ==
    ASSUME RetryInv, NEW g \in Goroutines, FlagBatch(g)
    PROVE  RetryInv'
<1> USE DEF SuccessIds
<1>1. job[g] \in JobState /\ job[g].ok \subseteq {e \in Docs : published[e] > 0}
      BY DEF RetryInv
<1>2. /\ published' = published /\ handler' = handler
      /\ flagged' \subseteq flagged \cup job[g].ok
      BY DEF FlagBatch
<1>3. flagged' \subseteq {e \in Docs : published'[e] > 0}  BY <1>1, <1>2 DEF RetryInv
<1>4. ASSUME NEW j \in JobState, SetJob(g, j), j.ok \subseteq job[g].ok PROVE RetryInv'
  <2>1. job' \in [Goroutines -> JobState]  BY <1>4 DEF RetryInv, SetJob
  <2>2. ASSUME NEW h \in Goroutines
        PROVE  job'[h].ok \subseteq {e \in Docs : published'[e] > 0}
        BY <1>1, <1>2, <1>4 DEF RetryInv, SetJob
  <2> QED  BY <1>2, <1>3, <2>1, <2>2 DEF RetryInv
<1>5. CASE SetJob(g, AfterUpdate(job[g]))  BY <1>1, <1>4, <1>5, AfterType
<1>6. CASE SetJob(g, [job[g] EXCEPT !.pc = "error"])
      BY <1>1, <1>4, <1>6 DEF JobState
<1> QED  BY <1>5, <1>6 DEF FlagBatch

\* The other steps of a goroutine publish and flag nothing.
LEMMA QuietStep ==
    ASSUME RetryInv, NEW g \in Goroutines, NEW j \in JobState, SetJob(g, j),
           j.ok \subseteq job[g].ok, UNCHANGED <<docVars, handler>>
    PROVE  RetryInv'
<1>1. /\ published' \in [Docs -> Nat] /\ UNCHANGED <<flagged, handler>>
      /\ \A e \in Docs : published[e] > 0 => published'[e] > 0
      BY DEF RetryInv, docVars
<1>2. j.ok \subseteq {d \in Docs : published'[d] > 0}  BY DEF RetryInv, docVars
<1> QED  BY <1>1, <1>2, JobStep

\* Every step of a goroutine keeps the invariant; the documents it takes are
\* collections.
LEMMA WorkStep ==
    ASSUME RetryInv, NEW g \in Goroutines, Work(g), docChan \in Seq(Docs)
    PROVE  RetryInv'
<1> DEFINE j == job[g]
<1>0. j \in JobState /\ Returned(j) \in JobState /\ Returned(j).ok \subseteq j.ok
      BY ReturnedType DEF RetryInv
<1>1. CASE TakeDocument(g)
  <2> DEFINE batch == j.batch \cup {Head(docChan)}
             k == [j EXCEPT !.batch = batch,
                     !.pc = IF Cardinality(batch) >= MaxBatch THEN "publish" ELSE "take"]
  <2>1. Head(docChan) \in Docs  BY <1>1 DEF TakeDocument
  <2>2. k \in JobState /\ k.ok = j.ok  BY <1>0, <2>1 DEF JobState
  <2>3. SetJob(g, k) /\ UNCHANGED <<docVars, handler>>  BY <1>1 DEF TakeDocument
  <2> HIDE DEF k
  <2> QED  BY <2>2, <2>3, QuietStep
<1>2. CASE FlushBatch(g)
  <2>1. [j EXCEPT !.pc = "publish"] \in JobState  BY <1>0 DEF JobState
  <2> QED  BY <1>0, <1>2, <2>1, QuietStep DEF FlushBatch, JobState
<1>3. CASE LastBatch(g)
  <2> DEFINE k == [j EXCEPT !.pc = IF j.batch = {} THEN "exit" ELSE "publish", !.last = TRUE]
  <2>1. k \in JobState /\ k.ok = j.ok  BY <1>0 DEF JobState
  <2>2. SetJob(g, k) /\ UNCHANGED <<docVars, handler>>  BY <1>3 DEF LastBatch
  <2> HIDE DEF k
  <2> QED  BY <2>1, <2>2, QuietStep
<1>4. CASE PublishDocument(g)  BY <1>4, PublishStep
<1>5. CASE SendSuccess(g)
  <2>1. [j EXCEPT !.pc = "flag"] \in JobState /\ [j EXCEPT !.pc = "flag"].ok = j.ok
        BY <1>0 DEF JobState
  <2>2. /\ SetJob(g, [j EXCEPT !.pc = "flag"]) \/ SetJob(g, Returned(j))
        /\ UNCHANGED <<docVars, handler>>
        BY <1>5 DEF SendSuccess, GiveUp
  <2> QED  BY <1>0, <2>1, <2>2, QuietStep
<1>6. CASE FlagBatch(g)  BY <1>6, FlagStep
<1>7. CASE SendError(g)
  <2>1. AfterUpdate(j) \in JobState /\ AfterUpdate(j).ok \subseteq j.ok  BY <1>0, AfterType
  <2>2. /\ SetJob(g, AfterUpdate(j)) \/ SetJob(g, Returned(j))
        /\ UNCHANGED <<docVars, handler>>
        BY <1>7 DEF SendError, GiveUp
  <2> QED  BY <1>0, <2>1, <2>2, QuietStep
<1>8. CASE SendFailure(g)
  <2>1. SetJob(g, Returned(j)) /\ UNCHANGED <<docVars, handler>>
        BY <1>8 DEF SendFailure, GiveUp
  <2> QED  BY <1>0, <2>1, QuietStep
<1> QED  BY <1>1, <1>2, <1>3, <1>4, <1>5, <1>6, <1>7, <1>8 DEF Work

\* The channel holds collections.
LEMMA ChannelStep ==
    (docChan \in Seq(Docs) /\ cursor \subseteq Docs) /\ [RetryNext]_retryVars
       => (docChan \in Seq(Docs) /\ cursor \subseteq Docs)'
<1> SUFFICES ASSUME docChan \in Seq(Docs), cursor \subseteq Docs, [RetryNext]_retryVars
             PROVE  docChan' \in Seq(Docs) /\ cursor' \subseteq Docs
    OBVIOUS
<1>1. CASE StartRun  BY <1>1 DEF StartRun, Unflagged
<1>2. ASSUME NEW d \in Docs, StreamDocument(d) PROVE docChan' \in Seq(Docs) /\ cursor' \subseteq Docs
      BY <1>2 DEF StreamDocument
<1>3. CASE StreamEnd  BY <1>3 DEF StreamEnd
<1>4. ASSUME NEW g \in Goroutines, TakeDocument(g)
      PROVE  docChan' \in Seq(Docs) /\ cursor' \subseteq Docs
      BY <1>4 DEF TakeDocument, streamVars
<1>5. ASSUME NEW g \in Goroutines, Work(g), ~TakeDocument(g) PROVE UNCHANGED <<docChan, cursor>>
      BY <1>5 DEF Work, FlushBatch, LastBatch, PublishDocument, SendSuccess, FlagBatch,
                  SendError, SendFailure, streamVars
<1>6. ASSUME \/ \E d \in Docs : HandlerReport(d) \/ HandlerFlag(d)
             \/ Join \/ Respond \/ Cancel \/ Collect \/ UNCHANGED retryVars
      PROVE  UNCHANGED <<docChan, cursor>>
      BY <1>6 DEF HandlerReport, HandlerFlag, Join, Respond, Cancel, Collect, streamVars,
                  retryVars
<1> QED  BY <1>1, <1>2, <1>3, <1>4, <1>5, <1>6 DEF RetryNext, Stream

\* A handler publishes before it flags.
LEMMA HandlerStep ==
    ASSUME RetryInv, NEW d \in Docs, HandlerReport(d) \/ HandlerFlag(d)
    PROVE  RetryInv'
<1>1. CASE HandlerReport(d)
  <2>1. MaybePublish(d)  BY <1>1 DEF HandlerReport, MaybePublish
  <2>2. /\ published' \in [Docs -> Nat]
        /\ \A e \in Docs : published[e] > 0 => published'[e] > 0
        /\ Publish(d) => published'[d] > 0
        BY <2>1, PublishGrows DEF RetryInv
  <2>3. UNCHANGED <<flagged, job>>  BY <1>1 DEF HandlerReport
  <2>4. /\ DOMAIN handler' = Docs
        /\ \A e \in Docs : handler'[e] = "flag" => published'[e] > 0
        BY <1>1, <2>2 DEF HandlerReport, RetryInv
  <2> QED  BY <2>2, <2>3, <2>4 DEF RetryInv
<1>2. CASE HandlerFlag(d)
  <2>1. UNCHANGED <<published, job>> /\ flagged' \subseteq flagged \cup {d}
        BY <1>2 DEF HandlerFlag
  <2>2. /\ DOMAIN handler' = Docs
        /\ \A e \in Docs : handler'[e] = "flag" => handler[e] = "flag"
        /\ published[d] > 0
        BY <1>2 DEF HandlerFlag, RetryInv
  <2> QED  BY <2>1, <2>2 DEF RetryInv
<1> QED  BY <1>1, <1>2

\* Every step keeps the invariant.
LEMMA RetryStep ==
    RetryInv /\ docChan \in Seq(Docs) /\ [RetryNext]_retryVars => RetryInv'
<1> SUFFICES ASSUME RetryInv, docChan \in Seq(Docs), [RetryNext]_retryVars PROVE RetryInv'
    OBVIOUS
<1>1. ASSUME NEW d \in Docs, HandlerReport(d) \/ HandlerFlag(d) PROVE RetryInv'
      BY <1>1, HandlerStep
<1>2. ASSUME NEW g \in Goroutines, Work(g) PROVE RetryInv'  BY <1>2, WorkStep
<1>3. CASE StartRun
      BY <1>3 DEF StartRun, RetryInv, docVars, IdleJob, JobState
<1>4. CASE Stream \/ Join \/ Respond \/ Cancel \/ Collect \/ UNCHANGED retryVars
  <2>1. UNCHANGED <<published, flagged, handler, job>>
        BY <1>4 DEF Stream, StreamDocument, StreamEnd, Join, Respond, Cancel, Collect,
                    retryVars, docVars
  <2> QED  BY <2>1 DEF RetryInv
<1> QED  BY <1>1, <1>2, <1>3, <1>4 DEF RetryNext

\* A collection with publishedToKafka was published, by its handler or by a
\* run of the retry service, cancelled or not.
THEOREM RetriedFlagsAreTrue == RetrySpec => []FlaggedWerePublished
<1>1. RetryInit => docChan \in Seq(Docs) /\ cursor \subseteq Docs  BY DEF RetryInit
<1>2. RetryInv => FlaggedWerePublished  BY DEF RetryInv, FlaggedWerePublished
<1> QED  BY <1>1, <1>2, RetryStart, RetryStep, ChannelStep, PTL DEF RetrySpec
-----------------------------------------------------------------------------
\* What a goroutine can be doing in a run that opened the documents S: only a
\* goroutine that waits or publishes has a batch, and the next batch starts
\* without ids.
FitJobs(S) ==
    {j \in JobState :
       /\ j.batch \subseteq S /\ j.ok \subseteq S /\ j.bad \subseteq S
       /\ Cardinality(j.batch) <= MaxBatch
       /\ j.pc = "take" => Cardinality(j.batch) < MaxBatch
       /\ j.pc \in {"take", "exit"} => j.ok = {} /\ j.bad = {}
       /\ j.pc \notin {"take", "publish"} => j.batch = {}}

\* The types, with what a run holds taken from the documents it opened.
RunInv ==
    /\ runs \in 0..MaxRuns
    /\ main \in {"idle", "streaming", "joining", "awaiting"}
    /\ opened \subseteq Docs /\ skipped \subseteq opened /\ cursor \subseteq opened
    /\ docChan \in Seq(opened) /\ Len(docChan) <= BufferSize
    /\ successChan \in Seq(SUBSET opened) /\ Len(successChan) <= BufferSize
    /\ failureChan \in Seq(SUBSET opened) /\ Len(failureChan) <= BufferSize
    /\ errorChan \in 0..BufferSize
    /\ docsClosed \in BOOLEAN /\ resultsClosed \in BOOLEAN /\ collecting \in BOOLEAN
    /\ cancelled \in BOOLEAN /\ errorSeen \in BOOLEAN
    /\ succeeded \subseteq opened /\ failed \subseteq opened
    /\ job \in [Goroutines -> FitJobs(opened)]
    /\ handler \in [Docs -> {"report", "flag", "done"}]

\* A batch that is given up or done with leaves room for the next one.
LEMMA ReturnedFits ==
    ASSUME NEW S, NEW j \in FitJobs(S)
    PROVE  /\ Returned(j) \in FitJobs(S)
           /\ Returned(j).batch = {} /\ Returned(j).ok = {} /\ Returned(j).bad = {}
           /\ Returned(j).last = j.last
           /\ Returned(j).pc = IF j.last THEN "exit" ELSE "take"
<1> DEFINE k == Returned(j)
<1>1. /\ k \in JobState /\ k.batch = {} /\ k.ok = {} /\ k.bad = {} /\ k.last = j.last
      /\ k.pc = IF j.last THEN "exit" ELSE "take"
      BY DEF Returned, FitJobs, IdleJob, JobState
<1> HIDE DEF k
<1>2. Cardinality(k.batch) = 0  BY <1>1, FS_EmptySet, Zenon
<1>3. k \in FitJobs(S)  BY <1>1, <1>2, RetryAssumption DEF FitJobs
<1> QED  BY <1>1, <1>3 DEF k

\* What follows a batch without documents.
LEMMA AfterFits ==
    ASSUME NEW S, NEW j \in FitJobs(S), j.batch = {}
    PROVE  AfterPublish(j) \in FitJobs(S) /\ AfterUpdate(j) \in FitJobs(S)
<1>1. Cardinality({}) = 0  BY FS_EmptySet
<1> QED  BY <1>1, ReturnedFits, RetryAssumption DEF AfterPublish, AfterUpdate, FitJobs, JobState

\* A document less in a batch, a document more.
LEMMA BatchSizes ==
    ASSUME NEW S \in SUBSET Docs, NEW d
    PROVE  /\ Cardinality(S) \in Nat
           /\ Cardinality(S \ {d}) <= Cardinality(S)
           /\ Cardinality(S \cup {d}) <= Cardinality(S) + 1
<1>1. IsFiniteSet(S)  BY FS_Subset, RetryAssumption
<1>2. Cardinality(S) \in Nat  BY <1>1, FS_CardinalityType
<1>3. Cardinality(S \ {d}) = IF d \in S THEN Cardinality(S) - 1 ELSE Cardinality(S)
      BY <1>1, FS_RemoveElement
<1>4. Cardinality(S \cup {d}) = IF d \in S THEN Cardinality(S) ELSE Cardinality(S) + 1
      BY <1>1, FS_AddElement
<1> QED  BY <1>2, <1>3, <1>4

\* Only the job of the goroutine that steps changes.
LEMMA JobsFit ==
    ASSUME RunInv, NEW g \in Goroutines, NEW k \in FitJobs(opened), SetJob(g, k)
    PROVE  /\ job' \in [Goroutines -> FitJobs(opened)]
           /\ job'[g] = k /\ \A h \in Goroutines \ {g} : job'[h] = job[h]
  BY DEF RunInv, SetJob

\* Taking a document from the channel.
LEMMA TakeFits ==
    ASSUME RunInv, NEW g \in Goroutines, TakeDocument(g)
    PROVE  /\ Head(docChan) \in opened
           /\ job' \in [Goroutines -> FitJobs(opened)]
           /\ \A h \in Goroutines \ {g} : job'[h] = job[h]
           /\ job'[g].batch = job[g].batch \cup {Head(docChan)}
           /\ job'[g].pc \in {"take", "publish"} /\ job'[g].last = job[g].last
           /\ job'[g].ok = {} /\ job'[g].bad = {}
<1> DEFINE j == job[g]
           batch == j.batch \cup {Head(docChan)}
           k == [j EXCEPT !.batch = batch,
                   !.pc = IF Cardinality(batch) >= MaxBatch THEN "publish" ELSE "take"]
<1>1. Head(docChan) \in opened /\ opened \subseteq Docs  BY DEF TakeDocument, RunInv
<1>2. j \in FitJobs(opened) /\ j.pc = "take"  BY DEF RunInv, TakeDocument, Waits
<1>3. /\ Cardinality(j.batch) \in Nat /\ Cardinality(batch) \in Nat
      /\ Cardinality(batch) <= Cardinality(j.batch) + 1
      /\ Cardinality(j.batch) < MaxBatch
  <2>1. j.batch \in SUBSET Docs /\ batch \in SUBSET Docs  BY <1>1, <1>2 DEF FitJobs
  <2> QED  BY <1>2, <2>1, BatchSizes DEF FitJobs
<1>4. SetJob(g, k)  BY DEF TakeDocument
<1> DEFINE size == Cardinality(batch)
<1>5. k = [j EXCEPT !.batch = batch, !.pc = IF size >= MaxBatch THEN "publish" ELSE "take"]
      OBVIOUS
<1>6. size \in Nat /\ size <= MaxBatch /\ size = Cardinality(batch)
      BY <1>3, RetryAssumption
<1> HIDE DEF size, k
<1>7. /\ k \in JobState /\ k.batch = batch /\ k.batch \subseteq opened
      /\ k.pc = (IF size >= MaxBatch THEN "publish" ELSE "take")
      /\ k.last = j.last /\ k.ok = {} /\ k.bad = {}
      BY <1>1, <1>2, <1>5 DEF FitJobs, JobState
<1>8. Cardinality(k.batch) = size  BY <1>6, <1>7, Zenon
<1>9. k \in FitJobs(opened)  BY <1>6, <1>7, <1>8, RetryAssumption DEF FitJobs
<1> QED  BY <1>1, <1>4, <1>7, <1>9, JobsFit

\* Publishing a document moves it from the batch to one of the two lists, or
\* the batch is given up.
LEMMA PublishFits ==
    ASSUME RunInv, NEW g \in Goroutines, PublishDocument(g)
    PROVE  \E d \in job[g].batch :
             /\ d \in opened
             /\ job' \in [Goroutines -> FitJobs(opened)]
             /\ \A h \in Goroutines \ {g} : job'[h] = job[h]
             /\ job'[g].last = job[g].last
             /\ job'[g].pc = "exit" => job[g].last
             /\ job'[g].pc = "publish" => job'[g].batch # {}
             /\ \/ /\ Publish(d)
                   /\ job'[g].batch = job[g].batch \ {d}
                   /\ job'[g].ok = job[g].ok \cup {d} /\ job'[g].bad = job[g].bad
                   /\ job'[g].pc \in {"publish", "success"} /\ UNCHANGED errorChan
                \/ /\ MaybePublish(d) /\ job'[g].batch = job[g].batch \ {d}
                   /\ job'[g].ok = job[g].ok /\ job'[g].bad = job[g].bad \cup {d}
                   /\ job'[g].pc = "publish" \/ job'[g].pc = "success"
                        \/ (job'[g].pc = "failure" /\ job[g].ok = {})
                   /\ errorChan' \in 0..BufferSize /\ errorChan' >= errorChan
                \/ /\ cancelled /\ MaybePublish(d) /\ UNCHANGED errorChan
                   /\ job'[g].batch = {} /\ job'[g].ok = {} /\ job'[g].bad = {}
<1> PICK d \in job[g].batch :
      LET left == [job[g] EXCEPT !.batch = @ \ {d}]
          Go(j) == SetJob(g, IF j.batch = {} THEN AfterPublish(j) ELSE j)
          Failed == [left EXCEPT !.bad = @ \cup {d}]
      IN \/ Publish(d) /\ Go([left EXCEPT !.ok = @ \cup {d}]) /\ UNCHANGED errorChan
         \/ /\ MayFail("kafka") /\ MaybePublish(d)
            /\ \/ errorChan < BufferSize /\ errorChan' = errorChan + 1 /\ Go(Failed)
               \/ /\ errorChan = BufferSize /\ ~cancelled /\ Go(Failed)
                  /\ UNCHANGED errorChan
               \/ cancelled /\ SetJob(g, Returned(job[g])) /\ UNCHANGED errorChan
    BY DEF PublishDocument
<1> DEFINE j == job[g]
           left == [job[g] EXCEPT !.batch = @ \ {d}]
           Done == [left EXCEPT !.ok = @ \cup {d}]
           Failed == [left EXCEPT !.bad = @ \cup {d}]
           Next(x) == IF x.batch = {} THEN AfterPublish(x) ELSE x
<1>1. \/ Publish(d) /\ SetJob(g, Next(Done)) /\ UNCHANGED errorChan
      \/ /\ MaybePublish(d) /\ SetJob(g, Next(Failed))
         /\ errorChan' \in 0..BufferSize /\ errorChan' >= errorChan
      \/ cancelled /\ MaybePublish(d) /\ SetJob(g, Returned(j)) /\ UNCHANGED errorChan
      BY RetryAssumption DEF RunInv
<1>2. j \in FitJobs(opened) /\ j.pc = "publish" /\ d \in opened /\ opened \subseteq Docs
      BY DEF RunInv, FitJobs, PublishDocument
<1>3. /\ Cardinality(j.batch \ {d}) \in Nat /\ Cardinality(j.batch) \in Nat
      /\ Cardinality(j.batch \ {d}) <= Cardinality(j.batch)
      /\ Cardinality(j.batch) <= MaxBatch
  <2>1. j.batch \in SUBSET Docs /\ j.batch \ {d} \in SUBSET Docs  BY <1>2 DEF FitJobs
  <2> QED  BY <1>2, <2>1, BatchSizes DEF FitJobs
<1>4. /\ Done \in JobState /\ Done.batch = j.batch \ {d} /\ Done.ok = j.ok \cup {d}
      /\ Done.bad = j.bad /\ Done.last = j.last /\ Done.pc = "publish"
      /\ Failed \in JobState /\ Failed.batch = j.batch \ {d} /\ Failed.ok = j.ok
      /\ Failed.bad = j.bad \cup {d} /\ Failed.last = j.last /\ Failed.pc = "publish"
      BY <1>2 DEF FitJobs, JobState
<1> HIDE DEF left, Done, Failed
<1>5. Done \in FitJobs(opened) /\ Failed \in FitJobs(opened)
  <2>1. /\ Cardinality(Done.batch) = Cardinality(j.batch \ {d})
        /\ Cardinality(Failed.batch) = Cardinality(j.batch \ {d})
        BY <1>4, Zenon
  <2>2. Cardinality(Done.batch) <= MaxBatch /\ Cardinality(Failed.batch) <= MaxBatch
        BY <1>3, <2>1, RetryAssumption
  <2>3. /\ Done.batch \subseteq opened /\ Done.ok \subseteq opened /\ Done.bad \subseteq opened
        /\ Failed.batch \subseteq opened /\ Failed.ok \subseteq opened
        /\ Failed.bad \subseteq opened
        BY <1>2, <1>4 DEF FitJobs
  <2> QED  BY <1>4, <2>2, <2>3 DEF FitJobs
<1>6. ASSUME NEW x \in FitJobs(opened), x.pc = "publish", x.ok # {} \/ x.bad # {}
      PROVE  /\ Next(x) \in FitJobs(opened) /\ Next(x).batch = x.batch
             /\ Next(x).ok = x.ok /\ Next(x).bad = x.bad /\ Next(x).last = x.last
             /\ \/ Next(x).pc \in {"publish", "success"}
                \/ Next(x).pc = "failure" /\ x.ok = {}
             /\ Next(x).pc = "publish" => Next(x).batch # {}
      BY <1>6, AfterFits, ZenonT(60) DEF AfterPublish, FitJobs, JobState
<1> HIDE DEF Next
<1>7. CASE Publish(d) /\ SetJob(g, Next(Done)) /\ UNCHANGED errorChan
  <2>1. d \in Done.ok  BY <1>4
  <2> QED  BY <1>2, <1>4, <1>5, <1>6, <1>7, <2>1, JobsFit
<1>8. CASE /\ MaybePublish(d) /\ SetJob(g, Next(Failed))
           /\ errorChan' \in 0..BufferSize /\ errorChan' >= errorChan
  <2>1. d \in Failed.bad  BY <1>4
  <2> QED  BY <1>2, <1>4, <1>5, <1>6, <1>8, <2>1, JobsFit
<1>9. CASE cancelled /\ MaybePublish(d) /\ SetJob(g, Returned(j)) /\ UNCHANGED errorChan
      BY <1>2, <1>9, ReturnedFits, JobsFit
<1> QED  BY <1>1, <1>7, <1>8, <1>9

\* What the other steps of a goroutine do to its job.
LEMMA SendFits ==
    ASSUME RunInv, NEW g \in Goroutines
    PROVE  /\ FlushBatch(g) => SetJob(g, [job[g] EXCEPT !.pc = "publish"])
                                 /\ [job[g] EXCEPT !.pc = "publish"] \in FitJobs(opened)
           /\ SendSuccess(g) => [job[g] EXCEPT !.pc = "flag"] \in FitJobs(opened)
           /\ FlagBatch(g) => [job[g] EXCEPT !.pc = "error"] \in FitJobs(opened)
           /\ LastBatch(g) =>
                [job[g] EXCEPT !.pc   = IF job[g].batch = {} THEN "exit" ELSE "publish",
                               !.last = TRUE] \in FitJobs(opened)
           /\ FlagBatch(g) \/ SendError(g) => AfterUpdate(job[g]) \in FitJobs(opened)
           /\ Returned(job[g]) \in FitJobs(opened)
<1> DEFINE j == job[g]
<1>1. j \in FitJobs(opened)  BY DEF RunInv
<1>2. ASSUME NEW pc \in {"publish", "success", "flag", "error", "failure", "exit"},
             NEW last \in BOOLEAN, j.batch = {} \/ pc = "publish",
             pc = "exit" => j.ok = {} /\ j.bad = {}
      PROVE  [j EXCEPT !.pc = pc, !.last = last] \in FitJobs(opened)
  <2> DEFINE k == [j EXCEPT !.pc = pc, !.last = last]
  <2>1. /\ k \in JobState /\ k.batch = j.batch /\ k.ok = j.ok /\ k.bad = j.bad /\ k.pc = pc
        BY <1>1, <1>2 DEF FitJobs, JobState
  <2> HIDE DEF k
  <2>2. Cardinality(k.batch) = Cardinality(j.batch)  BY <2>1, Zenon
  <2>3. k \in FitJobs(opened)  BY <1>1, <1>2, <2>1, <2>2 DEF FitJobs
  <2> QED  BY <2>3 DEF k
<1>3. ASSUME NEW pc \in {"publish", "flag", "error"}
      PROVE  [j EXCEPT !.pc = pc] = [j EXCEPT !.pc = pc, !.last = j.last]
      BY <1>1 DEF FitJobs, JobState
<1>4. j.last \in BOOLEAN  BY <1>1 DEF FitJobs, JobState
<1>5. [j EXCEPT !.pc = "publish"] \in FitJobs(opened)  BY <1>2, <1>3, <1>4
<1>6. ASSUME SendSuccess(g) PROVE [j EXCEPT !.pc = "flag"] \in FitJobs(opened)
  <2>1. j.batch = {}  BY <1>1, <1>6 DEF SendSuccess, FitJobs
  <2> QED  BY <1>2, <1>3, <1>4, <2>1
<1>7. ASSUME FlagBatch(g) \/ SendError(g)
      PROVE  [j EXCEPT !.pc = "error"] \in FitJobs(opened) /\ AfterUpdate(j) \in FitJobs(opened)
  <2>1. j.batch = {}  BY <1>1, <1>7 DEF FlagBatch, SendError, FitJobs
  <2> QED  BY <1>1, <1>2, <1>3, <1>4, <2>1, AfterFits
<1>8. ASSUME LastBatch(g)
      PROVE  [j EXCEPT !.pc = IF j.batch = {} THEN "exit" ELSE "publish", !.last = TRUE]
               \in FitJobs(opened)
  <2>1. j.ok = {} /\ j.bad = {}  BY <1>1, <1>8 DEF LastBatch, Waits, FitJobs
  <2> DEFINE pc == IF j.batch = {} THEN "exit" ELSE "publish"
  <2>2. /\ pc \in {"publish", "success", "flag", "error", "failure", "exit"}
        /\ j.batch = {} \/ pc = "publish"
        OBVIOUS
  <2> HIDE DEF pc
  <2>3. [j EXCEPT !.pc = pc, !.last = TRUE] \in FitJobs(opened)  BY <1>2, <2>1, <2>2
  <2> QED  BY <2>3 DEF pc
<1> QED  BY <1>1, <1>5, <1>6, <1>7, <1>8, ReturnedFits DEF FlushBatch

\* Receiving from a channel, and sending to one with room.
LEMMA Channels ==
    ASSUME NEW S, NEW c \in Seq(S), Len(c) <= BufferSize
    PROVE  /\ c # <<>> => Tail(c) \in Seq(S) /\ Len(Tail(c)) <= BufferSize /\ Head(c) \in S
           /\ \A v \in S : HasRoom(c) =>
                Append(c, v) \in Seq(S) /\ Len(Append(c, v)) <= BufferSize
  BY RetryAssumption DEF HasRoom

\* A channel just made.
LEMMA EmptyChannel == \A S : <<>> \in Seq(S) /\ Len(<<>>) <= BufferSize
<1>1. Len(<<>>) = 0 /\ \A S : <<>> \in Seq(S)  OBVIOUS
<1> QED  BY <1>1, RetryAssumption

\* The steps of a goroutine keep the types.
LEMMA RunWork ==
    ASSUME RunInv, NEW g \in Goroutines, Work(g)
    PROVE  RunInv'
<1>1. job[g] \in FitJobs(opened) /\ opened \subseteq Docs  BY DEF RunInv
<1>2. UNCHANGED <<handler, runs, main, opened, skipped, cursor, docsClosed, resultsClosed,
                  collecting, succeeded, failed, errorSeen, cancelled>>
      BY DEF Work, TakeDocument, FlushBatch, LastBatch, PublishDocument, SendSuccess,
             FlagBatch, SendError, SendFailure, docVars, requestVars, streamVars, responseVars
<1>3. ASSUME job' \in [Goroutines -> FitJobs(opened)],
             docChan' \in Seq(opened), Len(docChan') <= BufferSize,
             successChan' \in Seq(SUBSET opened), Len(successChan') <= BufferSize,
             failureChan' \in Seq(SUBSET opened), Len(failureChan') <= BufferSize,
             errorChan' \in 0..BufferSize
      PROVE  RunInv'
      BY <1>2, <1>3 DEF RunInv
<1>4. /\ docChan \in Seq(opened) /\ Len(docChan) <= BufferSize
      /\ successChan \in Seq(SUBSET opened) /\ Len(successChan) <= BufferSize
      /\ failureChan \in Seq(SUBSET opened) /\ Len(failureChan) <= BufferSize
      /\ errorChan \in 0..BufferSize
      BY DEF RunInv
<1>5. job[g].ok \in SUBSET opened /\ job[g].bad \in SUBSET opened  BY <1>1 DEF FitJobs
<1>6. CASE TakeDocument(g)
  <2>1. job' \in [Goroutines -> FitJobs(opened)]  BY <1>6, TakeFits
  <2>2. /\ docChan' = Tail(docChan) /\ docChan # <<>>
        /\ UNCHANGED <<successChan, failureChan, errorChan>>
        BY <1>6 DEF TakeDocument, resultChans
  <2> QED  BY <1>3, <1>4, <2>1, <2>2, Channels
<1>7. CASE PublishDocument(g)
  <2>1. job' \in [Goroutines -> FitJobs(opened)] /\ errorChan' \in 0..BufferSize
        BY <1>4, <1>7, PublishFits
  <2>2. UNCHANGED <<docChan, successChan, failureChan>>  BY <1>7 DEF PublishDocument
  <2> QED  BY <1>3, <1>4, <2>1, <2>2
<1>8. CASE SendSuccess(g)
  <2>1. job' \in [Goroutines -> FitJobs(opened)]
        BY <1>8, SendFits, JobsFit DEF SendSuccess, GiveUp
  <2>2. /\ \/ HasRoom(successChan) /\ successChan' = Append(successChan, job[g].ok)
           \/ UNCHANGED successChan
        /\ UNCHANGED <<docChan, failureChan, errorChan>>
        BY <1>8 DEF SendSuccess, SuccessIds
  <2>3. successChan' \in Seq(SUBSET opened) /\ Len(successChan') <= BufferSize
        BY <1>4, <1>5, <2>2, Channels
  <2> QED  BY <1>3, <1>4, <2>1, <2>2, <2>3
<1>9. CASE SendFailure(g)
  <2>1. job' \in [Goroutines -> FitJobs(opened)]
        BY <1>9, SendFits, JobsFit DEF SendFailure, GiveUp
  <2>2. /\ \/ HasRoom(failureChan) /\ failureChan' = Append(failureChan, job[g].bad)
           \/ UNCHANGED failureChan
        /\ UNCHANGED <<docChan, successChan, errorChan>>
        BY <1>9 DEF SendFailure
  <2>3. failureChan' \in Seq(SUBSET opened) /\ Len(failureChan') <= BufferSize
        BY <1>4, <1>5, <2>2, Channels
  <2> QED  BY <1>3, <1>4, <2>1, <2>2, <2>3
<1>10. CASE SendError(g)
  <2>1. job' \in [Goroutines -> FitJobs(opened)]
        BY <1>10, SendFits, JobsFit DEF SendError, GiveUp
  <2>2. errorChan' \in 0..BufferSize /\ UNCHANGED <<docChan, successChan, failureChan>>
        BY <1>4, <1>10, RetryAssumption DEF SendError
  <2> QED  BY <1>3, <1>4, <2>1, <2>2
<1>11. CASE FlushBatch(g) \/ LastBatch(g) \/ FlagBatch(g)
  <2>1. UNCHANGED <<docChan, successChan, failureChan, errorChan>>
        BY <1>11 DEF FlushBatch, LastBatch, FlagBatch, resultChans
  <2>2. \E k \in FitJobs(opened) : SetJob(g, k)
        BY <1>11, SendFits DEF FlushBatch, LastBatch, FlagBatch
  <2>3. job' \in [Goroutines -> FitJobs(opened)]  BY <2>2, JobsFit
  <2> QED  BY <1>3, <1>4, <2>1, <2>3
<1> QED  BY <1>6, <1>7, <1>8, <1>9, <1>10, <1>11 DEF Work

\* Nothing is open at first.
LEMMA RunStart == RetryInit => RunInv
<1> SUFFICES ASSUME RetryInit PROVE RunInv  OBVIOUS
<1> DEFINE exited == [IdleJob EXCEPT !.pc = "exit"]
<1>1. exited \in JobState /\ exited.batch = {} /\ exited.ok = {} /\ exited.bad = {}
      /\ exited.pc = "exit"
      BY DEF IdleJob, JobState
<1>2. job = [g \in Goroutines |-> exited]  BY DEF RetryInit
<1> HIDE DEF exited
<1>3. Cardinality(exited.batch) = 0  BY <1>1, FS_EmptySet, Zenon
<1>4. exited \in FitJobs({})  BY <1>1, <1>3, RetryAssumption DEF FitJobs
<1>5. opened = {}  BY DEF RetryInit
<1>6. job \in [Goroutines -> FitJobs(opened)]
  <2>1. job \in [Goroutines -> FitJobs({})]  BY <1>2, <1>4
  <2> QED  BY <1>5, <2>1, Zenon
<1>7. /\ docChan \in Seq(opened) /\ Len(docChan) <= BufferSize
      /\ successChan \in Seq(SUBSET opened) /\ Len(successChan) <= BufferSize
      /\ failureChan \in Seq(SUBSET opened) /\ Len(failureChan) <= BufferSize
      BY EmptyChannel DEF RetryInit
<1>8. runs \in 0..MaxRuns /\ errorChan \in 0..BufferSize  BY RetryAssumption DEF RetryInit
<1>9. handler \in [Docs -> {"report", "flag", "done"}]  BY DEF RetryInit
<1>10. /\ skipped \subseteq opened /\ cursor \subseteq opened /\ opened \subseteq Docs
       /\ succeeded \subseteq opened /\ failed \subseteq opened
       /\ main = "idle" /\ docsClosed \in BOOLEAN /\ resultsClosed \in BOOLEAN
       /\ collecting \in BOOLEAN /\ cancelled \in BOOLEAN /\ errorSeen \in BOOLEAN
       BY DEF RetryInit
<1> QED  BY <1>6, <1>7, <1>8, <1>9, <1>10 DEF RunInv

\* Every step keeps the types.
LEMMA RunStep == RunInv /\ [RetryNext]_retryVars => RunInv'
<1> SUFFICES ASSUME RunInv, [RetryNext]_retryVars PROVE RunInv'  OBVIOUS
<1>1. ASSUME NEW g \in Goroutines, Work(g) PROVE RunInv'  BY <1>1, RunWork
<1>2. ASSUME NEW d \in Docs, HandlerReport(d) \/ HandlerFlag(d) PROVE RunInv'
  <2>1. handler' \in [Docs -> {"report", "flag", "done"}]
        BY <1>2 DEF RunInv, HandlerReport, HandlerFlag
  <2>2. UNCHANGED <<requestVars, streamVars, docChan, job, resultChans, resultsClosed,
                    responseVars, cancelled>>
        BY <1>2 DEF HandlerReport, HandlerFlag
  <2> QED  BY <2>1, <2>2
           DEF RunInv, requestVars, streamVars, resultChans, responseVars
<1>3. CASE StartRun
  <2>1. /\ IdleJob \in JobState /\ IdleJob.batch = {} /\ IdleJob.ok = {} /\ IdleJob.bad = {}
        /\ IdleJob.pc = "take"
        BY DEF IdleJob, JobState
  <2>2. Cardinality(IdleJob.batch) = 0  BY <2>1, FS_EmptySet, Zenon
  <2>3. ASSUME NEW S PROVE IdleJob \in FitJobs(S)
        BY <2>1, <2>2, RetryAssumption DEF FitJobs
  <2>4. job' \in [Goroutines -> FitJobs(opened')]  BY <1>3, <2>3 DEF StartRun
  <2>5. runs' \in 0..MaxRuns  BY <1>3, RetryAssumption DEF StartRun, RunInv
  <2>6. /\ docChan' \in Seq(opened') /\ Len(docChan') <= BufferSize
        /\ successChan' \in Seq(SUBSET opened') /\ Len(successChan') <= BufferSize
        /\ failureChan' \in Seq(SUBSET opened') /\ Len(failureChan') <= BufferSize
        BY <1>3, EmptyChannel DEF StartRun
  <2>7. /\ opened' \subseteq Docs /\ skipped' \subseteq opened' /\ cursor' \subseteq opened'
        /\ succeeded' \subseteq opened' /\ failed' \subseteq opened' /\ main' = "streaming"
        /\ docsClosed' \in BOOLEAN /\ resultsClosed' \in BOOLEAN /\ collecting' \in BOOLEAN
        /\ cancelled' \in BOOLEAN /\ errorSeen' \in BOOLEAN
        BY <1>3 DEF StartRun, Unflagged, NewResponse
  <2>8. errorChan' \in 0..BufferSize /\ handler' = handler
        BY <1>3, RetryAssumption DEF StartRun
  <2> QED  BY <2>4, <2>5, <2>6, <2>7, <2>8 DEF RunInv
<1>4. ASSUME NEW d \in Docs, StreamDocument(d) PROVE RunInv'
  <2>1. /\ cursor' \subseteq opened /\ skipped' \subseteq opened
        /\ docChan' \in Seq(opened) /\ Len(docChan') <= BufferSize
        BY <1>4, Channels, ZenonT(60) DEF StreamDocument, RunInv
  <2>2. UNCHANGED <<handler, requestVars, docsClosed, job, resultChans, resultsClosed,
                    responseVars, cancelled>>
        BY <1>4 DEF StreamDocument
  <2> QED  BY <2>1, <2>2 DEF RunInv, requestVars, resultChans, responseVars
<1>5. CASE StreamEnd
      BY <1>5, RetryAssumption DEF StreamEnd, RunInv, responseVars
<1>6. CASE Join \/ Respond \/ Cancel
      BY <1>6 DEF Join, Respond, Cancel, RunInv, requestVars, streamVars, resultChans,
                  responseVars
<1>7. CASE Collect
  <2>1. UNCHANGED <<handler, requestVars, streamVars, docChan, job, resultsClosed, cancelled>>
        BY <1>7 DEF Collect
  <2>2. ASSUME successChan' \in Seq(SUBSET opened), Len(successChan') <= BufferSize,
               failureChan' \in Seq(SUBSET opened), Len(failureChan') <= BufferSize,
               errorChan' \in 0..BufferSize, collecting' \in BOOLEAN, errorSeen' \in BOOLEAN,
               succeeded' \subseteq opened, failed' \subseteq opened
        PROVE  RunInv'
        BY <2>1, <2>2 DEF RunInv, requestVars, streamVars
  <2>3. /\ successChan \in Seq(SUBSET opened) /\ Len(successChan) <= BufferSize
        /\ failureChan \in Seq(SUBSET opened) /\ Len(failureChan) <= BufferSize
        /\ errorChan \in 0..BufferSize /\ errorSeen \in BOOLEAN
        /\ succeeded \subseteq opened /\ failed \subseteq opened
        BY DEF RunInv
  <2>4. CASE CollectSuccess
    <3>1. /\ successChan' \in Seq(SUBSET opened) /\ Len(successChan') <= BufferSize
          /\ Head(successChan) \in SUBSET opened
          BY <2>3, <2>4, Channels DEF CollectSuccess
    <3> QED  BY <2>2, <2>3, <2>4, <3>1 DEF CollectSuccess
  <2>5. CASE CollectFailure
    <3>1. /\ failureChan' \in Seq(SUBSET opened) /\ Len(failureChan') <= BufferSize
          /\ Head(failureChan) \in SUBSET opened
          BY <2>3, <2>5, Channels DEF CollectFailure
    <3> QED  BY <2>2, <2>3, <2>5, <3>1 DEF CollectFailure
  <2>6. CASE CollectError
    <3>1. errorChan' \in 0..BufferSize  BY <2>3, <2>6, RetryAssumption DEF CollectError
    <3> QED  BY <2>2, <2>3, <2>6, <3>1 DEF CollectError
  <2>7. CASE CollectEnd  BY <2>2, <2>3, <2>7 DEF CollectEnd, resultChans
  <2> QED  BY <1>7, <2>4, <2>5, <2>6, <2>7 DEF Collect
<1>8. CASE UNCHANGED retryVars
      BY <1>8 DEF RunInv, retryVars, requestVars, streamVars, resultChans, responseVars
<1> QED  BY <1>1, <1>2, <1>3, <1>4, <1>5, <1>6, <1>7, <1>8 DEF RetryNext, Stream

\* A run of the retry service keeps to its types: no channel and no batch
\* outgrows its configured size, and everything it holds was selected by its
\* cursor.
THEOREM RetryTypeCorrect == RetrySpec => []RetryTypeOK
<1>1. RetryInv /\ RunInv => RetryTypeOK
  <2> SUFFICES ASSUME RetryInv, RunInv PROVE RetryTypeOK  OBVIOUS
  <2>1. published \in [Docs -> Nat] /\ flagged \subseteq Docs /\ job \in [Goroutines -> JobState]
        BY DEF RetryInv
  <2>2. \A g \in Goroutines : Cardinality(job[g].batch) <= MaxBatch  BY DEF RunInv, FitJobs
  <2>3. successChan \in Seq(SUBSET Docs) /\ failureChan \in Seq(SUBSET Docs)
        BY DEF RunInv
  <2> QED  BY <2>1, <2>2, <2>3 DEF RunInv, RetryTypeOK
<1>2. RunInv => docChan \in Seq(Docs)  BY DEF RunInv
<1> QED  BY <1>1, <1>2, RetryStart, RetryStep, RunStart, RunStep, PTL DEF RetrySpec

-----------------------------------------------------------------------------
\* Where a document a run has selected and not yet handled is: in the cursor,
\* in the channel, or in the batch of a goroutine.
Holds(channel, d) == \E i \in 1..Len(channel) : channel[i] = d
Distinct(channel) == \A i, k \in 1..Len(channel) : channel[i] = channel[k] => i = k
InBatch(d) == \E g \in Goroutines : d \in job[g].batch
Unsent(d) == d \in cursor \/ Holds(docChan, d) \/ InBatch(d)

\* It is in one place only, so one goroutine handles it, once.
OnePlace ==
    /\ Distinct(docChan)
    /\ \A d \in cursor : ~Holds(docChan, d) /\ ~InBatch(d)
    /\ \A d \in Docs : Holds(docChan, d) => ~InBatch(d)
    /\ \A g, h \in Goroutines, d \in Docs : d \in job[g].batch /\ d \in job[h].batch => g = h

\* What may still publish a document, its handler or this run, is paid for.
OnceInv ==
    \A d \in Docs :
       published[d] + (IF handler[d] = "report" THEN 1 ELSE 0) + (IF Unsent(d) THEN 1 ELSE 0)
         <= runs + 1

\* Receiving a document from a channel, and sending one.
LEMMA ReceiveDocument ==
    ASSUME NEW S, NEW c \in Seq(S), c # <<>>, Distinct(c)
    PROVE  /\ Distinct(Tail(c)) /\ Holds(c, Head(c))
           /\ \A d : Holds(Tail(c), d) <=> Holds(c, d) /\ d # Head(c)
<1>1. /\ Len(Tail(c)) = Len(c) - 1 /\ Len(c) \in Nat \ {0} /\ Head(c) = c[1]
      /\ \A i \in 1..Len(Tail(c)) : Tail(c)[i] = c[i + 1]
      OBVIOUS
<1>2. Distinct(Tail(c))  BY <1>1 DEF Distinct
<1>3. ASSUME NEW d, Holds(Tail(c), d) PROVE Holds(c, d) /\ d # Head(c)
  <2>1. PICK i \in 1..Len(Tail(c)) : Tail(c)[i] = d  BY <1>3 DEF Holds
  <2>2. i + 1 \in 1..Len(c) /\ c[i + 1] = d /\ 1 \in 1..Len(c) /\ i + 1 # 1  BY <1>1, <2>1
  <2> QED  BY <1>1, <2>2 DEF Holds, Distinct
<1>4. ASSUME NEW d, Holds(c, d), d # Head(c) PROVE Holds(Tail(c), d)
  <2>1. PICK i \in 1..Len(c) : c[i] = d  BY <1>4 DEF Holds
  <2>2. i # 1  BY <1>1, <1>4, <2>1
  <2>3. i - 1 \in 1..Len(Tail(c)) /\ Tail(c)[i - 1] = c[(i - 1) + 1] /\ (i - 1) + 1 = i
        BY <1>1, <2>1, <2>2
  <2> QED  BY <2>1, <2>3 DEF Holds
<1>5. Holds(c, Head(c))  BY <1>1 DEF Holds
<1> QED  BY <1>2, <1>3, <1>4, <1>5

LEMMA SendDocument ==
    ASSUME NEW S, NEW c \in Seq(S), NEW e \in S, Distinct(c), ~Holds(c, e)
    PROVE  /\ Distinct(Append(c, e))
           /\ \A d : Holds(Append(c, e), d) <=> Holds(c, d) \/ d = e
<1> DEFINE a == Append(c, e)
<1>1. /\ Len(c) \in Nat /\ Len(a) = Len(c) + 1 /\ a[Len(c) + 1] = e
      /\ \A i \in 1..Len(c) : a[i] = c[i]
      OBVIOUS
<1> HIDE DEF a
<1>2. \A i \in 1..Len(a) : i \in 1..Len(c) \/ i = Len(c) + 1  BY <1>1
<1>3. Distinct(a)  BY <1>1, <1>2 DEF Distinct, Holds
<1>4. \A i \in 1..Len(c) : i \in 1..Len(a)  BY <1>1
<1>5. Len(c) + 1 \in 1..Len(a)  BY <1>1
<1>6. \A d : Holds(a, d) <=> Holds(c, d) \/ d = e  BY <1>1, <1>2, <1>4, <1>5 DEF Holds
<1> QED  BY <1>3, <1>6 DEF a

\* Only taking a document adds to a batch.
LEMMA BatchesShrink ==
    ASSUME RunInv, NEW g \in Goroutines, Work(g), ~TakeDocument(g), ~PublishDocument(g)
    PROVE  /\ UNCHANGED <<published, handler, runs, cursor, docChan>>
           /\ \A h \in Goroutines : job'[h].batch \subseteq job[h].batch
<1>1. UNCHANGED <<published, handler, runs, cursor, docChan>>
      BY DEF Work, FlushBatch, LastBatch, SendSuccess, FlagBatch, SendError, SendFailure,
             docVars, requestVars, streamVars
<1> DEFINE j == job[g]
<1>2. j \in FitJobs(opened) /\ job \in [Goroutines -> FitJobs(opened)]  BY DEF RunInv
<1>3. Returned(j).batch = {}  BY <1>2, ReturnedFits
<1>4. AfterUpdate(j).batch \subseteq j.batch
      BY <1>2, <1>3 DEF AfterUpdate, FitJobs, JobState
<1>5. ASSUME NEW pc, NEW last
      PROVE  /\ [j EXCEPT !.pc = pc].batch = j.batch
             /\ [j EXCEPT !.pc = pc, !.last = last].batch = j.batch
      BY <1>2 DEF FitJobs, JobState
<1>6. ASSUME NEW k, SetJob(g, k), k.batch \subseteq j.batch
      PROVE  \A h \in Goroutines : job'[h].batch \subseteq job[h].batch
      BY <1>2, <1>6 DEF SetJob
<1>7. \E k : SetJob(g, k) /\ k.batch \subseteq j.batch
  <2>1. CASE FlushBatch(g)  BY <1>5, <2>1 DEF FlushBatch
  <2>2. CASE LastBatch(g)
    <3> DEFINE pc == IF j.batch = {} THEN "exit" ELSE "publish"
    <3>1. SetJob(g, [j EXCEPT !.pc = pc, !.last = TRUE])  BY <2>2 DEF LastBatch
    <3> HIDE DEF pc
    <3> QED  BY <1>5, <3>1, ZenonT(60)
  <2>3. CASE SendSuccess(g)  BY <1>3, <1>5, <2>3 DEF SendSuccess, GiveUp
  <2>4. CASE FlagBatch(g)  BY <1>4, <1>5, <2>4 DEF FlagBatch
  <2>5. CASE SendError(g)  BY <1>3, <1>4, <2>5 DEF SendError, GiveUp
  <2>6. CASE SendFailure(g)  BY <1>3, <2>6 DEF SendFailure, GiveUp
  <2> QED  BY <2>1, <2>2, <2>3, <2>4, <2>5, <2>6 DEF Work
<1> QED  BY <1>1, <1>6, <1>7

\* A document taken moves from the channel to the batch.
LEMMA TakeMoves ==
    ASSUME RunInv, OnePlace, NEW g \in Goroutines, TakeDocument(g)
    PROVE  OnePlace' /\ \A d : Unsent(d)' <=> Unsent(d)
<1> DEFINE e == Head(docChan)
<1>1. /\ e \in opened /\ opened \subseteq Docs
      /\ \A h \in Goroutines \ {g} : job'[h] = job[h]
      /\ job'[g].batch = job[g].batch \cup {e}
      BY TakeFits DEF RunInv
<1>2. cursor' = cursor /\ docChan' = Tail(docChan)  BY DEF TakeDocument, streamVars
<1>3. /\ Distinct(docChan') /\ Holds(docChan, e)
      /\ \A d : Holds(docChan', d) <=> Holds(docChan, d) /\ d # e
      BY <1>2, ReceiveDocument DEF TakeDocument, RunInv, OnePlace
<1>4. \A d : InBatch(d)' <=> InBatch(d) \/ d = e  BY <1>1 DEF InBatch
<1>5. ~InBatch(e) /\ e \notin cursor  BY <1>1, <1>3 DEF OnePlace
<1> HIDE DEF e
<1>6. ASSUME NEW h \in Goroutines, NEW k \in Goroutines, NEW d \in Docs,
             d \in job'[h].batch, d \in job'[k].batch
      PROVE  h = k
  <2>1. CASE d = e
    <3>1. \A x \in Goroutines \ {g} : d \notin job'[x].batch  BY <1>1, <1>5, <2>1 DEF InBatch
    <3> QED  BY <1>6, <3>1
  <2>2. CASE d # e
    <3>1. d \in job[h].batch /\ d \in job[k].batch  BY <1>1, <1>6, <2>2
    <3> QED  BY <3>1 DEF OnePlace
  <2> QED  BY <2>1, <2>2
<1>7. \A d \in cursor' : ~Holds(docChan', d) /\ ~InBatch(d)'
      BY <1>2, <1>3, <1>4, <1>5 DEF OnePlace
<1>8. \A d \in Docs : Holds(docChan', d) => ~InBatch(d)'
      BY <1>3, <1>4 DEF OnePlace
<1>9. OnePlace'  BY <1>3, <1>6, <1>7, <1>8 DEF OnePlace
<1>10. \A d : Unsent(d)' <=> Unsent(d)  BY <1>2, <1>3, <1>4 DEF Unsent
<1> QED  BY <1>9, <1>10

\* Batches that lose documents leave the others where they are.
LEMMA ShrinkMoves ==
    ASSUME OnePlace, UNCHANGED <<cursor, docChan>>,
           \A h \in Goroutines : job'[h].batch \subseteq job[h].batch
    PROVE  OnePlace' /\ \A d : Unsent(d)' => Unsent(d)
<1>1. \A d : InBatch(d)' => InBatch(d)  BY DEF InBatch
<1> QED  BY <1>1 DEF OnePlace, Unsent

\* A document published, or not, is not handled again by this run.
LEMMA PublishMoves ==
    ASSUME RunInv, OnePlace, NEW g \in Goroutines, NEW d \in job[g].batch, d \in Docs,
           UNCHANGED <<cursor, docChan>>,
           \A h \in Goroutines \ {g} : job'[h] = job[h],
           job'[g].batch = job[g].batch \ {d}
    PROVE  /\ OnePlace' /\ Unsent(d) /\ ~Unsent(d)'
           /\ \A e : e # d => (Unsent(e)' <=> Unsent(e))
<1>1. \A h \in Goroutines : job'[h].batch \subseteq job[h].batch  OBVIOUS
<1>2. OnePlace'  BY <1>1, ShrinkMoves
<1>3. InBatch(d)  BY DEF InBatch
<1>4. d \notin cursor /\ ~Holds(docChan, d)  BY <1>3 DEF OnePlace
<1>5. ~InBatch(d)'  BY DEF InBatch, OnePlace
<1>6. \A e : e # d => (InBatch(e)' <=> InBatch(e))  BY DEF InBatch
<1> QED  BY <1>2, <1>3, <1>4, <1>5, <1>6 DEF Unsent

\* A goroutine that publishes handles one document, or gives up all it has.
LEMMA PublishHandles ==
    ASSUME RunInv, OnePlace, NEW g \in Goroutines, PublishDocument(g)
    PROVE  \E d \in Docs :
             /\ MaybePublish(d) /\ OnePlace' /\ Unsent(d) /\ ~Unsent(d)'
             /\ \A e : Unsent(e)' => Unsent(e)
<1>1. PICK d \in job[g].batch :
        /\ d \in opened /\ MaybePublish(d)
        /\ \A h \in Goroutines \ {g} : job'[h] = job[h]
        /\ job'[g].batch = job[g].batch \ {d} \/ job'[g].batch = {}
      BY PublishFits DEF MaybePublish
<1>2. d \in Docs /\ UNCHANGED <<cursor, docChan>>
      BY <1>1 DEF PublishDocument, RunInv, streamVars
<1>3. CASE job'[g].batch = job[g].batch \ {d}
  <2>1. /\ OnePlace' /\ Unsent(d) /\ ~Unsent(d)'
        /\ \A e : e # d => (Unsent(e)' <=> Unsent(e))
        BY <1>1, <1>2, <1>3, PublishMoves
  <2> QED  BY <1>1, <1>2, <2>1
<1>4. CASE job'[g].batch = {}
  <2>1. \A h \in Goroutines : job'[h].batch \subseteq job[h].batch  BY <1>1, <1>4
  <2>2. OnePlace' /\ \A e : Unsent(e)' => Unsent(e)  BY <1>2, <2>1, ShrinkMoves
  <2>3. InBatch(d)  BY DEF InBatch
  <2>4. d \notin cursor /\ ~Holds(docChan, d)  BY <1>2, <2>3 DEF OnePlace
  <2>5. ~InBatch(d)'  BY <1>1, <1>2, <1>4 DEF InBatch, OnePlace
  <2>6. Unsent(d) /\ ~Unsent(d)'  BY <1>2, <2>3, <2>4, <2>5 DEF Unsent
  <2> QED  BY <1>1, <1>2, <2>2, <2>6
<1> QED  BY <1>1, <1>3, <1>4

\* What no step adds to, stays in one place and paid for.
LEMMA OnceKept ==
    ASSUME OnceInv, UNCHANGED <<published, runs>>,
           \A d \in Docs : Unsent(d)' => Unsent(d),
           \A d \in Docs : handler'[d] = "report" => handler[d] = "report",
           published \in [Docs -> Nat], runs \in Nat
    PROVE  OnceInv'
<1> SUFFICES ASSUME NEW d \in Docs
             PROVE  published'[d] + (IF handler'[d] = "report" THEN 1 ELSE 0)
                      + (IF Unsent(d)' THEN 1 ELSE 0) <= runs' + 1
    BY DEF OnceInv
<1>1. published[d] + (IF handler[d] = "report" THEN 1 ELSE 0)
        + (IF Unsent(d) THEN 1 ELSE 0) <= runs + 1
      BY DEF OnceInv
<1> QED  BY <1>1

\* A goroutine publishes a document at most once.
LEMMA OnceWork ==
    ASSUME RetryInv, RunInv, OnePlace, OnceInv, NEW g \in Goroutines, Work(g)
    PROVE  OnePlace' /\ OnceInv'
<1>1. published \in [Docs -> Nat] /\ runs \in Nat  BY RetryAssumption DEF RetryInv, RunInv
<1>2. CASE TakeDocument(g)
  <2>1. UNCHANGED <<published, handler, runs>>  BY <1>2 DEF TakeDocument, docVars, requestVars
  <2> QED  BY <1>1, <1>2, <2>1, TakeMoves, OnceKept
<1>3. CASE PublishDocument(g)
  <2>1. PICK d \in Docs :
          /\ MaybePublish(d) /\ OnePlace' /\ Unsent(d) /\ ~Unsent(d)'
          /\ \A e : Unsent(e)' => Unsent(e)
        BY <1>3, PublishHandles
  <2>2. UNCHANGED <<handler, runs>>  BY <1>3 DEF PublishDocument, requestVars
  <2>3. /\ published'[d] <= published[d] + 1
        /\ \A e \in Docs : e # d => published'[e] = published[e]
        /\ published' \in [Docs -> Nat]
        BY <1>1, <2>1, <2>2 DEF MaybePublish, Publish
  <2>4. OnePlace' /\ Unsent(d) /\ ~Unsent(d)' /\ \A e : Unsent(e)' => Unsent(e)
        BY <2>1
  <2>5. ASSUME NEW e \in Docs
        PROVE  published'[e] + (IF handler'[e] = "report" THEN 1 ELSE 0)
                 + (IF Unsent(e)' THEN 1 ELSE 0) <= runs' + 1
    <3>1. published[e] + (IF handler[e] = "report" THEN 1 ELSE 0)
            + (IF Unsent(e) THEN 1 ELSE 0) <= runs + 1
          BY DEF OnceInv
    <3>2. handler' = handler /\ runs' = runs  BY <2>2
    <3>3. published[e] \in Nat /\ published'[e] \in Nat  BY <1>1, <2>3
    <3>4. CASE e = d  BY <1>1, <2>3, <2>4, <3>1, <3>2, <3>3, <3>4
    <3>5. CASE e # d  BY <1>1, <2>3, <2>4, <3>1, <3>2, <3>3, <3>5
    <3> QED  BY <3>4, <3>5
  <2> QED  BY <2>4, <2>5 DEF OnceInv
<1>4. CASE ~TakeDocument(g) /\ ~PublishDocument(g)
      BY <1>1, <1>4, BatchesShrink, ShrinkMoves, OnceKept
<1> QED  BY <1>2, <1>3, <1>4

\* Every step keeps each document in one place and paid for.
LEMMA OnceStep ==
    RetryInv /\ RunInv /\ OnePlace /\ OnceInv /\ [RetryNext]_retryVars
      => OnePlace' /\ OnceInv'
<1> SUFFICES ASSUME RetryInv, RunInv, OnePlace, OnceInv, [RetryNext]_retryVars
             PROVE  OnePlace' /\ OnceInv'
    OBVIOUS
<1>0. published \in [Docs -> Nat] /\ runs \in Nat  BY RetryAssumption DEF RetryInv, RunInv
<1>1. ASSUME NEW g \in Goroutines, Work(g) PROVE OnePlace' /\ OnceInv'
      BY <1>1, OnceWork
<1>2. ASSUME UNCHANGED <<cursor, docChan, job>>
      PROVE  OnePlace' /\ \A d : Unsent(d)' <=> Unsent(d)
      BY <1>2 DEF OnePlace, Unsent, InBatch
<1>3. ASSUME NEW d \in Docs, HandlerReport(d) PROVE OnePlace' /\ OnceInv'
  <2>1. UNCHANGED <<cursor, docChan, job, runs>> /\ MaybePublish(d)
        BY <1>3 DEF HandlerReport, streamVars, requestVars, MaybePublish
  <2>2. /\ handler[d] = "report" /\ handler'[d] # "report"
        /\ \A e \in Docs : e # d => handler'[e] = handler[e]
        BY <1>3 DEF HandlerReport, RunInv
  <2>3. /\ published'[d] <= published[d] + 1 /\ published' \in [Docs -> Nat]
        /\ \A e \in Docs : e # d => published'[e] = published[e]
        BY <1>0, <2>1 DEF MaybePublish, Publish
  <2>4. ASSUME NEW e \in Docs
        PROVE  published'[e] + (IF handler'[e] = "report" THEN 1 ELSE 0)
                 + (IF Unsent(e)' THEN 1 ELSE 0) <= runs' + 1
    <3>1. published[e] + (IF handler[e] = "report" THEN 1 ELSE 0)
            + (IF Unsent(e) THEN 1 ELSE 0) <= runs + 1
          BY DEF OnceInv
    <3>2. runs' = runs /\ (Unsent(e)' <=> Unsent(e))  BY <1>2, <2>1
    <3>3. published[e] \in Nat /\ published'[e] \in Nat  BY <1>0, <2>3
    <3>4. CASE e = d  BY <1>0, <2>2, <2>3, <3>1, <3>2, <3>3, <3>4
    <3>5. CASE e # d  BY <1>0, <2>2, <2>3, <3>1, <3>2, <3>3, <3>5
    <3> QED  BY <3>4, <3>5
  <2> QED  BY <1>2, <2>1, <2>4 DEF OnceInv
<1>4. ASSUME NEW d \in Docs, HandlerFlag(d) PROVE OnePlace' /\ OnceInv'
  <2>1. UNCHANGED <<published, runs, cursor, docChan, job>>
        BY <1>4 DEF HandlerFlag, streamVars, requestVars
  <2>2. \A e \in Docs : handler'[e] = "report" => handler[e] = "report"
        BY <1>4 DEF HandlerFlag, RunInv
  <2> QED  BY <1>0, <1>2, <2>1, <2>2, OnceKept
<1>5. CASE StartRun
  <2>1. /\ docChan' = <<>> /\ runs' = runs + 1 /\ UNCHANGED <<published, handler>>
        /\ \A g \in Goroutines : job'[g].batch = {}
        BY <1>5 DEF StartRun, docVars, IdleJob
  <2>2. \A d : ~Holds(docChan', d) /\ ~InBatch(d)'  BY <2>1 DEF Holds, InBatch
  <2>3. Distinct(docChan')  BY <2>1 DEF Distinct
  <2>4. OnePlace'  BY <2>1, <2>2, <2>3 DEF OnePlace
  <2>5. ASSUME NEW d \in Docs
        PROVE  published'[d] + (IF handler'[d] = "report" THEN 1 ELSE 0)
                 + (IF Unsent(d)' THEN 1 ELSE 0) <= runs' + 1
    <3>1. published[d] + (IF handler[d] = "report" THEN 1 ELSE 0)
            + (IF Unsent(d) THEN 1 ELSE 0) <= runs + 1
          BY DEF OnceInv
    <3> QED  BY <1>0, <2>1, <3>1
  <2> QED  BY <2>4, <2>5 DEF OnceInv
<1>6. ASSUME NEW d \in Docs, StreamDocument(d) PROVE OnePlace' /\ OnceInv'
  <2>1. /\ d \in cursor /\ cursor' = cursor \ {d}
        /\ UNCHANGED <<published, handler, runs, job>>
        /\ docChan' = Append(docChan, d) \/ docChan' = docChan
        BY <1>6 DEF StreamDocument, docVars, requestVars
  <2>2. /\ Distinct(docChan')
        /\ \A e : Holds(docChan', e) => Holds(docChan, e) \/ e = d
    <3>1. ~Holds(docChan, d) /\ Distinct(docChan)  BY <2>1 DEF OnePlace
    <3>2. docChan \in Seq(opened) /\ d \in opened  BY <2>1 DEF RunInv
    <3>3. CASE docChan' = docChan  BY <3>1, <3>3
    <3>4. CASE docChan' = Append(docChan, d)  BY <3>1, <3>2, <3>4, SendDocument
    <3> QED  BY <2>1, <3>3, <3>4
  <2>3. \A e : InBatch(e)' <=> InBatch(e)  BY <2>1 DEF InBatch
  <2>4. OnePlace'  BY <2>1, <2>2, <2>3 DEF OnePlace
  <2>5. \A e : Unsent(e)' => Unsent(e)  BY <2>1, <2>2, <2>3 DEF Unsent
  <2> QED  BY <1>0, <2>1, <2>4, <2>5, OnceKept
<1>7. CASE StreamEnd
  <2>1. cursor' = {} /\ UNCHANGED <<published, handler, runs, docChan, job>>
        BY <1>7 DEF StreamEnd, docVars
  <2>2. OnePlace' /\ \A e : Unsent(e)' => Unsent(e)
        BY <2>1 DEF OnePlace, Unsent, InBatch
  <2> QED  BY <1>0, <2>1, <2>2, OnceKept
<1>8. CASE Join \/ Respond \/ Cancel \/ Collect \/ UNCHANGED retryVars
  <2>1. UNCHANGED <<published, handler, runs, cursor, docChan, job>>
        BY <1>8 DEF Join, Respond, Cancel, Collect, retryVars, docVars, requestVars, streamVars
  <2> QED  BY <1>0, <1>2, <2>1, OnceKept
<1> QED  BY <1>1, <1>3, <1>4, <1>5, <1>6, <1>7, <1>8 DEF RetryNext, Stream

\* Nothing is published before its handler reports it.
LEMMA OnceStart == RetryInit => OnePlace /\ OnceInv
<1> SUFFICES ASSUME RetryInit PROVE OnePlace /\ OnceInv  OBVIOUS
<1>1. /\ docChan = <<>> /\ cursor = {} /\ runs = 0 /\ published = [d \in Docs |-> 0]
      /\ \A g \in Goroutines : job[g].batch = {}
      BY DEF RetryInit, IdleJob
<1>2. \A d : ~Holds(docChan, d) /\ ~InBatch(d)  BY <1>1 DEF Holds, InBatch
<1>3. Distinct(docChan)  BY <1>1 DEF Distinct
<1>4. OnePlace  BY <1>1, <1>2, <1>3 DEF OnePlace
<1>5. \A d : ~Unsent(d)  BY <1>1, <1>2 DEF Unsent
<1> QED  BY <1>1, <1>4, <1>5 DEF OnceInv

\* However often and wherever runs are cancelled or fail, a run publishes a
\* collection at most once, and the handler that stored it at most once.
THEOREM RunsPublishOnce == RetrySpec => []PublishedPerRun
<1>1. RetryInv /\ RunInv /\ OnceInv => PublishedPerRun
  <2> SUFFICES ASSUME RetryInv, RunInv, OnceInv, NEW d \in Docs
               PROVE  published[d] <= runs + 1
      BY DEF PublishedPerRun
  <2>1. published[d] + (IF handler[d] = "report" THEN 1 ELSE 0)
          + (IF Unsent(d) THEN 1 ELSE 0) <= runs + 1
        BY DEF OnceInv
  <2>2. published[d] \in Nat /\ runs \in Nat  BY DEF RetryInv, RunInv
  <2> QED  BY <2>1, <2>2
<1>2. RunInv => docChan \in Seq(Docs)  BY DEF RunInv
<1> QED  BY <1>1, <1>2, RetryStart, RetryStep, RunStart, RunStep, OnceStart, OnceStep, PTL
         DEF RetrySpec

-----------------------------------------------------------------------------
\* How a run ends: the stream closes its channel, every goroutine sees it
\* empty or the context done, and the collector, unless it is cancelled, stops
\* after the pool, with nothing left to collect.
EndInv ==
    /\ docsClosed <=> main # "streaming"
    /\ docsClosed => cursor = {}
    /\ resultsClosed <=> main \in {"awaiting", "idle"}
    /\ main \in {"awaiting", "idle"} => \A g \in Goroutines : job[g].pc = "exit"
    /\ \A g \in Goroutines : job[g].last => (docsClosed /\ docChan = <<>>) \/ cancelled
    /\ \A g \in Goroutines : job[g].pc = "exit" /\ main # "idle" => job[g].last
    /\ ~collecting /\ ~cancelled => main \in {"awaiting", "idle"}
    /\ main = "awaiting" /\ ~collecting /\ ~cancelled =>
         successChan = <<>> /\ failureChan = <<>> /\ errorChan = 0

\* A goroutine ends once it has seen the end.
LEMMA WorkEnds ==
    ASSUME RunInv, NEW g \in Goroutines, Work(g)
    PROVE  /\ job[g].pc # "exit" /\ \A h \in Goroutines \ {g} : job'[h] = job[h]
           /\ job'[g].last => job[g].last \/ (docsClosed /\ docChan = <<>>) \/ cancelled
           /\ job'[g].pc = "exit" => job'[g].last
           /\ docChan = <<>> => docChan' = <<>>
           /\ UNCHANGED <<runs, main, opened, skipped, cursor, docsClosed, resultsClosed,
                          collecting, succeeded, failed, errorSeen, cancelled>>
<1> DEFINE j == job[g]
<1>1. j \in FitJobs(opened) /\ job \in [Goroutines -> FitJobs(opened)]  BY DEF RunInv
<1>2. /\ Returned(j).last = j.last /\ Returned(j).pc = IF j.last THEN "exit" ELSE "take"
      BY <1>1, ReturnedFits
<1>3. /\ AfterUpdate(j).last = j.last
      /\ AfterUpdate(j).pc = "exit" => j.last
      BY <1>1, <1>2 DEF AfterUpdate, FitJobs, JobState
<1>4. ASSUME NEW pc, NEW last
      PROVE  /\ [j EXCEPT !.pc = pc].last = j.last /\ [j EXCEPT !.pc = pc].pc = pc
             /\ [j EXCEPT !.pc = pc, !.last = last].last = last
      BY <1>1 DEF FitJobs, JobState
<1>5. /\ UNCHANGED <<runs, main, opened, skipped, cursor, docsClosed, resultsClosed,
                     collecting, succeeded, failed, errorSeen, cancelled>>
      /\ j.pc # "exit"
      BY DEF Work, TakeDocument, FlushBatch, LastBatch, PublishDocument, SendSuccess, Waits,
             FlagBatch, SendError, SendFailure, docVars, requestVars, streamVars, responseVars
<1>6. ASSUME NEW k, SetJob(g, k), UNCHANGED docChan,
             k.last => j.last \/ (docsClosed /\ docChan = <<>>) \/ cancelled,
             k.pc = "exit" => k.last
      PROVE  /\ \A h \in Goroutines \ {g} : job'[h] = job[h]
             /\ job'[g].last => j.last \/ (docsClosed /\ docChan = <<>>) \/ cancelled
             /\ job'[g].pc = "exit" => job'[g].last
             /\ docChan = <<>> => docChan' = <<>>
  <2>1. job'[g] = k /\ \A h \in Goroutines \ {g} : job'[h] = job[h]
        BY <1>1, <1>6 DEF SetJob
  <2> QED  BY <1>6, <2>1
<1>7. CASE TakeDocument(g)
  <2>1. docChan # <<>>  BY <1>7 DEF TakeDocument
  <2> QED  BY <1>5, <1>7, <2>1, TakeFits
<1>8. CASE FlushBatch(g)  BY <1>4, <1>5, <1>6, <1>8, ZenonT(60) DEF FlushBatch
<1>9. CASE LastBatch(g)
  <2> DEFINE pc == IF j.batch = {} THEN "exit" ELSE "publish"
  <2>1. SetJob(g, [j EXCEPT !.pc = pc, !.last = TRUE]) /\ UNCHANGED docChan
        BY <1>9 DEF LastBatch
  <2>2. (docsClosed /\ docChan = <<>>) \/ cancelled  BY <1>9 DEF LastBatch
  <2> DEFINE k == [j EXCEPT !.pc = pc, !.last = TRUE]
  <2>3. k.last = TRUE  BY <1>4
  <2> HIDE DEF k
  <2> QED  BY <1>5, <1>6, <2>1, <2>2, <2>3 DEF k
<1>10. CASE PublishDocument(g)
  <2>1. UNCHANGED docChan  BY <1>10 DEF PublishDocument
  <2>2. PICK d \in job[g].batch : /\ \A h \in Goroutines \ {g} : job'[h] = job[h]
                                  /\ job'[g].last = job[g].last
                                  /\ job'[g].pc = "exit" => job[g].last
        BY <1>10, PublishFits
  <2> QED  BY <1>5, <2>1, <2>2
<1>11. CASE SendSuccess(g)  BY <1>2, <1>4, <1>5, <1>6, <1>11, ZenonT(60) DEF SendSuccess, GiveUp
<1> DEFINE after == AfterUpdate(j)
<1>0. (after.last <=> j.last) /\ (after.pc = "exit" => after.last)
       BY <1>1, <1>3
<1> HIDE DEF after
<1>12. CASE FlagBatch(g)
  <2>1. /\ SetJob(g, after) \/ SetJob(g, [j EXCEPT !.pc = "error"])
        /\ UNCHANGED docChan
        BY <1>12 DEF FlagBatch, after
  <2> QED  BY <1>4, <1>5, <1>6, <1>0, <2>1
<1>13. CASE SendError(g)
  <2>1. (SetJob(g, after) \/ SetJob(g, Returned(j))) /\ UNCHANGED docChan
        BY <1>13 DEF SendError, GiveUp, after
  <2> QED  BY <1>2, <1>5, <1>6, <1>0, <2>1
<1>14. CASE SendFailure(g)  BY <1>2, <1>5, <1>6, <1>14 DEF SendFailure, GiveUp
<1> QED  BY <1>7, <1>8, <1>9, <1>10, <1>11, <1>12, <1>13, <1>14 DEF Work

\* Every step keeps to that order.
LEMMA EndStep == RunInv /\ EndInv /\ [RetryNext]_retryVars => EndInv'
<1> SUFFICES ASSUME RunInv, EndInv, [RetryNext]_retryVars PROVE EndInv'  OBVIOUS
<1>1. ASSUME NEW g \in Goroutines, Work(g) PROVE EndInv'
  <2>1. main \notin {"awaiting", "idle"}  BY <1>1, WorkEnds DEF EndInv
  <2>2. \A h \in Goroutines :
          job'[h].last => (docsClosed' /\ docChan' = <<>>) \/ cancelled'
        BY <1>1, WorkEnds DEF EndInv
  <2>3. \A h \in Goroutines : job'[h].pc = "exit" /\ main' # "idle" => job'[h].last
        BY <1>1, WorkEnds DEF EndInv
  <2>4. UNCHANGED <<main, docsClosed, resultsClosed, collecting, cancelled, cursor>>
        BY <1>1, WorkEnds
  <2> QED  BY <2>1, <2>2, <2>3, <2>4 DEF EndInv
<1>2. CASE StartRun
  <2>1. \A g \in Goroutines : job'[g].pc = "take" /\ ~job'[g].last
        BY <1>2 DEF StartRun, IdleJob
  <2> QED  BY <1>2, <2>1 DEF StartRun, EndInv
<1>3. ASSUME NEW d \in Docs, StreamDocument(d) PROVE EndInv'
      BY <1>3 DEF StreamDocument, EndInv, requestVars, resultChans, responseVars
<1>4. CASE StreamEnd
      BY <1>4 DEF StreamEnd, EndInv, responseVars
<1>5. CASE Join
      BY <1>5 DEF Join, EndInv, streamVars, resultChans, responseVars
<1>6. CASE Respond
      BY <1>6 DEF Respond, EndInv, streamVars, resultChans, responseVars
<1>7. CASE Cancel
      BY <1>7 DEF Cancel, EndInv, requestVars, streamVars, resultChans, responseVars
<1>8. CASE Collect
  <2>1. UNCHANGED <<main, cursor, docsClosed, docChan, job, resultsClosed, cancelled>>
        BY <1>8 DEF Collect, requestVars, streamVars
  <2>2. ~collecting' /\ ~cancelled' => CollectEnd /\ Drained
        BY <1>8, <2>1 DEF Collect, CollectSuccess, CollectFailure, CollectError, CollectEnd
  <2>3. CollectEnd /\ Drained =>
          /\ main \in {"awaiting", "idle"}
          /\ successChan' = <<>> /\ failureChan' = <<>> /\ errorChan' = 0
        BY DEF CollectEnd, Drained, EndInv, resultChans
  <2> QED  BY <2>1, <2>2, <2>3 DEF EndInv
<1>9. CASE (\E d \in Docs : HandlerReport(d) \/ HandlerFlag(d)) \/ UNCHANGED retryVars
  <2>1. UNCHANGED <<requestVars, streamVars, docChan, job, resultChans, resultsClosed,
                    responseVars, cancelled>>
        BY <1>9 DEF HandlerReport, HandlerFlag, retryVars
  <2> QED  BY <2>1 DEF EndInv, requestVars, streamVars, resultChans, responseVars
<1> QED  BY <1>1, <1>2, <1>3, <1>4, <1>5, <1>6, <1>7, <1>8, <1>9 DEF RetryNext, Stream

LEMMA EndStart == RetryInit => EndInv
<1> SUFFICES ASSUME RetryInit PROVE EndInv  OBVIOUS
<1>1. \A g \in Goroutines : job[g].pc = "exit" /\ ~job[g].last  BY DEF RetryInit, IdleJob
<1> QED  BY <1>1 DEF RetryInit, EndInv

-----------------------------------------------------------------------------
\* A handled document is on its way to, or in, one of the lists of the
\* response.
Listed(channel, d) == \E i \in 1..Len(channel) : d \in channel[i]
OkInJob(d)  == \E g \in Goroutines : job[g].pc \in {"publish", "success"} /\ d \in job[g].ok
BadInJob(d) == \E g \in Goroutines : d \in job[g].bad
Told(d)     == d \in succeeded \/ Listed(successChan, d) \/ OkInJob(d)
Refused(d)  == d \in failed \/ Listed(failureChan, d) \/ BadInJob(d)

\* Until a run is cancelled, each document it opened is unsent, told, refused
\* or skipped, and only one of these; what is told was published.
AccountInv ==
    ~cancelled =>
       \A d \in Docs :
          /\ d \in opened <=> Unsent(d) \/ Told(d) \/ Refused(d) \/ d \in skipped
          /\ Unsent(d) => ~Told(d) /\ ~Refused(d) /\ d \notin skipped
          /\ Told(d) => ~Refused(d) /\ d \notin skipped /\ published[d] > 0
          /\ Refused(d) => d \notin skipped

\* Until a run is cancelled, an id sent as published is flagged, or about to
\* be, or there is an error to report.
FlagPending(d) == \E g \in Goroutines : job[g].pc \in {"flag", "error"} /\ d \in job[g].ok
ErrorInv ==
    ~cancelled =>
       \A d \in Docs : d \in succeeded \/ Listed(successChan, d) =>
          d \in flagged \/ FlagPending(d) \/ errorSeen \/ errorChan > 0

\* Receiving a list of ids from a channel, and sending one.
LEMMA ReceiveList ==
    ASSUME NEW S, NEW c \in Seq(S), c # <<>>
    PROVE  \A d : Listed(c, d) <=> d \in Head(c) \/ Listed(Tail(c), d)
<1>1. /\ Len(Tail(c)) = Len(c) - 1 /\ Len(c) \in Nat \ {0} /\ Head(c) = c[1]
      /\ \A i \in 1..Len(Tail(c)) : Tail(c)[i] = c[i + 1]
      OBVIOUS
<1>2. ASSUME NEW d, Listed(Tail(c), d) PROVE Listed(c, d)
  <2>1. PICK i \in 1..Len(Tail(c)) : d \in Tail(c)[i]  BY <1>2 DEF Listed
  <2>2. i + 1 \in 1..Len(c) /\ d \in c[i + 1]  BY <1>1, <2>1
  <2> QED  BY <2>2 DEF Listed
<1>3. ASSUME NEW d, Listed(c, d), d \notin Head(c) PROVE Listed(Tail(c), d)
  <2>1. PICK i \in 1..Len(c) : d \in c[i]  BY <1>3 DEF Listed
  <2>2. i # 1  BY <1>1, <1>3, <2>1
  <2>3. i - 1 \in 1..Len(Tail(c)) /\ Tail(c)[i - 1] = c[(i - 1) + 1] /\ (i - 1) + 1 = i
        BY <1>1, <2>1, <2>2
  <2> QED  BY <2>1, <2>3 DEF Listed
<1>4. ASSUME NEW d, d \in Head(c) PROVE Listed(c, d)
  <2>1. 1 \in 1..Len(c) /\ d \in c[1]  BY <1>1, <1>4
  <2> QED  BY <2>1 DEF Listed
<1> QED  BY <1>2, <1>3, <1>4

LEMMA SendList ==
    ASSUME NEW S, NEW c \in Seq(S), NEW ids \in S
    PROVE  \A d : Listed(Append(c, ids), d) <=> Listed(c, d) \/ d \in ids
<1> DEFINE a == Append(c, ids)
<1>1. /\ Len(c) \in Nat /\ Len(a) = Len(c) + 1 /\ a[Len(c) + 1] = ids
      /\ \A i \in 1..Len(c) : a[i] = c[i]
      OBVIOUS
<1> HIDE DEF a
<1>2. \A i \in 1..Len(a) : i \in 1..Len(c) \/ i = Len(c) + 1  BY <1>1
<1>3. \A i \in 1..Len(c) : i \in 1..Len(a)  BY <1>1
<1>4. Len(c) + 1 \in 1..Len(a)  BY <1>1
<1>5. \A d : Listed(a, d) <=> Listed(c, d) \/ d \in ids
      BY <1>1, <1>2, <1>3, <1>4 DEF Listed
<1> QED  BY <1>5 DEF a

\* The accounts stay in balance when each document keeps its place or is
\* handled: told, refused or skipped.
LEMMA AccountMoves ==
    ASSUME AccountInv, ~cancelled, UNCHANGED opened,
           published \in [Docs -> Nat],
           \A d \in Docs : published[d] > 0 => published'[d] > 0,
           \A d \in Docs :
              \/ /\ Unsent(d)' <=> Unsent(d)
                 /\ Told(d)' <=> Told(d)
                 /\ Refused(d)' <=> Refused(d)
                 /\ d \in skipped' <=> d \in skipped
              \/ /\ Unsent(d) /\ ~Unsent(d)'
                 /\ \/ /\ Told(d)' /\ published'[d] > 0
                       /\ ~Refused(d)' /\ d \notin skipped'
                    \/ Refused(d)' /\ ~Told(d)' /\ d \notin skipped'
                    \/ d \in skipped' /\ ~Told(d)' /\ ~Refused(d)'
    PROVE  AccountInv'
  BY DEF AccountInv

\* What a step of the goroutine g does to the ids in the jobs.
LEMMA JobIds ==
    ASSUME NEW g \in Goroutines, \A h \in Goroutines \ {g} : job'[h] = job[h]
    PROVE  /\ \A d : OkInJob(d)' <=>
                \/ \E h \in Goroutines \ {g} :
                      job[h].pc \in {"publish", "success"} /\ d \in job[h].ok
                \/ job'[g].pc \in {"publish", "success"} /\ d \in job'[g].ok
           /\ \A d : OkInJob(d) <=>
                \/ \E h \in Goroutines \ {g} :
                      job[h].pc \in {"publish", "success"} /\ d \in job[h].ok
                \/ job[g].pc \in {"publish", "success"} /\ d \in job[g].ok
           /\ \A d : BadInJob(d)' <=>
                (\E h \in Goroutines \ {g} : d \in job[h].bad) \/ d \in job'[g].bad
           /\ \A d : BadInJob(d) <=>
                (\E h \in Goroutines \ {g} : d \in job[h].bad) \/ d \in job[g].bad
           /\ \A d : InBatch(d)' <=>
                (\E h \in Goroutines \ {g} : d \in job[h].batch) \/ d \in job'[g].batch
           /\ \A d : InBatch(d) <=>
                (\E h \in Goroutines \ {g} : d \in job[h].batch) \/ d \in job[g].batch
  BY DEF OkInJob, BadInJob, InBatch

\* What an update of the flags leads to.
LEMMA AfterUpdateIds ==
    ASSUME NEW S, NEW j \in FitJobs(S), j.pc \in {"flag", "error"}
    PROVE  /\ AfterUpdate(j).bad = j.bad /\ AfterUpdate(j).batch = j.batch
           /\ AfterUpdate(j).pc \in {"failure", "exit", "take"}
<1>1. CASE j.bad # {}  BY <1>1 DEF AfterUpdate, FitJobs, JobState
<1>2. CASE j.bad = {}
  <2>1. AfterUpdate(j) = Returned(j)  BY <1>2 DEF AfterUpdate
  <2>2. j.batch = {}  BY DEF FitJobs
  <2>3. /\ Returned(j).batch = {} /\ Returned(j).bad = {}
        /\ Returned(j).pc \in {"failure", "exit", "take"}
        BY ReturnedFits
  <2> QED  BY <1>2, <2>1, <2>2, <2>3
<1> QED  BY <1>1, <1>2

\* The steps of a goroutine that publish nothing leave each document in its
\* place, unless the run is cancelled.
LEMMA QuietAccounts ==
    ASSUME RunInv, OnePlace, ~cancelled, NEW g \in Goroutines, Work(g), ~PublishDocument(g)
    PROVE  \A d : /\ Unsent(d)' <=> Unsent(d)
                  /\ Told(d)' <=> Told(d)
                  /\ Refused(d)' <=> Refused(d)
<1> DEFINE j == job[g]
<1>1. j \in FitJobs(opened) /\ job \in [Goroutines -> FitJobs(opened)]  BY DEF RunInv
<1>2. /\ \A h \in Goroutines \ {g} : job'[h] = job[h]
      /\ UNCHANGED <<cursor, succeeded, failed>>
      BY WorkEnds
<1>3. /\ Returned(j).batch = {} /\ Returned(j).ok = {} /\ Returned(j).bad = {}
      /\ Returned(j).pc \in {"exit", "take"}
      BY <1>1, ReturnedFits
<1>4. ASSUME NEW k, SetJob(g, k) PROVE job'[g] = k  BY <1>1, <1>4 DEF SetJob
<1>5. ASSUME UNCHANGED docChan, job'[g].batch = j.batch,
             UNCHANGED <<successChan, failureChan>>, job'[g].bad = j.bad,
             (job'[g].pc \in {"publish", "success"} /\ job'[g].ok = j.ok) \/ job'[g].ok = {}
               \/ job'[g].pc \notin {"publish", "success"},
             j.pc \in {"publish", "success"} \/ j.ok = {}
               \/ job'[g].pc \notin {"publish", "success"},
             j.pc \notin {"publish", "success"}
      PROVE  \A d : /\ Unsent(d)' <=> Unsent(d)
                    /\ Told(d)' <=> Told(d)
                    /\ Refused(d)' <=> Refused(d)
      BY <1>2, <1>5, JobIds DEF Unsent, Told, Refused
<1>6. CASE TakeDocument(g)
  <2>1. \A d : Unsent(d)' <=> Unsent(d)  BY <1>6, TakeMoves
  <2>2. /\ job'[g].ok = {} /\ job'[g].bad = {} /\ j.ok = {} /\ j.bad = {}
        /\ UNCHANGED <<successChan, failureChan>>
        BY <1>1, <1>6, TakeFits DEF TakeDocument, Waits, FitJobs, resultChans
  <2> QED  BY <1>2, <2>1, <2>2, JobIds DEF Told, Refused
<1>7. CASE FlushBatch(g)
  <2>1. job'[g] = [j EXCEPT !.pc = "publish"] /\ j.pc = "take" /\ j.ok = {}
        /\ UNCHANGED <<docChan, successChan, failureChan>>
        BY <1>1, <1>4, <1>7 DEF FlushBatch, Waits, FitJobs, resultChans
  <2>2. job'[g].batch = j.batch /\ job'[g].bad = j.bad /\ job'[g].ok = {}
        BY <1>1, <2>1 DEF FitJobs, JobState
  <2> QED  BY <1>5, <2>1, <2>2
<1>8. CASE LastBatch(g)
  <2> DEFINE pc == IF j.batch = {} THEN "exit" ELSE "publish"
  <2>1. job'[g] = [j EXCEPT !.pc = pc, !.last = TRUE] /\ j.pc = "take" /\ j.ok = {}
        /\ UNCHANGED <<docChan, successChan, failureChan>>
        BY <1>1, <1>4, <1>8 DEF LastBatch, Waits, FitJobs, resultChans
  <2> HIDE DEF pc
  <2>2. job'[g].batch = j.batch /\ job'[g].bad = j.bad /\ job'[g].ok = {}
        BY <1>1, <2>1 DEF FitJobs, JobState
  <2> QED  BY <1>5, <2>1, <2>2
<1>9. CASE SendSuccess(g)
  <2>1. /\ successChan' = Append(successChan, j.ok) /\ job'[g] = [j EXCEPT !.pc = "flag"]
        /\ j.pc = "success" /\ UNCHANGED <<docChan, failureChan>>
        BY <1>4, <1>9 DEF SendSuccess, GiveUp, SuccessIds
  <2>2. successChan \in Seq(SUBSET opened) /\ j.ok \in SUBSET opened
        BY <1>1 DEF RunInv, FitJobs
  <2>3. \A d : Listed(successChan', d) <=> Listed(successChan, d) \/ d \in j.ok
        BY <2>1, <2>2, SendList
  <2>4. job'[g].batch = j.batch /\ job'[g].bad = j.bad /\ job'[g].pc = "flag"
        BY <1>1, <2>1 DEF FitJobs, JobState
  <2> QED  BY <1>2, <2>1, <2>3, <2>4, JobIds DEF Unsent, Told, Refused
<1>10. CASE FlagBatch(g)
  <2>1. /\ job'[g] = AfterUpdate(j) \/ job'[g] = [j EXCEPT !.pc = "error"]
        /\ j.pc = "flag" /\ UNCHANGED <<docChan, successChan, failureChan>>
        BY <1>4, <1>10 DEF FlagBatch, resultChans
  <2>2. /\ job'[g].batch = j.batch /\ job'[g].bad = j.bad
        /\ job'[g].pc \in {"failure", "exit", "take", "error"}
        BY <1>1, <2>1, AfterUpdateIds DEF FitJobs, JobState
  <2> QED  BY <1>5, <2>1, <2>2
<1>11. CASE SendError(g)
  <2>1. /\ job'[g] = AfterUpdate(j) /\ j.pc = "error"
        /\ UNCHANGED <<docChan, successChan, failureChan>>
        BY <1>4, <1>11 DEF SendError, GiveUp
  <2>2. /\ job'[g].batch = j.batch /\ job'[g].bad = j.bad
        /\ job'[g].pc \in {"failure", "exit", "take"}
        BY <1>1, <2>1, AfterUpdateIds
  <2> QED  BY <1>5, <2>1, <2>2
<1>12. CASE SendFailure(g)
  <2>1. /\ failureChan' = Append(failureChan, j.bad) /\ job'[g] = Returned(j)
        /\ j.pc = "failure" /\ j.batch = {} /\ UNCHANGED <<docChan, successChan>>
        BY <1>1, <1>4, <1>12 DEF SendFailure, GiveUp, FitJobs
  <2>2. failureChan \in Seq(SUBSET opened) /\ j.bad \in SUBSET opened
        BY <1>1 DEF RunInv, FitJobs
  <2>3. \A d : Listed(failureChan', d) <=> Listed(failureChan, d) \/ d \in j.bad
        BY <2>1, <2>2, SendList
  <2> QED  BY <1>2, <1>3, <2>1, <2>3, JobIds DEF Unsent, Told, Refused
<1> QED  BY <1>6, <1>7, <1>8, <1>9, <1>10, <1>11, <1>12 DEF Work

\* A document that is published or refused is told or refused.
LEMMA PublishAccounts ==
    ASSUME RetryInv, RunInv, OnePlace, AccountInv, ~cancelled,
           NEW g \in Goroutines, PublishDocument(g)
    PROVE  AccountInv'
<1> DEFINE j == job[g]
<1>1. PICK d \in j.batch :
        /\ d \in opened /\ \A h \in Goroutines \ {g} : job'[h] = job[h]
        /\ job'[g].batch = j.batch \ {d} /\ MaybePublish(d)
        /\ \/ /\ Publish(d) /\ job'[g].ok = j.ok \cup {d} /\ job'[g].bad = j.bad
              /\ job'[g].pc \in {"publish", "success"}
           \/ /\ job'[g].ok = j.ok /\ job'[g].bad = j.bad \cup {d}
              /\ job'[g].pc \in {"publish", "success"} \/ j.ok = {}
      BY PublishFits DEF MaybePublish
<1>2. /\ d \in Docs /\ j.pc = "publish"
      /\ UNCHANGED <<opened, cursor, docChan, succeeded, failed, skipped,
                     successChan, failureChan>>
      BY <1>1 DEF PublishDocument, RunInv, requestVars, streamVars, responseVars
<1>3. /\ published \in [Docs -> Nat]
      /\ \A e \in Docs : published[e] > 0 => published'[e] > 0
      /\ Publish(d) => published'[d] > 0
      BY <1>1, <1>2, PublishGrows DEF RetryInv
<1>4. /\ Unsent(d) /\ ~Unsent(d)'
      /\ \A e : e # d => (Unsent(e)' <=> Unsent(e))
      BY <1>1, <1>2, PublishMoves
<1>5. ~Told(d) /\ ~Refused(d) /\ d \notin skipped  BY <1>2, <1>4 DEF AccountInv
<1>6. \A e : e # d => (Told(e)' <=> Told(e)) /\ (Refused(e)' <=> Refused(e))
      BY <1>1, <1>2, JobIds DEF Told, Refused
<1>7. CASE Publish(d) /\ job'[g].ok = j.ok \cup {d} /\ job'[g].bad = j.bad
             /\ job'[g].pc \in {"publish", "success"}
  <2>1. Told(d)' /\ ~Refused(d)'  BY <1>1, <1>2, <1>5, <1>7, JobIds DEF Told, Refused
  <2> QED  BY <1>2, <1>3, <1>4, <1>5, <1>6, <1>7, <2>1, AccountMoves
<1>8. CASE /\ job'[g].ok = j.ok /\ job'[g].bad = j.bad \cup {d}
           /\ job'[g].pc \in {"publish", "success"} \/ j.ok = {}
  <2>1. Refused(d)' /\ ~Told(d)'  BY <1>1, <1>2, <1>5, <1>8, JobIds DEF Told, Refused
  <2> QED  BY <1>2, <1>3, <1>4, <1>5, <1>6, <2>1, AccountMoves
<1> QED  BY <1>1, <1>7, <1>8

\* Every step keeps the accounts.
LEMMA AccountStep ==
    RetryInv /\ RunInv /\ OnePlace /\ AccountInv /\ [RetryNext]_retryVars => AccountInv'
<1> SUFFICES ASSUME RetryInv, RunInv, OnePlace, AccountInv, [RetryNext]_retryVars
             PROVE  AccountInv'
    OBVIOUS
<1>0. published \in [Docs -> Nat]  BY DEF RetryInv
<1>1. ASSUME NEW g \in Goroutines, Work(g) PROVE AccountInv'
  <2>1. CASE cancelled
    <3>1. cancelled'  BY <1>1, <2>1, WorkEnds
    <3> QED  BY <3>1 DEF AccountInv
  <2>2. CASE ~cancelled /\ PublishDocument(g)  BY <2>2, PublishAccounts
  <2>3. CASE ~cancelled /\ ~PublishDocument(g)
    <3>1. UNCHANGED <<opened, skipped>>  BY <1>1, WorkEnds
    <3>2. UNCHANGED published
      <4>1. CASE TakeDocument(g)  BY <4>1 DEF TakeDocument, docVars
      <4>2. CASE ~TakeDocument(g)  BY <1>1, <2>3, <4>2, BatchesShrink
      <4> QED  BY <4>1, <4>2
    <3>3. \A d : /\ Unsent(d)' <=> Unsent(d)
                 /\ Told(d)' <=> Told(d)
                 /\ Refused(d)' <=> Refused(d)
          BY <1>1, <2>3, QuietAccounts
    <3> QED  BY <1>0, <2>3, <3>1, <3>2, <3>3, AccountMoves
  <2> QED  BY <2>1, <2>2, <2>3
<1>2. ASSUME NEW d \in Docs, HandlerReport(d) \/ HandlerFlag(d) PROVE AccountInv'
  <2>1. /\ MaybePublish(d)
        /\ UNCHANGED <<requestVars, streamVars, docChan, job, resultChans, responseVars,
                       cancelled>>
        BY <1>2 DEF HandlerReport, HandlerFlag, MaybePublish
  <2>2. \A e \in Docs : published[e] > 0 => published'[e] > 0
        BY <1>0, <2>1, PublishGrows
  <2>3. UNCHANGED <<opened, skipped>>
        /\ \A e : /\ Unsent(e)' <=> Unsent(e)
                  /\ Told(e)' <=> Told(e)
                  /\ Refused(e)' <=> Refused(e)
        BY <2>1 DEF Unsent, InBatch, Told, OkInJob, Refused, BadInJob, requestVars, streamVars,
                    resultChans, responseVars
  <2>4. cancelled' = cancelled  BY <2>1
  <2> QED  BY <1>0, <2>2, <2>3, <2>4, AccountMoves DEF AccountInv
<1>3. CASE StartRun
  <2>1. /\ opened' = Unflagged /\ cursor' = Unflagged /\ skipped' = {} /\ docChan' = <<>>
        /\ successChan' = <<>> /\ failureChan' = <<>> /\ succeeded' = {} /\ failed' = {}
        /\ \A g \in Goroutines : job'[g] = IdleJob
        BY <1>3 DEF StartRun, NewResponse
  <2>2. \A d : /\ Unsent(d)' <=> d \in opened'
               /\ ~Told(d)' /\ ~Refused(d)' /\ d \notin skipped'
    <3>1. \A d : ~Holds(docChan', d) /\ ~Listed(successChan', d) /\ ~Listed(failureChan', d)
          BY <2>1 DEF Holds, Listed
    <3>2. \A d : ~InBatch(d)' /\ ~OkInJob(d)' /\ ~BadInJob(d)'
          BY <2>1 DEF InBatch, OkInJob, BadInJob, IdleJob
    <3> QED  BY <2>1, <3>1, <3>2 DEF Unsent, Told, Refused
  <2> QED  BY <2>2 DEF AccountInv
<1>4. ASSUME NEW e \in Docs, StreamDocument(e) PROVE AccountInv'
  <2>1. /\ e \in cursor /\ cursor' = cursor \ {e}
        /\ \/ docChan' = Append(docChan, e) /\ skipped' = skipped
           \/ docChan' = docChan /\ skipped' = skipped \cup {e}
        /\ UNCHANGED <<published, opened, job, successChan, failureChan, succeeded, failed,
                       cancelled>>
        BY <1>4 DEF StreamDocument, docVars, requestVars, resultChans, responseVars
  <2>2. ~Holds(docChan, e) /\ ~InBatch(e) /\ Distinct(docChan)  BY <2>1 DEF OnePlace
  <2>3. \A d : /\ InBatch(d)' <=> InBatch(d)
               /\ Told(d)' <=> Told(d)
               /\ Refused(d)' <=> Refused(d)
        BY <2>1 DEF InBatch, Told, OkInJob, Refused, BadInJob
  <2>4. SUFFICES ASSUME ~cancelled PROVE AccountInv'  BY <2>1 DEF AccountInv
  <2>5. CASE docChan' = Append(docChan, e) /\ skipped' = skipped
    <3>1. docChan \in Seq(opened) /\ e \in opened  BY <2>1 DEF RunInv
    <3>2. \A d : Holds(docChan', d) <=> Holds(docChan, d) \/ d = e
          BY <2>2, <2>5, <3>1, SendDocument
    <3>3. \A d : Unsent(d)' <=> Unsent(d)  BY <2>1, <2>3, <3>2 DEF Unsent
    <3> QED  BY <1>0, <2>1, <2>3, <2>4, <2>5, <3>3, AccountMoves
  <2>6. CASE docChan' = docChan /\ skipped' = skipped \cup {e}
    <3>1. Unsent(e) /\ ~Unsent(e)' /\ \A d : d # e => (Unsent(d)' <=> Unsent(d))
          BY <2>1, <2>2, <2>3, <2>6 DEF Unsent
    <3>2. ~Told(e) /\ ~Refused(e)  BY <2>4, <3>1 DEF AccountInv
    <3> QED  BY <1>0, <2>1, <2>3, <2>4, <2>6, <3>1, <3>2, AccountMoves
  <2> QED  BY <2>1, <2>5, <2>6
<1>5. CASE StreamEnd
  <2>1. /\ cursor' = {} /\ skipped' = skipped \cup cursor
        /\ UNCHANGED <<published, opened, docChan, job, successChan, failureChan, succeeded,
                       failed, cancelled>>
        BY <1>5 DEF StreamEnd, docVars, responseVars
  <2>2. \A d : /\ InBatch(d)' <=> InBatch(d)
               /\ Told(d)' <=> Told(d)
               /\ Refused(d)' <=> Refused(d)
        BY <2>1 DEF InBatch, Told, OkInJob, Refused, BadInJob
  <2>3. SUFFICES ASSUME ~cancelled PROVE AccountInv'  BY <2>1 DEF AccountInv
  <2>4. \A d : d \notin cursor => (Unsent(d)' <=> Unsent(d))  BY <2>1, <2>2 DEF Unsent
  <2>5. ASSUME NEW d \in cursor
        PROVE  Unsent(d) /\ ~Unsent(d)' /\ ~Told(d)' /\ ~Refused(d)' /\ d \in skipped'
    <3>1. Unsent(d) /\ ~Unsent(d)'  BY <2>1, <2>2 DEF Unsent, OnePlace
    <3>2. d \in Docs  BY DEF RunInv
    <3> QED  BY <2>1, <2>2, <2>3, <3>1, <3>2 DEF AccountInv
  <2>6. \A d : d \notin cursor => (d \in skipped' <=> d \in skipped)  BY <2>1
  <2> QED  BY <1>0, <2>1, <2>2, <2>3, <2>4, <2>5, <2>6, AccountMoves
<1>6. CASE Join \/ Respond \/ Cancel \/ UNCHANGED retryVars
  <2>1. UNCHANGED <<published, opened, skipped, cursor, docChan, job, successChan, failureChan,
                    succeeded, failed>> /\ (cancelled => cancelled')
        BY <1>6 DEF Join, Respond, Cancel, retryVars, docVars, requestVars, streamVars,
                    resultChans, responseVars
  <2>2. \A d : /\ Unsent(d)' <=> Unsent(d)
               /\ Told(d)' <=> Told(d)
               /\ Refused(d)' <=> Refused(d)
        BY <2>1 DEF Unsent, InBatch, Told, OkInJob, Refused, BadInJob
  <2> QED  BY <2>1, <2>2 DEF AccountInv
<1>7. CASE Collect
  <2>1. UNCHANGED <<published, opened, skipped, cursor, docChan, job, cancelled>>
        BY <1>7 DEF Collect, docVars, requestVars, streamVars
  <2>2. \A d : /\ Unsent(d)' <=> Unsent(d)
               /\ OkInJob(d)' <=> OkInJob(d)
               /\ BadInJob(d)' <=> BadInJob(d)
        BY <2>1 DEF Unsent, InBatch, OkInJob, BadInJob
  <2>3. successChan \in Seq(SUBSET opened) /\ failureChan \in Seq(SUBSET opened)
        BY DEF RunInv
  <2>4. \A d : /\ Told(d)' <=> Told(d)
               /\ Refused(d)' <=> Refused(d)
    <3>1. CASE CollectSuccess
      <4>1. \A d : Listed(successChan, d) <=> d \in Head(successChan) \/ Listed(successChan', d)
            BY <2>3, <3>1, ReceiveList DEF CollectSuccess
      <4> QED  BY <2>2, <3>1, <4>1 DEF CollectSuccess, Told, Refused
    <3>2. CASE CollectFailure
      <4>1. \A d : Listed(failureChan, d) <=> d \in Head(failureChan) \/ Listed(failureChan', d)
            BY <2>3, <3>2, ReceiveList DEF CollectFailure
      <4> QED  BY <2>2, <3>2, <4>1 DEF CollectFailure, Told, Refused
    <3>3. CASE CollectError \/ CollectEnd
          BY <2>2, <3>3 DEF CollectError, CollectEnd, resultChans, Told, Refused
    <3> QED  BY <1>7, <3>1, <3>2, <3>3 DEF Collect
  <2> QED  BY <2>1, <2>2, <2>4 DEF AccountInv
<1> QED  BY <1>1, <1>2, <1>3, <1>4, <1>5, <1>6, <1>7 DEF RetryNext, Stream

\* No document is open before the first run.
LEMMA AccountStart == RetryInit => AccountInv
<1> SUFFICES ASSUME RetryInit, NEW d \in Docs
             PROVE  d \notin opened /\ ~Unsent(d) /\ ~Told(d) /\ ~Refused(d) /\ d \notin skipped
    BY DEF AccountInv
<1>1. /\ docChan = <<>> /\ successChan = <<>> /\ failureChan = <<>> /\ opened = {}
      /\ cursor = {} /\ succeeded = {} /\ failed = {} /\ skipped = {}
      /\ \A g \in Goroutines : job[g].batch = {} /\ job[g].ok = {} /\ job[g].bad = {}
      BY DEF RetryInit, IdleJob
<1>2. ~Holds(docChan, d) /\ ~Listed(successChan, d) /\ ~Listed(failureChan, d)
      BY <1>1 DEF Holds, Listed
<1> QED  BY <1>1, <1>2 DEF Unsent, InBatch, Told, OkInJob, Refused, BadInJob

\* A step that neither flags nor fails to leaves what is pending.
LEMMA ErrorMoves ==
    ASSUME ErrorInv, ~cancelled, flagged \subseteq flagged', errorSeen => errorSeen',
           errorChan \in Nat, errorChan' \in Nat, errorChan' >= errorChan \/ errorSeen',
           \A d \in Docs : d \in succeeded' \/ Listed(successChan', d) =>
              \/ d \in succeeded \/ Listed(successChan, d)
              \/ FlagPending(d)',
           \A d \in Docs : FlagPending(d) =>
              FlagPending(d)' \/ d \in flagged' \/ errorSeen' \/ errorChan' > 0
    PROVE  ErrorInv'
<1> SUFFICES ASSUME NEW d \in Docs, d \in succeeded' \/ Listed(successChan', d)
             PROVE  d \in flagged' \/ FlagPending(d)' \/ errorSeen' \/ errorChan' > 0
    BY DEF ErrorInv
<1>1. CASE FlagPending(d)'  BY <1>1
<1>2. CASE d \in succeeded \/ Listed(successChan, d)
  <2>1. d \in flagged \/ FlagPending(d) \/ errorSeen \/ errorChan > 0  BY <1>2 DEF ErrorInv
  <2> QED  BY <2>1
<1> QED  BY <1>1, <1>2

\* A goroutine flags what it sent as published, or has an error to send.
LEMMA ErrorWork ==
    ASSUME RunInv, ErrorInv, ~cancelled, NEW g \in Goroutines, Work(g)
    PROVE  ErrorInv'
<1> DEFINE j == job[g]
<1>1. j \in FitJobs(opened) /\ job \in [Goroutines -> FitJobs(opened)]  BY DEF RunInv
<1>2. /\ \A h \in Goroutines \ {g} : job'[h] = job[h]
      /\ UNCHANGED <<succeeded, errorSeen>>
      BY WorkEnds
<1>3. errorChan \in Nat /\ errorChan' \in Nat
  <2>1. RunInv'  BY RunWork
  <2> QED  BY <2>1, RetryAssumption DEF RunInv
<1>4. ASSUME NEW k, SetJob(g, k) PROVE job'[g] = k  BY <1>1, <1>4 DEF SetJob
<1>5. \A d : FlagPending(d) <=>
         \/ \E h \in Goroutines \ {g} : job[h].pc \in {"flag", "error"} /\ d \in job[h].ok
         \/ j.pc \in {"flag", "error"} /\ d \in j.ok
      BY DEF FlagPending
<1>6. \A d : FlagPending(d)' <=>
         \/ \E h \in Goroutines \ {g} : job[h].pc \in {"flag", "error"} /\ d \in job[h].ok
         \/ job'[g].pc \in {"flag", "error"} /\ d \in job'[g].ok
      BY <1>2 DEF FlagPending
<1>7. CASE TakeDocument(g) \/ FlushBatch(g) \/ LastBatch(g) \/ SendFailure(g)
  <2>1. UNCHANGED <<flagged, successChan, errorChan>> /\ j.pc \notin {"flag", "error"}
        BY <1>7 DEF TakeDocument, FlushBatch, LastBatch, SendFailure, Waits, docVars, resultChans
  <2> QED  BY <1>2, <1>3, <1>5, <1>6, <2>1, ErrorMoves
<1>8. CASE PublishDocument(g)
  <2>1. UNCHANGED <<flagged, successChan>> /\ j.pc = "publish"  BY <1>8 DEF PublishDocument
  <2>2. errorChan' >= errorChan
    <3>1. errorChan' = errorChan \/ errorChan' >= errorChan  BY <1>8, PublishFits
    <3> QED  BY <1>3, <3>1
  <2> QED  BY <1>2, <1>3, <1>5, <1>6, <2>1, <2>2, ErrorMoves
<1>9. CASE SendSuccess(g)
  <2>1. /\ successChan' = Append(successChan, j.ok) /\ job'[g] = [j EXCEPT !.pc = "flag"]
        /\ j.pc = "success" /\ UNCHANGED <<flagged, errorChan>>
        BY <1>4, <1>9 DEF SendSuccess, GiveUp, SuccessIds, docVars
  <2>2. successChan \in Seq(SUBSET opened) /\ j.ok \in SUBSET opened
        BY <1>1 DEF RunInv, FitJobs
  <2>3. \A d : Listed(successChan', d) <=> Listed(successChan, d) \/ d \in j.ok
        BY <2>1, <2>2, SendList
  <2>4. job'[g].ok = j.ok /\ job'[g].pc = "flag"  BY <1>1, <2>1 DEF FitJobs, JobState
  <2> QED  BY <1>2, <1>3, <1>5, <1>6, <2>1, <2>3, <2>4, ErrorMoves
<1>10. CASE FlagBatch(g)
  <2>1. /\ UNCHANGED <<successChan, errorChan>> /\ flagged \subseteq flagged'
        /\ \/ flagged' = flagged \cup j.ok
           \/ job'[g] = [j EXCEPT !.pc = "error"]
        BY <1>4, <1>10 DEF FlagBatch, SuccessIds, resultChans
  <2>2. CASE j.ok \subseteq flagged'
        BY <1>2, <1>3, <1>5, <1>6, <2>1, <2>2, ErrorMoves
  <2>3. CASE job'[g] = [j EXCEPT !.pc = "error"]
    <3>1. job'[g].ok = j.ok /\ job'[g].pc = "error"  BY <1>1, <2>3 DEF FitJobs, JobState
    <3> QED  BY <1>2, <1>3, <1>5, <1>6, <2>1, <3>1, ErrorMoves
  <2> QED  BY <2>1, <2>2, <2>3
<1>11. CASE SendError(g)
  <2>1. errorChan' = errorChan + 1 /\ UNCHANGED <<flagged, successChan>>
        BY <1>11 DEF SendError, GiveUp, docVars
  <2> QED  BY <1>2, <1>3, <1>5, <1>6, <2>1, ErrorMoves
<1> QED  BY <1>7, <1>8, <1>9, <1>10, <1>11 DEF Work

\* Every step does.
LEMMA ErrorStep == RunInv /\ ErrorInv /\ [RetryNext]_retryVars => ErrorInv'
<1> SUFFICES ASSUME RunInv, ErrorInv, [RetryNext]_retryVars PROVE ErrorInv'  OBVIOUS
<1>0. errorChan \in Nat /\ errorChan' \in Nat
  <2>1. RunInv'  BY RunStep
  <2> QED  BY <2>1, RetryAssumption DEF RunInv
<1>1. ASSUME NEW g \in Goroutines, Work(g) PROVE ErrorInv'
  <2>1. cancelled' = cancelled  BY <1>1, WorkEnds
  <2> QED  BY <1>1, <2>1, ErrorWork DEF ErrorInv
<1>2. ASSUME flagged \subseteq flagged', UNCHANGED <<successChan, job, succeeded, errorSeen>>,
             errorChan' >= errorChan, cancelled => cancelled'
      PROVE  ErrorInv'
  <2>1. \A d : FlagPending(d)' <=> FlagPending(d)  BY <1>2 DEF FlagPending
  <2>2. CASE cancelled  BY <1>2, <2>2 DEF ErrorInv
  <2>3. CASE ~cancelled  BY <1>0, <1>2, <2>1, <2>3, ErrorMoves
  <2> QED  BY <2>2, <2>3
<1>3. ASSUME NEW d \in Docs, HandlerReport(d) \/ HandlerFlag(d) PROVE ErrorInv'
  <2>1. flagged \subseteq flagged' /\ UNCHANGED <<resultChans, job, responseVars, cancelled>>
        BY <1>3 DEF HandlerReport, HandlerFlag
  <2> QED  BY <1>0, <1>2, <2>1 DEF resultChans, responseVars
<1>4. CASE StartRun
  <2>1. successChan' = <<>> /\ succeeded' = {}  BY <1>4 DEF StartRun, NewResponse
  <2>2. \A d : ~Listed(successChan', d)  BY <2>1 DEF Listed
  <2> QED  BY <2>1, <2>2 DEF ErrorInv
<1>5. CASE Stream
  <2>1. /\ UNCHANGED <<flagged, successChan, job, succeeded, errorSeen, cancelled>>
        /\ errorChan' = errorChan \/ errorChan' = errorChan + 1
        BY <1>5 DEF Stream, StreamDocument, StreamEnd, docVars, resultChans, responseVars
  <2> QED  BY <1>0, <1>2, <2>1
<1>6. CASE Join \/ Respond \/ Cancel \/ UNCHANGED retryVars
  <2>1. UNCHANGED <<flagged, successChan, job, succeeded, errorSeen, errorChan>>
        /\ (cancelled => cancelled')
        BY <1>6 DEF Join, Respond, Cancel, retryVars, docVars, resultChans, responseVars
  <2> QED  BY <1>0, <1>2, <2>1
<1>7. CASE Collect
  <2>1. UNCHANGED <<flagged, job, cancelled>>  BY <1>7 DEF Collect, docVars
  <2>2. \A d : FlagPending(d)' <=> FlagPending(d)  BY <2>1 DEF FlagPending
  <2>3. SUFFICES ASSUME ~cancelled PROVE ErrorInv'  BY <2>1 DEF ErrorInv
  <2>4. CASE CollectSuccess
    <3>1. \A d : Listed(successChan, d) <=> d \in Head(successChan) \/ Listed(successChan', d)
      <4>1. successChan \in Seq(SUBSET opened)  BY DEF RunInv
      <4> QED  BY <2>4, <4>1, ReceiveList DEF CollectSuccess
    <3>2. succeeded' = succeeded \cup Head(successChan) /\ UNCHANGED <<errorChan, errorSeen>>
          BY <2>4 DEF CollectSuccess
    <3> QED  BY <1>0, <2>1, <2>2, <2>3, <3>1, <3>2, ErrorMoves
  <2>5. CASE CollectFailure \/ CollectEnd
    <3>1. UNCHANGED <<successChan, succeeded, errorChan, errorSeen>>
          BY <2>5 DEF CollectFailure, CollectEnd, resultChans
    <3> QED  BY <1>0, <1>2, <2>1, <3>1
  <2>6. CASE CollectError
    <3>1. errorSeen'  BY <2>6 DEF CollectError
    <3> QED  BY <3>1 DEF ErrorInv
  <2> QED  BY <1>7, <2>4, <2>5, <2>6 DEF Collect
<1> QED  BY <1>1, <1>3, <1>4, <1>5, <1>6, <1>7 DEF RetryNext

LEMMA ErrorStart == RetryInit => ErrorInv
  BY DEF RetryInit, ErrorInv, Listed

\* Between the pool and the response nothing is left on its way.
LEMMA NothingLeft ==
    ASSUME RunInv, EndInv, main = "awaiting", ~collecting, ~cancelled, NEW d
    PROVE  /\ ~Unsent(d) /\ ~FlagPending(d) /\ errorChan = 0
           /\ Told(d) <=> d \in succeeded
           /\ Refused(d) <=> d \in failed
<1>1. /\ cursor = {} /\ successChan = <<>> /\ failureChan = <<>> /\ errorChan = 0
      /\ \A g \in Goroutines : job[g].pc = "exit" /\ job[g].last
      BY DEF EndInv
<1>2. PICK g \in Goroutines : TRUE  BY RetryAssumption
<1>3. docChan = <<>>  BY <1>1, <1>2 DEF EndInv
<1>4. \A h \in Goroutines : job[h].batch = {} /\ job[h].ok = {} /\ job[h].bad = {}
      BY <1>1 DEF RunInv, FitJobs
<1>5. ~Holds(docChan, d) /\ ~Listed(successChan, d) /\ ~Listed(failureChan, d)
      BY <1>1, <1>3 DEF Holds, Listed
<1> QED  BY <1>1, <1>4, <1>5 DEF Unsent, InBatch, Told, OkInJob, Refused, BadInJob, FlagPending

\* The answer to a request nobody cancelled puts every document the stream
\* delivered in exactly one of its two lists, after every publish, and says
\* when a published one could not be flagged.
THEOREM ResponsesAreComplete == RetrySpec => []ResponseComplete
<1> DEFINE Inv == RetryInv /\ RunInv /\ OnePlace /\ OnceInv /\ EndInv /\ AccountInv /\ ErrorInv
<1>1. RetryInit => Inv
      BY RetryStart, RunStart, OnceStart, EndStart, AccountStart, ErrorStart
<1>2. RunInv => docChan \in Seq(Docs)  BY DEF RunInv
<1>3. Inv /\ [RetryNext]_retryVars => Inv'
      BY <1>2, RetryStep, RunStep, OnceStep, EndStep, AccountStep, ErrorStep
<1>4. Inv => ResponseComplete
  <2> SUFFICES ASSUME Inv, main = "awaiting", ~collecting, ~cancelled
               PROVE  /\ succeeded \cup failed = opened \ skipped
                      /\ succeeded \cap failed = {}
                      /\ \A d \in succeeded : published[d] > 0
                      /\ ~errorSeen => succeeded \subseteq flagged
      BY DEF ResponseComplete
  <2>1. ASSUME NEW d \in Docs
        PROVE  /\ d \in opened <=> d \in succeeded \/ d \in failed \/ d \in skipped
               /\ d \in succeeded => d \notin failed /\ d \notin skipped /\ published[d] > 0
               /\ d \in failed => d \notin skipped
               /\ d \in succeeded => d \in flagged \/ errorSeen
    <3>1. /\ ~Unsent(d) /\ ~FlagPending(d) /\ errorChan = 0
          /\ Told(d) <=> d \in succeeded
          /\ Refused(d) <=> d \in failed
          BY NothingLeft
    <3>2. d \in succeeded => d \in flagged \/ errorSeen  BY <3>1 DEF ErrorInv
    <3> QED  BY <3>1, <3>2 DEF AccountInv
  <2>2. opened \subseteq Docs /\ succeeded \subseteq Docs /\ failed \subseteq Docs
        BY DEF RunInv
  <2> QED  BY <2>1, <2>2
<1> QED  BY <1>1, <1>3, <1>4, PTL DEF RetrySpec

-----------------------------------------------------------------------------
\* Who can take a step, without a failure and without waiting for anybody.
StreamReady    == main = "streaming" /\ (cursor = {} \/ cancelled \/ HasRoom(docChan))
JoinReady      == main = "joining" /\ \A g \in Goroutines : job[g].pc = "exit"
RespondReady   == main = "awaiting" /\ ~collecting
CollectorReady ==
    /\ collecting
    /\ successChan # <<>> \/ failureChan # <<>> \/ errorChan > 0 \/ Drained \/ cancelled
WorkReady(g) ==
    \/ job[g].pc = "take" /\ (docChan # <<>> \/ docsClosed \/ cancelled \/ job[g].batch # {})
    \/ job[g].pc = "publish" /\ job[g].batch # {}
    \/ job[g].pc = "success" /\ (HasRoom(successChan) \/ cancelled)
    \/ job[g].pc = "flag"
    \/ job[g].pc = "error" /\ (errorChan < BufferSize \/ cancelled)
    \/ job[g].pc = "failure" /\ (HasRoom(failureChan) \/ cancelled)

\* Until a request is answered one of the parties can go on, however small the
\* channels between them: RetryKafkaCollectionMessages cannot deadlock.
NeverStuck ==
    main # "idle" =>
       \/ StreamReady \/ JoinReady \/ RespondReady \/ CollectorReady
       \/ \E g \in Goroutines : WorkReady(g)

\* How far a goroutine is from waiting for its next document.
StepsOf(j) ==
    IF j.pc = "exit" THEN 0
    ELSE IF j.pc = "take" THEN IF j.batch = {} THEN 1 ELSE 7
    ELSE IF j.pc = "publish" THEN 6
    ELSE IF j.pc = "success" THEN 5
    ELSE IF j.pc = "flag" THEN 4
    ELSE IF j.pc = "error" THEN 3 ELSE 2

\* Whoever publishes has something to publish.
BatchInv == \A g \in Goroutines : job[g].pc = "publish" => job[g].batch # {}

\* A goroutine takes a document, handles one, or is a step nearer to the next.
LEMMA JobAdvances ==
    ASSUME RunInv, NEW g \in Goroutines, Work(g)
    PROVE  /\ \A h \in Goroutines \ {g} : job'[h] = job[h]
           /\ job'[g].pc = "publish" => job'[g].batch # {}
           /\ TakeDocument(g) \/ PublishDocument(g) \/ StepsOf(job'[g]) < StepsOf(job[g])
<1> DEFINE j == job[g]
<1>1. j \in FitJobs(opened) /\ job \in [Goroutines -> FitJobs(opened)]  BY DEF RunInv
<1>2. /\ Returned(j).batch = {} /\ Returned(j).pc \in {"take", "exit"}
      /\ Returned(j).pc # "publish" /\ StepsOf(Returned(j)) \in {0, 1}
  <2>1. Returned(j).batch = {} /\ Returned(j).pc \in {"take", "exit"}
        BY <1>1, ReturnedFits
  <2> QED  BY <2>1 DEF StepsOf
<1>3. AfterUpdate(j).pc # "publish" /\ StepsOf(AfterUpdate(j)) \in {0, 1, 2}
  <2>1. CASE j.bad = {}
    <3>1. AfterUpdate(j) = Returned(j)  BY <2>1 DEF AfterUpdate
    <3> QED  BY <1>2, <3>1
  <2>2. CASE j.bad # {}
    <3>1. AfterUpdate(j).pc = "failure"  BY <1>1, <2>2 DEF AfterUpdate, FitJobs, JobState
    <3> QED  BY <3>1 DEF StepsOf
  <2> QED  BY <2>1, <2>2
<1>4. ASSUME NEW pc, NEW last
      PROVE  /\ [j EXCEPT !.pc = pc].batch = j.batch /\ [j EXCEPT !.pc = pc].pc = pc
             /\ [j EXCEPT !.pc = pc, !.last = last].batch = j.batch
             /\ [j EXCEPT !.pc = pc, !.last = last].pc = pc
      BY <1>1 DEF FitJobs, JobState
<1>5. ASSUME NEW k, SetJob(g, k)
      PROVE  job'[g] = k /\ \A h \in Goroutines \ {g} : job'[h] = job[h]
      BY <1>1, <1>5 DEF SetJob
<1>6. CASE TakeDocument(g)
  <2>1. /\ \A h \in Goroutines \ {g} : job'[h] = job[h]
        /\ job'[g].batch = job[g].batch \cup {Head(docChan)}
        BY <1>6, TakeFits
  <2> QED  BY <1>6, <2>1
<1>7. CASE PublishDocument(g)
  <2>1. /\ \A h \in Goroutines \ {g} : job'[h] = job[h]
        BY <1>7, PublishFits
  <2>2. job'[g].pc = "publish" => job'[g].batch # {}  BY <1>7, PublishFits
  <2> QED  BY <1>7, <2>1, <2>2
<1>8. ASSUME NEW k, SetJob(g, k), k.pc = "publish" => k.batch # {}, StepsOf(k) < StepsOf(j)
      PROVE  /\ \A h \in Goroutines \ {g} : job'[h] = job[h]
             /\ job'[g].pc = "publish" => job'[g].batch # {}
             /\ StepsOf(job'[g]) < StepsOf(job[g])
      BY <1>5, <1>8
<1>9. CASE FlushBatch(g)
  <2> DEFINE k == [j EXCEPT !.pc = "publish"]
  <2>1. SetJob(g, k) /\ j.pc = "take" /\ j.batch # {}  BY <1>9 DEF FlushBatch, Waits
  <2>2. k.batch = j.batch /\ k.pc = "publish"  BY <1>4
  <2> HIDE DEF k
  <2>3. StepsOf(k) < StepsOf(j)  BY <2>1, <2>2 DEF StepsOf
  <2> QED  BY <1>8, <2>1, <2>2, <2>3
<1>10. CASE LastBatch(g)
  <2> DEFINE pc == IF j.batch = {} THEN "exit" ELSE "publish"
             k == [j EXCEPT !.pc = pc, !.last = TRUE]
  <2>1. SetJob(g, k) /\ j.pc = "take"  BY <1>10 DEF LastBatch, Waits
  <2>2. k.batch = j.batch /\ k.pc = pc  BY <1>4
  <2>3. k.pc = "publish" => k.batch # {}  BY <2>2
  <2>4. StepsOf(k) < StepsOf(j)
    <3> HIDE DEF k
    <3> QED  BY <2>1, <2>2 DEF StepsOf
  <2> HIDE DEF k
  <2> QED  BY <1>8, <2>1, <2>3, <2>4
<1>11. CASE SendSuccess(g)
  <2> DEFINE k == [j EXCEPT !.pc = "flag"]
  <2>1. j.pc = "success" /\ (SetJob(g, k) \/ SetJob(g, Returned(j)))
        BY <1>11 DEF SendSuccess, GiveUp
  <2>2. k.pc = "flag"  BY <1>4
  <2> HIDE DEF k
  <2>3. StepsOf(k) < StepsOf(j) /\ StepsOf(Returned(j)) < StepsOf(j)
        BY <1>2, <2>1, <2>2 DEF StepsOf
  <2>4. CASE SetJob(g, k)  BY <1>8, <2>2, <2>3, <2>4
  <2>5. CASE SetJob(g, Returned(j))  BY <1>2, <1>8, <2>3, <2>5
  <2> QED  BY <2>1, <2>4, <2>5
<1>12. CASE FlagBatch(g)
  <2> DEFINE k == [j EXCEPT !.pc = "error"]
  <2>1. j.pc = "flag" /\ (SetJob(g, k) \/ SetJob(g, AfterUpdate(j)))
        BY <1>12 DEF FlagBatch
  <2>2. k.pc = "error"  BY <1>4
  <2> HIDE DEF k
  <2>3. StepsOf(k) = 3 /\ StepsOf(j) = 4  BY <2>1, <2>2 DEF StepsOf
  <2>4. CASE SetJob(g, k)  BY <1>8, <2>2, <2>3, <2>4
  <2>5. CASE SetJob(g, AfterUpdate(j))
    <3>1. StepsOf(AfterUpdate(j)) < StepsOf(j)  BY <1>3, <2>3 DEF StepsOf
    <3> QED  BY <1>3, <1>8, <2>5, <3>1
  <2> QED  BY <2>1, <2>4, <2>5
<1>13. CASE SendError(g)
  <2>1. j.pc = "error" /\ (SetJob(g, AfterUpdate(j)) \/ SetJob(g, Returned(j)))
        BY <1>13 DEF SendError, GiveUp
  <2>2. StepsOf(AfterUpdate(j)) < StepsOf(j) /\ StepsOf(Returned(j)) < StepsOf(j)
        BY <1>2, <1>3, <2>1 DEF StepsOf
  <2>3. CASE SetJob(g, AfterUpdate(j))  BY <1>3, <1>8, <2>2, <2>3
  <2>4. CASE SetJob(g, Returned(j))  BY <1>2, <1>8, <2>2, <2>4
  <2> QED  BY <2>1, <2>3, <2>4
<1>14. CASE SendFailure(g)
  <2>1. j.pc = "failure" /\ SetJob(g, Returned(j))  BY <1>14 DEF SendFailure, GiveUp
  <2>2. StepsOf(Returned(j)) < StepsOf(j)  BY <1>2, <2>1 DEF StepsOf
  <2> QED  BY <1>2, <1>8, <2>1, <2>2
<1> QED  BY <1>6, <1>7, <1>9, <1>10, <1>11, <1>12, <1>13, <1>14 DEF Work

\* Every step leaves a goroutine that publishes with a batch.
LEMMA BatchStep == RunInv /\ BatchInv /\ [RetryNext]_retryVars => BatchInv'
<1> SUFFICES ASSUME RunInv, BatchInv, [RetryNext]_retryVars PROVE BatchInv'  OBVIOUS
<1>1. ASSUME NEW g \in Goroutines, Work(g) PROVE BatchInv'
      BY <1>1, JobAdvances DEF BatchInv
<1>2. CASE StartRun  BY <1>2 DEF StartRun, BatchInv, IdleJob
<1>3. CASE UNCHANGED job  BY <1>3 DEF BatchInv
<1>4. CASE \/ \E d \in Docs : HandlerReport(d) \/ HandlerFlag(d) \/ StreamDocument(d)
           \/ StreamEnd \/ Join \/ Respond \/ Cancel \/ Collect \/ UNCHANGED retryVars
      BY <1>3, <1>4 DEF HandlerReport, HandlerFlag, StreamDocument, StreamEnd, Join, Respond,
                        Cancel, Collect, retryVars
<1> QED  BY <1>1, <1>2, <1>4 DEF RetryNext, Stream

\* A goroutine that has not ended waits for the stream or the collector alone.
LEMMA PoolReady ==
    ASSUME RunInv, BatchInv, NEW g \in Goroutines, job[g].pc # "exit",
           docsClosed \/ docChan # <<>> \/ cancelled,
           (successChan = <<>> /\ failureChan = <<>> /\ errorChan = 0) \/ cancelled
    PROVE  WorkReady(g)
<1>1. job[g].pc \in {"take", "publish", "success", "flag", "error", "failure"}
      BY DEF RunInv, FitJobs, JobState
<1>2. cancelled \/ (HasRoom(successChan) /\ HasRoom(failureChan) /\ errorChan < BufferSize)
  <2>1. Len(<<>>) = 0  OBVIOUS
  <2> QED  BY <2>1, RetryAssumption DEF HasRoom
<1> QED  BY <1>1, <1>2 DEF WorkReady, BatchInv

\* The stream waits for the pool, the pool for the collector, and the
\* collector for nobody as long as there is something to collect.
THEOREM RunsNeverStick == RetrySpec => []NeverStuck
<1>1. RunInv /\ EndInv /\ BatchInv => NeverStuck
  <2> SUFFICES ASSUME RunInv, EndInv, BatchInv, main # "idle", ~CollectorReady, ~RespondReady
               PROVE  StreamReady \/ JoinReady \/ \E g \in Goroutines : WorkReady(g)
      BY DEF NeverStuck
  <2>1. errorChan \in Nat /\ main \in {"streaming", "joining", "awaiting"}
        BY DEF RunInv
  <2>2. cancelled \/ collecting  BY <2>1 DEF EndInv, RespondReady
  <2>3. (successChan = <<>> /\ failureChan = <<>> /\ errorChan = 0) \/ cancelled
        BY <2>1, <2>2 DEF CollectorReady
  <2>4. main # "awaiting"
        BY <2>1, <2>2, <2>3 DEF EndInv, CollectorReady, RespondReady, Drained
  <2>5. CASE main = "streaming"
    <3>1. CASE StreamReady  BY <3>1
    <3>2. CASE ~StreamReady
      <4>1. ~cancelled /\ ~HasRoom(docChan) /\ ~docsClosed
            BY <2>5, <3>2 DEF StreamReady, EndInv
      <4>2. docChan # <<>>
        <5>1. Len(<<>>) = 0  OBVIOUS
        <5> QED  BY <4>1, <5>1, RetryAssumption DEF HasRoom
      <4>3. PICK g \in Goroutines : TRUE  BY RetryAssumption
      <4>4. job[g].pc # "exit"  BY <2>5, <4>1, <4>3 DEF EndInv
      <4> QED  BY <2>3, <4>2, <4>3, <4>4, PoolReady
    <3> QED  BY <3>1, <3>2
  <2>6. CASE main = "joining"
    <3>1. docsClosed  BY <2>6 DEF EndInv
    <3>2. CASE \A g \in Goroutines : job[g].pc = "exit"  BY <2>6, <3>2 DEF JoinReady
    <3>3. ASSUME NEW g \in Goroutines, job[g].pc # "exit" PROVE WorkReady(g)
          BY <2>3, <3>1, <3>3, PoolReady
    <3> QED  BY <3>2, <3>3
  <2> QED  BY <2>1, <2>4, <2>5, <2>6
<1>2. RetryInit => BatchInv  BY DEF RetryInit, BatchInv, IdleJob
<1> QED  BY <1>1, <1>2, RunStart, RunStep, EndStart, EndStep, BatchStep, PTL DEF RetrySpec

-----------------------------------------------------------------------------
\* What is left to do: stages of the request, calls of the handlers, a client
\* that may go away, and the places each document has yet to pass.
StagesLeft  == IF main = "streaming" THEN {"streaming", "joining", "awaiting"}
               ELSE IF main = "joining" THEN {"joining", "awaiting"}
               ELSE IF main = "awaiting" THEN {"awaiting"} ELSE {}
ReportsLeft == {d \in Docs : handler[d] = "report"}
FlagsLeft   == {d \in Docs : handler[d] # "done"}
ClientLeft  == IF cancelled THEN {} ELSE {"client"}
QueuedDocs  == {d \in Docs : d \in cursor \/ Holds(docChan, d)}
UnsentDocs  == {d \in Docs : Unsent(d)}
tasks == <<StagesLeft, ReportsLeft, FlagsLeft, ClientLeft, cursor, QueuedDocs, UnsentDocs>>

FewerTasks ==
    /\ tasks' # tasks
    /\ StagesLeft' \subseteq StagesLeft /\ ReportsLeft' \subseteq ReportsLeft
    /\ FlagsLeft' \subseteq FlagsLeft /\ ClientLeft' \subseteq ClientLeft
    /\ cursor' \subseteq cursor /\ QueuedDocs' \subseteq QueuedDocs
    /\ UnsentDocs' \subseteq UnsentDocs

\* How far each goroutine is from its next document.
steps == [g \in Goroutines |-> StepsOf(job[g])]

FewerSteps ==
    /\ \A g \in Goroutines : steps'[g] <= steps[g]
    /\ \E g \in Goroutines : steps'[g] < steps[g]

\* What the collector has before it.
backlog == Len(successChan) + Len(failureChan) + errorChan + (IF collecting THEN 1 ELSE 0)

\* The three together, the first of them first, are well-founded.
Shrinks ==
    \/ FewerTasks
    \/ tasks' = tasks /\ FewerSteps
    \/ tasks' = tasks /\ steps' = steps /\ backlog' < backlog

Finite ==
    /\ \A S \in {StagesLeft, ReportsLeft, FlagsLeft, ClientLeft, cursor, QueuedDocs, UnsentDocs} :
          IsFiniteSet(S)
    /\ IsFiniteSet(Goroutines) /\ steps \in [Goroutines -> Nat]
    /\ backlog \in Nat

\* Every step of a request, whoever takes it, leaves less to do, so parties do
\* not keep each other busy: no batch is tried twice, nothing is sent again.
RunsShrink == [][StartRun \/ Shrinks]_retryVars

LEMMA MeasureFinite == RunInv => Finite
<1> SUFFICES ASSUME RunInv PROVE Finite  OBVIOUS
<1>1. IsFiniteSet({"streaming", "joining", "awaiting"}) /\ IsFiniteSet({"client"})
  <2>1. IsFiniteSet({"streaming"}) /\ IsFiniteSet({"client"})  BY FS_Singleton
  <2>2. IsFiniteSet(({"streaming"} \cup {"joining"}) \cup {"awaiting"})
        BY <2>1, FS_AddElement
  <2>3. {"streaming", "joining", "awaiting"} = ({"streaming"} \cup {"joining"}) \cup {"awaiting"}
        OBVIOUS
  <2> QED  BY <2>1, <2>2, <2>3
<1>2. StagesLeft \subseteq {"streaming", "joining", "awaiting"} /\ ClientLeft \subseteq {"client"}
      BY DEF StagesLeft, ClientLeft
<1>3. cursor \subseteq Docs  BY DEF RunInv
<1>4. ReportsLeft \subseteq Docs /\ FlagsLeft \subseteq Docs /\ QueuedDocs \subseteq Docs
      /\ UnsentDocs \subseteq Docs
      BY DEF ReportsLeft, FlagsLeft, QueuedDocs, UnsentDocs
<1>5. steps \in [Goroutines -> Nat]  BY DEF steps, StepsOf
<1>6. backlog \in Nat  BY DEF backlog, RunInv
<1>7. IsFiniteSet(Docs) /\ IsFiniteSet(Goroutines)  BY RetryAssumption
<1> QED  BY <1>1, <1>2, <1>3, <1>4, <1>5, <1>6, <1>7, FS_Subset DEF Finite

\* A step of the pool.
LEMMA WorkShrinks ==
    ASSUME RunInv, OnePlace, NEW g \in Goroutines, Work(g)
    PROVE  Shrinks
<1>1. UNCHANGED <<StagesLeft, ReportsLeft, FlagsLeft, ClientLeft, cursor>>
  <2>1. UNCHANGED <<main, handler, cancelled, cursor>>
        BY DEF Work, TakeDocument, FlushBatch, LastBatch, PublishDocument, SendSuccess,
               FlagBatch, SendError, SendFailure, requestVars, streamVars
  <2> QED  BY <2>1 DEF StagesLeft, ReportsLeft, FlagsLeft, ClientLeft
<1>2. ASSUME QueuedDocs' \subseteq QueuedDocs, UnsentDocs' \subseteq UnsentDocs,
             UnsentDocs' # UnsentDocs \/ QueuedDocs' # QueuedDocs
      PROVE  Shrinks
      BY <1>1, <1>2 DEF Shrinks, FewerTasks, tasks
<1>3. CASE TakeDocument(g)
  <2> DEFINE e == Head(docChan)
  <2>1. docChan' = Tail(docChan) /\ docChan # <<>> /\ docChan \in Seq(opened) /\ Distinct(docChan)
        BY <1>3 DEF TakeDocument, RunInv, OnePlace
  <2>2. /\ Holds(docChan, e) /\ \A d : Holds(docChan', d) <=> Holds(docChan, d) /\ d # e
        /\ e \in Docs
        BY <2>1, ReceiveDocument DEF RunInv
  <2>3. e \notin cursor  BY <2>2 DEF OnePlace
  <2> HIDE DEF e
  <2>4. QueuedDocs' \subseteq QueuedDocs /\ QueuedDocs' # QueuedDocs
        BY <1>1, <2>2, <2>3 DEF QueuedDocs
  <2>5. UnsentDocs' = UnsentDocs  BY <1>3, TakeMoves DEF UnsentDocs
  <2> QED  BY <1>2, <2>4, <2>5
<1>4. ASSUME UNCHANGED docChan PROVE QueuedDocs' = QueuedDocs
      BY <1>1, <1>4 DEF QueuedDocs
<1>5. CASE PublishDocument(g)
  <2>1. UNCHANGED docChan  BY <1>5 DEF PublishDocument
  <2>2. PICK d \in Docs : Unsent(d) /\ ~Unsent(d)' /\ \A e : Unsent(e)' => Unsent(e)
        BY <1>5, PublishHandles
  <2>3. UnsentDocs' \subseteq UnsentDocs /\ UnsentDocs' # UnsentDocs
        BY <2>2 DEF UnsentDocs
  <2> QED  BY <1>2, <1>4, <2>1, <2>3
<1>6. CASE ~TakeDocument(g) /\ ~PublishDocument(g)
  <2>1. /\ UNCHANGED <<cursor, docChan>>
        /\ \A h \in Goroutines : job'[h].batch \subseteq job[h].batch
        BY <1>6, BatchesShrink
  <2>2. \A d : Unsent(d)' => Unsent(d)  BY <2>1, ShrinkMoves
  <2>3. UnsentDocs' \subseteq UnsentDocs  BY <2>2 DEF UnsentDocs
  <2>4. CASE UnsentDocs' # UnsentDocs  BY <1>2, <1>4, <2>1, <2>3, <2>4
  <2>5. CASE UnsentDocs' = UnsentDocs
    <3>1. tasks' = tasks  BY <1>1, <1>4, <2>1, <2>5 DEF tasks
    <3>2. /\ \A h \in Goroutines \ {g} : job'[h] = job[h]
          /\ StepsOf(job'[g]) < StepsOf(job[g])
          BY <1>6, JobAdvances
    <3>3. \A h \in Goroutines : steps[h] = StepsOf(job[h]) /\ steps'[h] = StepsOf(job'[h])
          BY DEF steps
    <3>4. \A j : StepsOf(j) \in Nat  BY DEF StepsOf
    <3>5. FewerSteps  BY <3>2, <3>3, <3>4 DEF FewerSteps
    <3> QED  BY <3>1, <3>5 DEF Shrinks
  <2> QED  BY <2>4, <2>5
<1> QED  BY <1>3, <1>5, <1>6

\* A step of anybody else.
LEMMA OthersShrink ==
    ASSUME RunInv, OnePlace,
           \/ \E d \in Docs : HandlerReport(d) \/ HandlerFlag(d)
           \/ Stream \/ Join \/ Respond \/ Cancel \/ Collect
    PROVE  Shrinks
<1>1. ASSUME UNCHANGED <<cursor, docChan, job>>
      PROVE  UNCHANGED <<cursor, QueuedDocs, UnsentDocs>>
      BY <1>1 DEF QueuedDocs, UnsentDocs, Unsent, InBatch
<1>2. ASSUME NEW d \in Docs, HandlerReport(d) PROVE Shrinks
  <2>1. /\ handler[d] = "report" /\ handler'[d] \in {"flag", "done"}
        /\ \A e \in Docs : e # d => handler'[e] = handler[e]
        /\ UNCHANGED <<main, cancelled, cursor, docChan, job>>
        BY <1>2 DEF HandlerReport, RunInv, requestVars, streamVars
  <2>2. /\ ReportsLeft' \subseteq ReportsLeft /\ ReportsLeft' # ReportsLeft
        /\ FlagsLeft' \subseteq FlagsLeft
        BY <2>1 DEF ReportsLeft, FlagsLeft
  <2>3. UNCHANGED <<StagesLeft, ClientLeft>>  BY <2>1 DEF StagesLeft, ClientLeft
  <2> QED  BY <1>1, <2>1, <2>2, <2>3 DEF Shrinks, FewerTasks, tasks
<1>3. ASSUME NEW d \in Docs, HandlerFlag(d) PROVE Shrinks
  <2>1. /\ handler[d] = "flag" /\ handler'[d] = "done"
        /\ \A e \in Docs : e # d => handler'[e] = handler[e]
        /\ UNCHANGED <<main, cancelled, cursor, docChan, job>>
        BY <1>3 DEF HandlerFlag, RunInv, requestVars, streamVars
  <2>2. /\ ReportsLeft' \subseteq ReportsLeft
        /\ FlagsLeft' \subseteq FlagsLeft /\ FlagsLeft' # FlagsLeft
        BY <2>1 DEF ReportsLeft, FlagsLeft
  <2>3. UNCHANGED <<StagesLeft, ClientLeft>>  BY <2>1 DEF StagesLeft, ClientLeft
  <2> QED  BY <1>1, <2>1, <2>2, <2>3 DEF Shrinks, FewerTasks, tasks
<1>4. ASSUME NEW d \in Docs, StreamDocument(d) PROVE Shrinks
  <2>1. /\ d \in cursor /\ cursor' = cursor \ {d} /\ UNCHANGED <<main, handler, cancelled, job>>
        /\ docChan' = Append(docChan, d) \/ docChan' = docChan
        BY <1>4 DEF StreamDocument, requestVars
  <2>2. \A e : Holds(docChan', e) => Holds(docChan, e) \/ e = d
    <3>1. ~Holds(docChan, d) /\ Distinct(docChan)  BY <2>1 DEF OnePlace
    <3>2. docChan \in Seq(opened) /\ d \in opened  BY <2>1 DEF RunInv
    <3>3. CASE docChan' = docChan  BY <3>3
    <3>4. CASE docChan' = Append(docChan, d)  BY <3>1, <3>2, <3>4, SendDocument
    <3> QED  BY <2>1, <3>3, <3>4
  <2>3. QueuedDocs' \subseteq QueuedDocs  BY <2>1, <2>2 DEF QueuedDocs
  <2>4. UnsentDocs' \subseteq UnsentDocs  BY <2>1, <2>2 DEF UnsentDocs, Unsent, InBatch
  <2>5. UNCHANGED <<StagesLeft, ReportsLeft, FlagsLeft, ClientLeft>>
        BY <2>1 DEF StagesLeft, ReportsLeft, FlagsLeft, ClientLeft
  <2>6. cursor' \subseteq cursor /\ cursor' # cursor  BY <2>1
  <2> QED  BY <2>3, <2>4, <2>5, <2>6 DEF Shrinks, FewerTasks, tasks
<1>5. CASE StreamEnd
  <2>1. /\ main = "streaming" /\ main' = "joining" /\ cursor' = {}
        /\ UNCHANGED <<handler, cancelled, docChan, job>>
        BY <1>5 DEF StreamEnd
  <2>2. /\ cursor' \subseteq cursor /\ QueuedDocs' \subseteq QueuedDocs
        /\ UnsentDocs' \subseteq UnsentDocs
        BY <2>1 DEF QueuedDocs, UnsentDocs, Unsent, InBatch
  <2>3. StagesLeft' \subseteq StagesLeft /\ StagesLeft' # StagesLeft  BY <2>1 DEF StagesLeft
  <2>4. UNCHANGED <<ReportsLeft, FlagsLeft, ClientLeft>>
        BY <2>1 DEF ReportsLeft, FlagsLeft, ClientLeft
  <2> QED  BY <2>2, <2>3, <2>4 DEF Shrinks, FewerTasks, tasks
<1>6. CASE Join \/ Respond
  <2>1. /\ \/ main = "joining" /\ main' = "awaiting"
           \/ main = "awaiting" /\ main' = "idle"
        /\ UNCHANGED <<handler, cancelled, cursor, docChan, job>>
        BY <1>6 DEF Join, Respond, streamVars
  <2>2. StagesLeft' \subseteq StagesLeft /\ StagesLeft' # StagesLeft  BY <2>1 DEF StagesLeft
  <2>3. UNCHANGED <<ReportsLeft, FlagsLeft, ClientLeft>>
        BY <2>1 DEF ReportsLeft, FlagsLeft, ClientLeft
  <2> QED  BY <1>1, <2>1, <2>2, <2>3 DEF Shrinks, FewerTasks, tasks
<1>7. CASE Cancel
  <2>1. ~cancelled /\ cancelled' /\ UNCHANGED <<main, handler, cursor, docChan, job>>
        BY <1>7 DEF Cancel, requestVars, streamVars
  <2>2. ClientLeft' \subseteq ClientLeft /\ ClientLeft' # ClientLeft  BY <2>1 DEF ClientLeft
  <2>3. UNCHANGED <<StagesLeft, ReportsLeft, FlagsLeft>>
        BY <2>1 DEF StagesLeft, ReportsLeft, FlagsLeft
  <2> QED  BY <1>1, <2>1, <2>2, <2>3 DEF Shrinks, FewerTasks, tasks
<1>8. CASE Collect
  <2>1. UNCHANGED <<main, handler, cancelled, cursor, docChan, job>>
        BY <1>8 DEF Collect, requestVars, streamVars
  <2>2. UNCHANGED <<StagesLeft, ReportsLeft, FlagsLeft, ClientLeft, steps>>
        BY <2>1 DEF StagesLeft, ReportsLeft, FlagsLeft, ClientLeft, steps
  <2>3. tasks' = tasks /\ steps' = steps  BY <1>1, <2>1, <2>2 DEF tasks
  <2>4. /\ successChan \in Seq(SUBSET opened) /\ failureChan \in Seq(SUBSET opened)
        /\ errorChan \in Nat
        BY DEF RunInv
  <2>5. \A c \in Seq(SUBSET opened) : c # <<>> => Len(Tail(c)) = Len(c) - 1 /\ Len(c) \in Nat \ {0}
        OBVIOUS
  <2>6. Len(successChan) \in Nat /\ Len(failureChan) \in Nat  BY <2>4
  <2>7. backlog' < backlog
    <3>1. CASE CollectSuccess  BY <2>4, <2>5, <2>6, <3>1 DEF CollectSuccess, backlog
    <3>2. CASE CollectFailure  BY <2>4, <2>5, <2>6, <3>2 DEF CollectFailure, backlog
    <3>3. CASE CollectError  BY <2>4, <2>6, <3>3 DEF CollectError, backlog
    <3>4. CASE CollectEnd  BY <2>4, <2>6, <3>4 DEF CollectEnd, backlog, resultChans
    <3> QED  BY <1>8, <3>1, <3>2, <3>3, <3>4 DEF Collect
  <2> QED  BY <2>3, <2>7 DEF Shrinks
<1> QED  BY <1>2, <1>3, <1>4, <1>5, <1>6, <1>7, <1>8 DEF Stream

\* With this, a request is answered if the parties that can go on do: without a
\* new request only finitely many steps are left, and as long as it is not
\* answered one of them is possible.
THEOREM RunsGetShorter == RetrySpec => RunsShrink /\ []Finite
<1>1. RunInv /\ OnePlace /\ [RetryNext]_retryVars => [StartRun \/ Shrinks]_retryVars
      BY WorkShrinks, OthersShrink DEF RetryNext
<1>2. RunInv => docChan \in Seq(Docs)  BY DEF RunInv
<1> QED  BY <1>1, <1>2, MeasureFinite, RetryStart, RetryStep, RunStart, RunStep, OnceStart,
            OnceStep, PTL
         DEF RetrySpec, RunsShrink
=============================================================================
