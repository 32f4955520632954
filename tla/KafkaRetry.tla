----------------------------- MODULE KafkaRetry -----------------------------
(***************************************************************************)
(* The Kafka retry service of promo-collection-worker.  A run streams the  *)
(* collections without publishedToKafka through a channel to a pool of     *)
(* goroutines, which publish them in batches, set the flag in bulk and     *)
(* send the ids to the collector of the response.  The HTTP client may go  *)
(* away at any time, which cancels the context of all of them.  Meanwhile  *)
(* the handlers that stored the collections may still be reporting them.   *)
(***************************************************************************)
EXTENDS Naturals, Sequences, FiniteSets

CONSTANTS
    Docs,         \* collections
    Goroutines,   \* workerCount
    BufferSize,   \* capacity of each channel
    MaxBatch,     \* maxBatchSize
    MaxRuns,      \* bound: requests, one after the other
    Faults        \* mongo, kafka: a call fails; decode: a document cannot be
                  \* decoded; cancel: the client goes away

ASSUME RetryAssumption ==
    /\ IsFiniteSet(Docs) /\ IsFiniteSet(Goroutines)
    /\ Goroutines # {}   \* no run starts with a workerCount of zero
    /\ BufferSize \in Nat \ {0} /\ MaxBatch \in Nat \ {0} /\ MaxRuns \in Nat
    /\ Faults \subseteq {"mongo", "kafka", "decode", "cancel"}

VARIABLES
    published,    \* records on the output topic for each collection
    flagged,      \* collections with publishedToKafka
    handler,      \* where the handler that stored a collection is
    runs,         \* requests so far
    main,         \* where the request is
    opened,       \* what the cursor of this run selected
    skipped,      \* documents of it the stream did not deliver
    cursor,       \* documents it has not read
    docChan, docsClosed,
    job,          \* what each goroutine is doing
    successChan, failureChan, errorChan, resultsClosed,
    collecting,   \* collectResults is still in its loop
    cancelled,    \* the context of this run is done
    succeeded, failed, errorSeen   \* the response

docVars      == <<published, flagged>>
requestVars  == <<runs, main, opened>>
streamVars   == <<skipped, cursor, docsClosed>>
responseVars == <<collecting, succeeded, failed, errorSeen>>
resultChans  == <<successChan, failureChan, errorChan>>
retryVars    == <<docVars, handler, requestVars, streamVars, docChan, job, resultChans,
                  resultsClosed, responseVars, cancelled>>

IdleJob == [pc |-> "take", batch |-> {}, ok |-> {}, bad |-> {}, last |-> FALSE]
JobState == [pc : {"take", "publish", "success", "flag", "error", "failure", "exit"},
             batch : SUBSET Docs, ok : SUBSET Docs, bad : SUBSET Docs, last : BOOLEAN]

MayFail(k) == k \in Faults
HasRoom(channel) == Len(channel) < BufferSize

RetryTypeOK ==
    /\ published \in [Docs -> Nat]
    /\ flagged \subseteq Docs
    /\ handler \in [Docs -> {"report", "flag", "done"}]
    /\ runs \in 0..MaxRuns
    /\ main \in {"idle", "streaming", "joining", "awaiting"}
    /\ opened \subseteq Docs /\ skipped \subseteq opened /\ cursor \subseteq opened
    /\ docChan \in Seq(opened) /\ Len(docChan) <= BufferSize
    /\ job \in [Goroutines -> JobState]
    /\ \A g \in Goroutines : Cardinality(job[g].batch) <= MaxBatch
    /\ successChan \in Seq(SUBSET Docs) /\ Len(successChan) <= BufferSize
    /\ failureChan \in Seq(SUBSET Docs) /\ Len(failureChan) <= BufferSize
    /\ errorChan \in 0..BufferSize
    /\ docsClosed \in BOOLEAN /\ resultsClosed \in BOOLEAN /\ collecting \in BOOLEAN
    /\ cancelled \in BOOLEAN /\ errorSeen \in BOOLEAN
    /\ succeeded \subseteq opened /\ failed \subseteq opened

RetryInit ==
    /\ published = [d \in Docs |-> 0] /\ flagged = {}
    /\ handler = [d \in Docs |-> "report"]
    /\ runs = 0 /\ main = "idle" /\ opened = {}
    /\ skipped = {} /\ cursor = {} /\ docChan = <<>> /\ docsClosed = TRUE
    /\ job = [g \in Goroutines |-> [IdleJob EXCEPT !.pc = "exit"]]
    /\ successChan = <<>> /\ failureChan = <<>> /\ errorChan = 0 /\ resultsClosed = TRUE
    /\ collecting = FALSE /\ cancelled = FALSE
    /\ succeeded = {} /\ failed = {} /\ errorSeen = FALSE

-----------------------------------------------------------------------------
\* A publish that succeeds, and one that fails or gets no delivery report.
Publish(d)      == published' = [published EXCEPT ![d] = @ + 1]
MaybePublish(d) == Publish(d) \/ UNCHANGED published

\* The handler that stored the collection publishes its outcome and then sets
\* the flag, except for a response it could not read; it does neither again.
HandlerReport(d) ==
    /\ handler[d] = "report"
    /\ \/ /\ Publish(d)
          /\ \E next \in {"flag", "done"} : handler' = [handler EXCEPT ![d] = next]
       \/ MayFail("kafka") /\ MaybePublish(d) /\ handler' = [handler EXCEPT ![d] = "done"]
    /\ UNCHANGED <<flagged, requestVars, streamVars, docChan, job, resultChans,
                   resultsClosed, responseVars, cancelled>>

HandlerFlag(d) ==
    /\ handler[d] = "flag"
    /\ handler' = [handler EXCEPT ![d] = "done"]
    /\ flagged' = flagged \cup {d} \/ (MayFail("mongo") /\ UNCHANGED flagged)
    /\ UNCHANGED <<published, requestVars, streamVars, docChan, job, resultChans,
                   resultsClosed, responseVars, cancelled>>

-----------------------------------------------------------------------------
\* Mutant: the response of the run before is kept.
KeepResponse == UNCHANGED <<succeeded, failed, errorSeen>>

\* GetFailedKafkaEntriesCursor: what no flag is set on.
Unflagged == Docs \ flagged

NewResponse == succeeded' = {} /\ failed' = {} /\ errorSeen' = FALSE

\* RetryKafkaCollectionMessages opens the cursor, the channels and the
\* goroutines.
StartRun ==
    /\ main = "idle" /\ runs < MaxRuns
    /\ runs' = runs + 1 /\ main' = "streaming"
    /\ opened' = Unflagged /\ cursor' = Unflagged /\ skipped' = {}
    /\ docChan' = <<>> /\ docsClosed' = FALSE
    /\ job' = [g \in Goroutines |-> IdleJob]
    /\ successChan' = <<>> /\ failureChan' = <<>> /\ errorChan' = 0 /\ resultsClosed' = FALSE
    /\ collecting' = TRUE /\ cancelled' = FALSE
    /\ NewResponse
    /\ UNCHANGED <<docVars, handler>>

\* StreamDocuments: the next document goes to the channel, or is skipped when
\* it cannot be decoded.
StreamDocument(d) ==
    /\ main = "streaming" /\ d \in cursor
    /\ cursor' = cursor \ {d}
    /\ \/ HasRoom(docChan) /\ docChan' = Append(docChan, d) /\ UNCHANGED skipped
       \/ MayFail("decode") /\ skipped' = skipped \cup {d} /\ UNCHANGED docChan
    /\ UNCHANGED <<docVars, handler, requestVars, docsClosed, job, resultChans,
                   resultsClosed, responseVars, cancelled>>

\* It ends at the end of the cursor, at an error of it, which is sent if there
\* is room, or when the context is done.
StreamEnd ==
    /\ main = "streaming"
    /\ \/ cursor = {} /\ UNCHANGED errorChan
       \/ cancelled /\ UNCHANGED errorChan
       \/ /\ MayFail("mongo")
          /\ \/ errorChan < BufferSize /\ errorChan' = errorChan + 1
             \/ errorChan = BufferSize /\ UNCHANGED errorChan
    /\ main' = "joining" /\ docsClosed' = TRUE
    /\ skipped' = skipped \cup cursor /\ cursor' = {}
    /\ UNCHANGED <<docVars, handler, runs, opened, docChan, job, successChan, failureChan,
                   resultsClosed, responseVars, cancelled>>

\* wg.Wait, and the result channels are closed.
Join ==
    /\ main = "joining"
    /\ \A g \in Goroutines : job[g].pc = "exit"
    /\ main' = "awaiting" /\ resultsClosed' = TRUE
    /\ UNCHANGED <<docVars, handler, runs, opened, streamVars, docChan, job, resultChans,
                   responseVars, cancelled>>

\* <-resultsDone, and the response is sent.
Respond ==
    /\ main = "awaiting" /\ ~collecting
    /\ main' = "idle"
    /\ UNCHANGED <<docVars, handler, runs, opened, streamVars, docChan, job, resultChans,
                   resultsClosed, responseVars, cancelled>>

Cancel ==
    /\ MayFail("cancel") /\ main # "idle" /\ ~cancelled
    /\ cancelled' = TRUE
    /\ UNCHANGED <<docVars, handler, requestVars, streamVars, docChan, job, resultChans,
                   resultsClosed, responseVars>>

-----------------------------------------------------------------------------
\* processDocumentsWorker: a goroutine waits for a document, its ticker, the
\* end of the channel or the end of the context.
Waits(g) == job[g].pc = "take"
SetJob(g, j) == job' = [job EXCEPT ![g] = j]

TakeDocument(g) ==
    /\ Waits(g) /\ docChan # <<>>
    /\ LET batch == job[g].batch \cup {Head(docChan)} IN
       SetJob(g, [job[g] EXCEPT
          !.batch = batch,
          !.pc    = IF Cardinality(batch) >= MaxBatch THEN "publish" ELSE "take"])
    /\ docChan' = Tail(docChan)
    /\ UNCHANGED <<docVars, handler, requestVars, streamVars, resultChans, resultsClosed,
                   responseVars, cancelled>>

FlushBatch(g) ==
    /\ Waits(g) /\ job[g].batch # {}
    /\ SetJob(g, [job[g] EXCEPT !.pc = "publish"])
    /\ UNCHANGED <<docVars, handler, requestVars, streamVars, docChan, resultChans,
                   resultsClosed, responseVars, cancelled>>

\* The documents still in the batch are published before the goroutine ends.
LastBatch(g) ==
    /\ Waits(g)
    /\ (docsClosed /\ docChan = <<>>) \/ cancelled
    /\ SetJob(g, [job[g] EXCEPT !.pc   = IF job[g].batch = {} THEN "exit" ELSE "publish",
                                !.last = TRUE])
    /\ UNCHANGED <<docVars, handler, requestVars, streamVars, docChan, resultChans,
                   resultsClosed, responseVars, cancelled>>

-----------------------------------------------------------------------------
\* Mutant: the batch is kept for the next time.
BatchKept(j) == [j EXCEPT !.pc = IF j.last THEN "exit" ELSE "take", !.batch = j.ok, !.ok = {}, !.bad = {}]

\* processAndPublishBatch returns: the batch is emptied, whatever became of it.
Returned(j) == [IdleJob EXCEPT !.pc = IF j.last THEN "exit" ELSE "take", !.last = j.last]

\* handleSuccessIDs sends the published ids first and the others after them.
AfterPublish(j) == IF j.ok # {} THEN [j EXCEPT !.pc = "success"]
                   ELSE IF j.bad # {} THEN [j EXCEPT !.pc = "failure"]
                   ELSE Returned(j)
AfterUpdate(j)  == IF j.bad # {} THEN [j EXCEPT !.pc = "failure"] ELSE Returned(j)

\* One document of the batch.  An error is sent if there is room and dropped
\* if there is none; if the context is done as well, all of the batch may be.
PublishDocument(g) ==
    /\ job[g].pc = "publish"
    /\ \E d \in job[g].batch :
          LET left == [job[g] EXCEPT !.batch = @ \ {d}]
              Go(j) == SetJob(g, IF j.batch = {} THEN AfterPublish(j) ELSE j)
              Failed == [left EXCEPT !.bad = @ \cup {d}]
          IN \/ Publish(d) /\ Go([left EXCEPT !.ok = @ \cup {d}]) /\ UNCHANGED errorChan
             \/ /\ MayFail("kafka") /\ MaybePublish(d)
                /\ \/ errorChan < BufferSize /\ errorChan' = errorChan + 1 /\ Go(Failed)
                   \/ /\ errorChan = BufferSize /\ ~cancelled /\ Go(Failed)
                      /\ UNCHANGED errorChan
                   \/ cancelled /\ SetJob(g, Returned(job[g])) /\ UNCHANGED errorChan
    /\ UNCHANGED <<flagged, handler, requestVars, streamVars, docChan, successChan,
                   failureChan, resultsClosed, responseVars, cancelled>>

\* Mutant: the ids of the whole batch.
BatchIds(j) == j.ok \cup j.bad

\* The ids to list as published and to flag.
SuccessIds(j) == j.ok

\* Whoever finds the context done gives up its batch.
GiveUp(g) == cancelled /\ SetJob(g, Returned(job[g]))

SendSuccess(g) ==
    /\ job[g].pc = "success"
    /\ \/ /\ HasRoom(successChan) /\ successChan' = Append(successChan, SuccessIds(job[g]))
          /\ SetJob(g, [job[g] EXCEPT !.pc = "flag"])
       \/ GiveUp(g) /\ UNCHANGED successChan
    /\ UNCHANGED <<docVars, handler, requestVars, streamVars, docChan, failureChan,
                   errorChan, resultsClosed, responseVars, cancelled>>

\* UpdatePublishedToKafkaInBulk: what fails may have been applied.
FlagBatch(g) ==
    /\ job[g].pc = "flag"
    /\ \/ flagged' = flagged \cup SuccessIds(job[g]) /\ SetJob(g, AfterUpdate(job[g]))
       \/ /\ MayFail("mongo") \/ cancelled
          /\ flagged' = flagged \cup SuccessIds(job[g]) \/ UNCHANGED flagged
          /\ SetJob(g, [job[g] EXCEPT !.pc = "error"])
    /\ UNCHANGED <<published, handler, requestVars, streamVars, docChan, resultChans,
                   resultsClosed, responseVars, cancelled>>

\* Mutant: the send does not wait for the context.
SendErrorOnly(g) ==
    /\ job[g].pc = "error"
    /\ errorChan < BufferSize /\ errorChan' = errorChan + 1
    /\ SetJob(g, AfterUpdate(job[g]))
    /\ UNCHANGED <<docVars, handler, requestVars, streamVars, docChan, successChan,
                   failureChan, resultsClosed, responseVars, cancelled>>

SendError(g) ==
    /\ job[g].pc = "error"
    /\ \/ /\ errorChan < BufferSize /\ errorChan' = errorChan + 1
          /\ SetJob(g, AfterUpdate(job[g]))
       \/ GiveUp(g) /\ UNCHANGED errorChan
    /\ UNCHANGED <<docVars, handler, requestVars, streamVars, docChan, successChan,
                   failureChan, resultsClosed, responseVars, cancelled>>

SendFailure(g) ==
    /\ job[g].pc = "failure"
    /\ \/ /\ HasRoom(failureChan) /\ failureChan' = Append(failureChan, job[g].bad)
          /\ SetJob(g, Returned(job[g]))
       \/ GiveUp(g) /\ UNCHANGED failureChan
    /\ UNCHANGED <<docVars, handler, requestVars, streamVars, docChan, successChan,
                   errorChan, resultsClosed, responseVars, cancelled>>

-----------------------------------------------------------------------------
\* collectResults receives from whichever channel has something.
CollectSuccess ==
    /\ collecting /\ successChan # <<>>
    /\ successChan' = Tail(successChan)
    /\ succeeded' = succeeded \cup Head(successChan)
    /\ UNCHANGED <<failureChan, errorChan, collecting, failed, errorSeen>>

CollectFailure ==
    /\ collecting /\ failureChan # <<>>
    /\ failureChan' = Tail(failureChan)
    /\ failed' = failed \cup Head(failureChan)
    /\ UNCHANGED <<successChan, errorChan, collecting, succeeded, errorSeen>>

CollectError ==
    /\ collecting /\ errorChan > 0
    /\ errorChan' = errorChan - 1
    /\ errorSeen' = TRUE
    /\ UNCHANGED <<successChan, failureChan, collecting, succeeded, failed>>

\* Mutant: the first closed channel ends the loop.
DrainedOne == resultsClosed /\ (successChan = <<>> \/ failureChan = <<>> \/ errorChan = 0)

\* All three channels are closed and empty.
Drained == resultsClosed /\ successChan = <<>> /\ failureChan = <<>> /\ errorChan = 0

CollectEnd ==
    /\ collecting
    /\ Drained \/ cancelled
    /\ collecting' = FALSE
    /\ UNCHANGED <<resultChans, succeeded, failed, errorSeen>>

Collect ==
    /\ CollectSuccess \/ CollectFailure \/ CollectError \/ CollectEnd
    /\ UNCHANGED <<docVars, handler, requestVars, streamVars, docChan, job, resultsClosed,
                   cancelled>>

Stream == (\E d \in Docs : StreamDocument(d)) \/ StreamEnd

Work(g) ==
    \/ TakeDocument(g) \/ FlushBatch(g) \/ LastBatch(g) \/ PublishDocument(g)
    \/ SendSuccess(g) \/ FlagBatch(g) \/ SendError(g) \/ SendFailure(g)

RetryNext ==
    \/ \E d \in Docs : HandlerReport(d) \/ HandlerFlag(d)
    \/ StartRun \/ Stream \/ Join \/ Respond \/ Cancel \/ Collect
    \/ \E g \in Goroutines : Work(g)

RetrySpec == RetryInit /\ [][RetryNext]_retryVars

\* The Go scheduler runs every goroutine; a select with several ready cases
\* may take any of them.
RetryFairness ==
    /\ WF_retryVars(Stream) /\ WF_retryVars(Join) /\ WF_retryVars(Respond)
    /\ WF_retryVars(Collect)
    /\ \A g \in Goroutines : WF_retryVars(Work(g))

FairRetrySpec == RetrySpec /\ RetryFairness

-----------------------------------------------------------------------------
\* The flag means published, also when a cancelled or failing run, its retry
\* and the handler all set it.
FlaggedWerePublished == \A d \in flagged : published[d] > 0

\* A run publishes a collection at most once, whatever happens to its batch
\* and its goroutine, and the handler does at most once.
PublishedPerRun == \A d \in Docs : published[d] <= runs + 1

\* The response of a run nobody cancelled accounts for every collection the
\* stream delivered, in exactly one of its two lists, and what it lists as
\* published was published and, unless it reports an error, is flagged.
ResponseComplete ==
    main = "awaiting" /\ ~collecting /\ ~cancelled =>
       /\ succeeded \cup failed = opened \ skipped
       /\ succeeded \cap failed = {}
       /\ \A d \in succeeded : published[d] > 0
       /\ ~errorSeen => succeeded \subseteq flagged

\* A request is answered: the pool, the stream and the collector never wait
\* for each other for good, cancelled or not.
RunEnds == main # "idle" ~> main = "idle"
=============================================================================
