--------------------------- MODULE AvailmentRetry ---------------------------
(***************************************************************************)
(* The Kafka retry of loan-availment, beside the publishers of             *)
(* LoanAvailment that still report and flag their outcomes.  A run takes   *)
(* the availments of the last hours that are not flagged and hands them to *)
(* a producer, which sends them on its own.  Every run makes a producer    *)
(* and closes it at its end, but the one it uses is in a global variable:  *)
(* runs of several HTTP requests replace and close each other's.           *)
(***************************************************************************)
EXTENDS LoanAvailment

CONSTANTS
    RetryRuns,    \* runs; each is started by a request and answers it
    RetryTroubles \* mongo: a read fails; queue: the producer does not take a
                  \* message; broker: it cannot send all it has taken in time

ASSUME AvailmentRetryAssumption ==
    /\ IsFiniteSet(RetryRuns)
    /\ RetryTroubles \subseteq {"mongo", "queue", "broker"}

VARIABLES
    producer, \* the runs whose producer is the global one: one, or none yet
    closed,   \* runs that have closed the producer they made
    queued,   \* messages a producer has taken: the run that made it, and the request
    run       \* the runs

retryVars == <<producer, closed, queued, run>>

\* uses: the run whose producer it uses; rows: still to be sent; ok, bad: those the
\* producer took, and did not take; lossy: messages were left behind.
NewRun == [at |-> "new", uses |-> {}, rows |-> {}, ok |-> {}, bad |-> {}, lossy |-> FALSE]
RunState == [at : {"new", "select", "send", "flag", "close", "end"},
             uses : SUBSET RetryRuns, rows : SUBSET Requests, ok : SUBSET Requests,
             bad : SUBSET Requests, lossy : BOOLEAN]

AvailmentRetryTypeOK ==
    /\ producer \subseteq RetryRuns /\ Cardinality(producer) <= 1
    /\ closed \subseteq RetryRuns /\ queued \subseteq RetryRuns \X Requests
    /\ run \in [RetryRuns -> RunState]

RetryStart ==
    /\ producer = {} /\ closed = {} /\ queued = {}
    /\ run = [k \in RetryRuns |-> NewRun]

Trouble(t) == t \in RetryTroubles
OnlyRun == UNCHANGED availVars

-----------------------------------------------------------------------------

\* Mutant: the producer of an earlier run is kept.
OpenAnother(k) ==
    /\ run[k].at = "new" /\ run' = [run EXCEPT ![k].at = "select"]
    /\ producer' = producer \cup {k}
    /\ OnlyRun /\ UNCHANGED <<closed, queued>>

\* RetryKafkaAvailmentMessage: another producer, which becomes the global one.
OpenProducer(k) ==
    /\ run[k].at = "new" /\ run' = [run EXCEPT ![k].at = "select"]
    /\ producer' = {k}
    /\ OnlyRun /\ UNCHANGED <<closed, queued>>

\* GetFailedKafkaEntries, PrepareAvailmentMessage: without rows the run is over.
\* It sends with the producer that is the global one when it has them.  (No
\* availment is as old as the retry does not look back.)
Unflagged == {r \in Requests : availment[r] # "none"} \ flagged

Select(k) ==
    /\ run[k].at = "select"
    /\ \/ Unflagged # {}
          /\ run' = [run EXCEPT ![k].at = "send", ![k].uses = producer, ![k].rows = Unflagged]
       \/ Unflagged = {} /\ run' = [run EXCEPT ![k].at = "close"]
       \/ Trouble("mongo") /\ run' = [run EXCEPT ![k].at = "close"]
    /\ OnlyRun /\ UNCHANGED <<producer, closed, queued>>

\* SendMessageBatch: three attempts.  The list of failures in the answer, which is
\* made anew from the successes every time, is left out.
Produce(k, r) ==
    /\ run[k].at = "send" /\ r \in run[k].rows
    /\ \/ /\ ~(run[k].uses \subseteq closed)
          /\ run' = [run EXCEPT ![k].rows = @ \ {r}, ![k].ok = @ \cup {r}]
          /\ queued' = queued \cup (run[k].uses \X {r})
       \/ /\ Trouble("queue") \/ run[k].uses \subseteq closed
          /\ run' = [run EXCEPT ![k].rows = @ \ {r}, ![k].bad = @ \cup {r}]
          /\ UNCHANGED queued
    /\ OnlyRun /\ UNCHANGED <<producer, closed>>

\* A producer sends what it has, in the meantime and during the flush.
DeliverReport(k, r) ==
    /\ <<k, r>> \in queued /\ queued' = queued \ {<<k, r>>}
    /\ reported' = reported \cup {r}
    /\ UNCHANGED <<req, pub, locks, provisioned, records, anonymous, flagged,
                   producer, closed, run>>

\* What the producer of a run has not sent yet.
Left(k) == {m \in queued : m[1] \in run[k].uses}

\* Mutant: nothing is waited for.
FlushNot(k) ==
    /\ run[k].at = "send" /\ run[k].rows = {}
    /\ run' = [run EXCEPT ![k].at = "flag"]
    /\ OnlyRun /\ UNCHANGED <<producer, closed, queued>>

\* Flush: the queue of that producer is empty, or fifteen seconds are over.
Flush(k) ==
    /\ run[k].at = "send" /\ run[k].rows = {}
    /\ \/ Left(k) = {} /\ run' = [run EXCEPT ![k].at = "flag"]
       \/ /\ Trouble("broker") /\ Left(k) # {}
          /\ run' = [run EXCEPT ![k].at = "flag", ![k].lossy = TRUE]
    /\ OnlyRun /\ UNCHANGED <<producer, closed, queued>>

\* SetKafkaFlag: it is given GUIDs, which are no _id, and refuses all of them.
SetKafkaFlag(k) ==
    /\ run[k].at = "flag" /\ run' = [run EXCEPT ![k].at = "close"]
    /\ OnlyRun /\ UNCHANGED <<producer, closed, queued>>

\* The deferred Close, of the producer the run has made, with what it has left.
CloseProducer(k) ==
    /\ run[k].at = "close"
    /\ closed' = closed \cup {k} /\ queued' = {m \in queued : m[1] # k}
    /\ run' = [j \in RetryRuns |->
                  IF j = k THEN [run[k] EXCEPT !.at = "end"]
                  ELSE IF k \in run[j].uses /\ Left(j) # {} THEN [run[j] EXCEPT !.lossy = TRUE]
                  ELSE run[j]]
    /\ OnlyRun /\ UNCHANGED producer

RunStep(k) ==
    \/ Select(k) \/ Flush(k) \/ SetKafkaFlag(k) \/ CloseProducer(k)
    \/ \E r \in Requests : Produce(k, r)

RetryStep ==
    \/ \E k \in RetryRuns : OpenProducer(k) \/ RunStep(k)
    \/ \E k \in RetryRuns, r \in Requests : DeliverReport(k, r)

\* The calls of a run end in an answer or a timeout.
RetryFairness == \A k \in RetryRuns : WF_<<availVars, retryVars>>(RunStep(k))

-----------------------------------------------------------------------------
(* Properties.                                                             *)

\* Unless messages were left in the producer, a run has sent what it answers as a
\* success, and neither lost nor counted twice any other row: also when another run
\* closes the producer under it.
RunAccounts ==
    \A k \in RetryRuns :
        run[k].at \in {"flag", "close", "end"} =>
            /\ run[k].ok \cap run[k].bad = {}
            /\ ~run[k].lossy => run[k].ok \subseteq reported

\* A run ends, whatever other runs do to its producer.
RetryRunEnds == \A k \in RetryRuns : run[k].at # "new" ~> run[k].at = "end"
=============================================================================
