--------------------------- MODULE LoanAvailment ---------------------------
(***************************************************************************)
(* The availment of a loan by loan-availment.  A request is answered at    *)
(* once and served by a goroutine of its own, on any of the instances of   *)
(* the service: it takes the subscriber's lock (a document of              *)
(* transactionInProgress, which a TTL index removes in the end), looks for *)
(* an open loan, has AMAX top the subscriber up, stores availment, loan    *)
(* and unpaid balance and deletes the lock.  A second goroutine publishes  *)
(* the outcome to Kafka and flags the availment.  Validation rules,        *)
(* amounts and texts are abstracted to accepted or refused.                *)
(***************************************************************************)
EXTENDS Naturals, FiniteSets

CONSTANTS
    Requests,     \* requests for a loan
    Subscribers,
    SubscriberOf, \* who each request is for
    TopupReplies, \* what AMAX may answer to a top-up
    Events        \* ttl: locks expire; late: also under a running request;
                  \* mongo, lock, redis, kafka: a call fails (lock: the insert
                  \* of the lock); crash: an instance dies; race: the lock
                  \* checks of two requests overlap; keyword: a malformed
                  \* keyword comes with the number in its stored form; repay:
                  \* a loan is collected while a request is running

\* The load or a refusal, an answer that cannot be read, and none at all.
AllReplies == {"ok", "refused", "unread", "timeout"}
AllEvents  == {"ttl", "late", "mongo", "lock", "redis", "kafka", "crash", "race",
               "keyword", "repay"}

ASSUME AvailmentAssumption ==
    /\ IsFiniteSet(Requests)
    /\ SubscriberOf \in [Requests -> Subscribers]
    /\ TopupReplies \subseteq AllReplies
    /\ Events \subseteq AllEvents

VARIABLES
    req,          \* where the goroutine of each request is
    pub,          \* and its publisher
    locks,        \* documents of transactionInProgress, by who inserted them
    provisioned,  \* requests AMAX topped up
    availment,    \* the availment document of each request
    loan,         \* its loan document
    unpaid,       \* requests with an unpaid balance document
    reported,     \* requests whose outcome is on the topic, under their GUID
    anonymous,    \* and those reported under a blank GUID
    flagged       \* availments with publishedToKafka

records    == <<availment, loan, unpaid>>
topic      == <<reported, anonymous, flagged>>
availVars  == <<req, pub, locks, provisioned, records, topic>>

\* From the insert of the lock to its deletion, and what leaves it to the TTL.
Holding == {"eligible", "session", "login", "topup", "rules", "availment", "loan",
            "unpaid", "unlock", "fail", "release", "timeout"}
Kept    == {"kept", "lost"}
Ended   == {"done"} \cup Kept
Running == Holding \cup {"check", "lock", "refuse", "badword", "cache", "again"}

\* Found without a loan, and not given one yet.
Lending == {"session", "login", "topup", "rules", "availment", "loan"}

AvailTypeOK ==
    /\ req \in [Requests -> {"new"} \cup Running \cup Ended]
    /\ pub \in [Requests -> {"none", "report", "blank", "flag", "panic", "done"}]
    /\ locks \subseteq Requests
    /\ provisioned \subseteq Requests
    /\ availment \in [Requests -> {"none", "failed", "success"}]
    /\ loan \in [Requests -> {"none", "open", "closed"}]
    /\ unpaid \subseteq Requests
    /\ reported \subseteq Requests /\ anonymous \subseteq Requests
    /\ flagged \subseteq Requests
    /\ \A r \in Requests : pub[r] # "none" => req[r] \in Ended \cup {"release", "again"}

AvailInit ==
    /\ req = [r \in Requests |-> "new"] /\ pub = [r \in Requests |-> "none"]
    /\ locks = {} /\ provisioned = {}
    /\ availment = [r \in Requests |-> "none"] /\ loan = [r \in Requests |-> "none"]
    /\ unpaid = {} /\ reported = {} /\ anonymous = {} /\ flagged = {}

May(e) == e \in Events
SameSubscriber(r) == {q \in Requests : SubscriberOf[q] = SubscriberOf[r]}
LocksFor(r) == locks \cap SameSubscriber(r)
Quiet(r) == \A q \in SameSubscriber(r) : req[q] \notin Running
Goto(r, next) == req' = [req EXCEPT ![r] = next]

\* DeleteOne by number: one lock of the subscriber, whoever inserted it.
DeleteLock(r) ==
    IF LocksFor(r) = {} THEN UNCHANGED locks
                        ELSE \E l \in LocksFor(r) : locks' = locks \ {l}

\* The insert has failed in the end: the outcome goes out without GUID and _id.
ReportBlank(r) == pub' = [pub EXCEPT ![r] = "blank"]
Report(r)      == pub' = [pub EXCEPT ![r] = "report"]

-----------------------------------------------------------------------------
(* The request, up to the lock.                                            *)

\* requestValidation: number, transaction id and keyword.
Verdicts == {"check", "refuse"} \cup (IF May("keyword") THEN {"badword"} ELSE {})

\* AvailLoan.
Receive(r) ==
    /\ req[r] = "new"
    /\ \E next \in Verdicts : Goto(r, next)
    /\ UNCHANGED <<pub, locks, provisioned, records, topic>>

\* No other request of the subscriber is between its check and its insert.
Alone(r) == \A q \in SameSubscriber(r) : req[q] # "lock"

\* transactionInprogressAndBrandCheck: an error of the profile service, an
\* unknown brand, a failed read or a lock refuse the request.
CheckLock(r) ==
    /\ req[r] = "check"
    /\ \/ Goto(r, "refuse")
       \/ LocksFor(r) = {} /\ (May("race") \/ Alone(r)) /\ Goto(r, "lock")
    /\ UNCHANGED <<pub, locks, provisioned, records, topic>>

\* CreateTransactionInProgressEntry, whose error is ignored.
CreateLock(r) ==
    /\ req[r] = "lock"
    /\ Goto(r, "eligible")
    /\ locks' = locks \cup {r} \/ (May("lock") /\ UNCHANGED locks)
    /\ UNCHANGED <<pub, provisioned, records, topic>>

HasOpenLoan(r) == \E q \in SameSubscriber(r) : loan[q] = "open"

\* Mutant: a loan that is not there yet when the request comes in goes unnoticed.
CheckOwnLoan(r) ==
    /\ req[r] = "eligible"
    /\ \/ Goto(r, "fail")
       \/ loan[r] # "open" /\ Goto(r, "session")
    /\ UNCHANGED <<pub, locks, provisioned, records, topic>>

\* CheckEligibility: keyword, blacklist, product, open loan, whitelist, channel,
\* brand and score, then the name of the product.
CheckEligibility(r) ==
    /\ req[r] = "eligible"
    /\ \/ Goto(r, "fail")
       \/ ~HasOpenLoan(r) /\ Goto(r, "session")
    /\ UNCHANGED <<pub, locks, provisioned, records, topic>>

-----------------------------------------------------------------------------
(* AMAX.                                                                   *)

\* CreateSession and LoginSession provision nothing.
AmaxCall(r, here, next) ==
    /\ req[r] = here
    /\ Goto(r, next) \/ Goto(r, "fail")
    /\ UNCHANGED <<pub, locks, provisioned, records, topic>>

CreateSession(r) == AmaxCall(r, "session", "login")
LoginSession(r)  == AmaxCall(r, "login", "topup")

\* Mutant: the lock is deleted after every error.
AlwaysRelease == [ok |-> "rules", refused |-> "fail", unread |-> "fail", timeout |-> "fail"]

\* Mutant: a call without an answer is repeated in a new session.
RepeatTopup == [ok |-> "rules", refused |-> "fail", unread |-> "fail", timeout |-> "session"]

\* Where ProvisionLoanAmax goes on after each answer.  Only a call that ends
\* without an answer keeps the lock; an answer it cannot read does not.
AfterTopup == [ok |-> "rules", refused |-> "fail", unread |-> "fail", timeout |-> "timeout"]

\* The subscriber has the load, and may have it without the service knowing.
Topup(r) ==
    /\ req[r] = "topup"
    /\ \E reply \in TopupReplies :
          /\ Goto(r, AfterTopup[reply])
          /\ \/ reply # "refused" /\ provisioned' = provisioned \cup {r}
             \/ reply # "ok" /\ UNCHANGED provisioned
    /\ UNCHANGED <<pub, locks, records, topic>>

-----------------------------------------------------------------------------
(* InsertSuccessfulAvailment.  Its inserts take no part in the transaction *)
(* it opens, so that aborting it undoes nothing.                           *)

\* Mutant: the availment is returned with the error.
ReportAnyway(r, next) ==
    /\ Goto(r, next)
    /\ Report(r)
    /\ UNCHANGED <<locks, provisioned, records, topic>>

\* The first error ends it: ProvisionLoanAmax reports success all the same.
BookingFails(r, next) ==
    /\ Goto(r, next)
    /\ ReportBlank(r)
    /\ UNCHANGED <<locks, provisioned, records, topic>>

\* Without the system rules it returns no product, which the publisher reads.
ReadRules(r) ==
    /\ req[r] = "rules"
    /\ \/ Goto(r, "availment") /\ UNCHANGED pub
       \/ May("mongo") /\ Goto(r, "release") /\ pub' = [pub EXCEPT ![r] = "panic"]
    /\ UNCHANGED <<locks, provisioned, records, topic>>

InsertAvailment(r) ==
    /\ req[r] = "availment"
    /\ \/ /\ Goto(r, "loan") /\ availment' = [availment EXCEPT ![r] = "success"]
          /\ UNCHANGED <<pub, locks, provisioned, loan, unpaid, topic>>
       \/ May("mongo") /\ BookingFails(r, "release")

CreateLoan(r) ==
    /\ req[r] = "loan"
    /\ \/ /\ Goto(r, "unpaid") /\ loan' = [loan EXCEPT ![r] = "open"]
          /\ UNCHANGED <<pub, locks, provisioned, availment, unpaid, topic>>
       \/ May("mongo") /\ BookingFails(r, "release")

CreateUnpaid(r) ==
    /\ req[r] = "unpaid"
    /\ \/ /\ Goto(r, "unlock") /\ unpaid' = unpaid \cup {r}
          /\ UNCHANGED <<pub, locks, provisioned, availment, loan, topic>>
       \/ May("mongo") /\ BookingFails(r, "release")

Unlock(r) ==
    /\ req[r] = "unlock"
    /\ \/ /\ Goto(r, "cache") /\ DeleteLock(r)
          /\ UNCHANGED <<pub, provisioned, records, topic>>
       \/ May("mongo") /\ BookingFails(r, "release")

\* The periods of the loan go to Redis; then ProvisionLoanAmax deletes the lock
\* once more.
SaveToRedis(r) ==
    /\ req[r] = "cache"
    /\ \/ /\ Goto(r, "again") /\ Report(r)
          /\ UNCHANGED <<locks, provisioned, records, topic>>
       \/ May("redis") /\ BookingFails(r, "again")

-----------------------------------------------------------------------------
(* Failures, and the end of a request.                                     *)

AfterFailure == [refuse |-> "done", badword |-> "again", fail |-> "release", timeout |-> "kept"]

\* Mutant: nothing is published about a request refused before it has a lock.
RefuseSilently(r) ==
    /\ req[r] \in DOMAIN AfterFailure
    /\ Goto(r, AfterFailure[req[r]])
    /\ availment' = [availment EXCEPT ![r] = "failed"]
    /\ IF req[r] = "refuse" THEN UNCHANGED pub ELSE Report(r)
    /\ UNCHANGED <<locks, provisioned, loan, unpaid, topic>>

\* InsertFailedAvailment, and its publisher.
InsertFailed(r) ==
    /\ req[r] \in DOMAIN AfterFailure
    /\ Goto(r, AfterFailure[req[r]])
    /\ \/ Report(r) /\ availment' = [availment EXCEPT ![r] = "failed"]
       \/ May("mongo") /\ ReportBlank(r) /\ UNCHANGED availment
    /\ UNCHANGED <<locks, provisioned, loan, unpaid, topic>>

\* Mutant: the request ends with its lock in place.
EndLocked(r) ==
    /\ req[r] = "release"
    /\ Goto(r, "done")
    /\ UNCHANGED <<pub, locks, provisioned, records, topic>>

\* DeleteTransactionInProgressByMsisdn by the request that still has its lock.
Release(r) ==
    /\ req[r] = "release"
    /\ \/ Goto(r, "done") /\ DeleteLock(r)
       \/ May("mongo") /\ Goto(r, "kept") /\ UNCHANGED locks
    /\ UNCHANGED <<pub, provisioned, records, topic>>

\* And by one that has none, any more or at all.
ReleaseAgain(r) ==
    /\ req[r] = "again"
    /\ Goto(r, "done")
    /\ DeleteLock(r) \/ (May("mongo") /\ UNCHANGED locks)
    /\ UNCHANGED <<pub, provisioned, records, topic>>

-----------------------------------------------------------------------------
(* The publisher.                                                          *)

\* A Kafka error may come after the message was taken.
Publish(r) ==
    /\ pub[r] \in {"report", "blank"}
    /\ \/ /\ pub' = [pub EXCEPT ![r] = IF @ = "report" THEN "flag" ELSE "done"]
          /\ IF pub[r] = "report"
                THEN reported' = reported \cup {r} /\ UNCHANGED anonymous
                ELSE anonymous' = anonymous \cup {r} /\ UNCHANGED reported
       \/ /\ May("kafka") /\ pub' = [pub EXCEPT ![r] = "done"]
          /\ \/ UNCHANGED <<reported, anonymous>>
             \/ pub[r] = "report" /\ reported' = reported \cup {r} /\ UNCHANGED anonymous
             \/ pub[r] = "blank" /\ anonymous' = anonymous \cup {r} /\ UNCHANGED reported
    /\ UNCHANGED <<req, locks, provisioned, records, flagged>>

\* UpdateAvailment, whose error is only logged.
Flag(r) ==
    /\ pub[r] = "flag"
    /\ pub' = [pub EXCEPT ![r] = "done"]
    /\ flagged' = flagged \cup {r} \/ (May("mongo") /\ UNCHANGED flagged)
    /\ UNCHANGED <<req, locks, provisioned, records, reported, anonymous>>

-----------------------------------------------------------------------------
(* Everything around it.                                                   *)

\* What an instance has in hand: requests it serves or still has to report.
Busy == {r \in Requests : req[r] \in Running \/ pub[r] \notin {"none", "done"}}

Die(dead) ==
    /\ req' = [r \in Requests |-> IF r \in dead /\ req[r] \in Running THEN "lost" ELSE req[r]]
    /\ pub' = [r \in Requests |-> IF r \in dead /\ pub[r] # "none" THEN "done" ELSE pub[r]]
    /\ UNCHANGED <<locks, provisioned, records, topic>>

\* An instance dies with all it has in hand, by itself or because a publisher
\* dereferences the product it was not given.
Crash == May("crash") /\ \E dead \in (SUBSET Busy) \ {{}} : Die(dead)
Panic(r) == pub[r] = "panic" /\ \E dead \in SUBSET Busy : r \in dead /\ Die(dead)

\* Mutant: only the locks of top-ups without an answer expire.
ExpireKept(l) ==
    /\ May("ttl") /\ l \in locks /\ req[l] = "kept" /\ Quiet(l)
    /\ locks' = locks \ {l}
    /\ UNCHANGED <<req, pub, provisioned, records, topic>>

\* The TTL index, whose hours are far longer than a request.
Expire(l) ==
    /\ May("ttl") /\ l \in locks
    /\ May("late") \/ Quiet(l)
    /\ locks' = locks \ {l}
    /\ UNCHANGED <<req, pub, provisioned, records, topic>>

\* The collection of the loan, by the other services, deletes it.
CloseLoan(r) ==
    /\ loan[r] = "open"
    /\ May("repay") \/ Quiet(r)
    /\ loan' = [loan EXCEPT ![r] = "closed"]
    /\ UNCHANGED <<req, pub, locks, provisioned, availment, unpaid, topic>>

Serve(r) ==
    \/ CheckLock(r) \/ CreateLock(r) \/ CheckEligibility(r)
    \/ CreateSession(r) \/ LoginSession(r) \/ Topup(r)
    \/ ReadRules(r) \/ InsertAvailment(r) \/ CreateLoan(r) \/ CreateUnpaid(r)
    \/ Unlock(r) \/ SaveToRedis(r)
    \/ InsertFailed(r) \/ Release(r) \/ ReleaseAgain(r)

PublisherStep(r) == Publish(r) \/ Flag(r) \/ Panic(r)

AvailNext ==
    \/ Crash
    \/ \E r \in Requests :
          Receive(r) \/ Serve(r) \/ PublisherStep(r) \/ Expire(r) \/ CloseLoan(r)

AvailSpec == AvailInit /\ [][AvailNext]_availVars

\* Goroutines are scheduled and their calls end in an answer or a timeout;
\* MongoDB goes on removing what has expired.
AvailFairness ==
    \A r \in Requests :
        /\ WF_availVars(Serve(r))
        /\ WF_availVars(PublisherStep(r))
        /\ WF_availVars(Expire(r))

FairAvailSpec == AvailSpec /\ AvailFairness

-----------------------------------------------------------------------------
(* Properties.                                                             *)

\* The documents of a loan follow each other: no unpaid balance without a loan,
\* no loan without a successful availment, none of them without a top-up,
\* although the transaction around the inserts protects nothing.
RecordsInOrder ==
    \A r \in Requests :
        /\ r \in unpaid => loan[r] # "none"
        /\ loan[r] # "none" => availment[r] = "success"
        /\ availment[r] = "success" => r \in provisioned

\* Only what is on the topic is flagged, and what is there under the GUID of an
\* availment is true: a success has its loan and its unpaid balance.
ReportsAreTrue ==
    /\ flagged \subseteq reported
    /\ \A r \in reported :
          /\ availment[r] # "none"
          /\ availment[r] = "success" => loan[r] # "none" /\ r \in unpaid

\* A subscriber has no more locks than requests that hold one or have left one
\* to the TTL index: no request ends and leaves him locked out for hours, in
\* whatever order requests delete each other's locks.
LockIsJustified ==
    \A r \in Requests :
        Cardinality(LocksFor(r))
          <= Cardinality({q \in SameSubscriber(r) : req[q] \in Holding \cup Kept})

\* A subscriber has at most one open loan.
OneLoan ==
    \A r \in Requests : \A q \in SameSubscriber(r) :
        loan[r] = "open" /\ loan[q] = "open" => r = q

\* While a request is on its way to a loan, the subscriber has no open loan and
\* no other request of his is on its way to one.
LendsAlone ==
    \A r \in Requests :
        req[r] \in Lending =>
            /\ ~HasOpenLoan(r)
            /\ \A q \in SameSubscriber(r) : req[q] \in Lending => q = r

\* A subscriber is topped up again only when the loan of the last top-up has
\* been collected: also when the service never learnt of that top-up.
ProvisionedOnce ==
    \A r \in provisioned : \A q \in provisioned \cap SameSubscriber(r) :
        loan[r] # "closed" /\ loan[q] # "closed" => r = q

\* A top-up is lost when its request can no longer book it, and forgotten when its
\* lock may go all the same.
Booking == {"rules", "availment", "loan"}
Forgets == May("mongo") \/ May("ttl") \/ "unread" \in TopupReplies

CreditOf(r) ==
    IF loan[r] = "open" THEN "lent"
    ELSE IF loan[r] = "closed" THEN "repaid"
    ELSE IF r \notin provisioned THEN "none"
    ELSE IF req[r] \in Booking THEN "drawn" ELSE "lost"
Credits   == [r \in Requests |-> CreditOf(r)]
Announced == {r \in reported : availment[r] = "success"}

\* The requests of a subscriber, over any number of instances, draw on one line of
\* credit: a top-up only while none is outstanding, also one the service never
\* learnt of; one loan of each, repaid once; and no success announced without it.
Credit == INSTANCE CreditLine WITH
    BorrowerOf <- SubscriberOf,
    Forgetful  <- Forgets,
    credit     <- Credits,
    announced  <- Announced

ImplementsCredit == Credit!CreditSpec

\* Every request that was received ends, if only with its instance.
RequestEnds == \A r \in Requests : req[r] # "new" ~> req[r] \in Ended

\* No subscriber is locked out for ever.
LockFreed == \A r \in Requests : r \in locks ~> r \notin locks

\* Every outcome that is stored gets a publisher, and with Kafka up reaches the
\* topic, unless the instance dies before.
OutcomeReported ==
    \A r \in Requests :
        availment[r] # "none" ~>
            \/ r \in reported \cup anonymous
            \/ pub[r] = "done" \/ req[r] = "lost"
=============================================================================
