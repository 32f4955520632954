------------------------ MODULE LoanAvailment_proofs ------------------------
(***************************************************************************)
(* For any requests, subscribers, replies and events: the documents of an  *)
(* availment and what is published about it, one loan a subscriber as long *)
(* as his lock checks do not overlap, no lock without a request that       *)
(* accounts for it; the line of credit that all of this implements; what   *)
(* the runs of the Kafka retry answer; and the amounts of a notice.        *)
(***************************************************************************)
EXTENDS MCLoanAvailment, FiniteSetTheorems, TLAPS

RequestStates == {"new"} \cup Running \cup Ended

\* Every action keeps the types, and no publisher starts before its outcome is
\* stored or given up.
LEMMA AvailTypeInductive ==
    ASSUME AvailTypeOK, [AvailNext]_availVars
    PROVE  AvailTypeOK'
<1> USE DEF AvailTypeOK, RequestStates, Running, Ended, Kept, Holding, Goto, records, topic
<1>1. CASE UNCHANGED availVars
  BY <1>1 DEF availVars
<1>2. ASSUME NEW dead \in SUBSET Busy, Die(dead)
      PROVE  AvailTypeOK'
  BY <1>2 DEF Die, Busy
<1>3. CASE Crash
  BY <1>2, <1>3 DEF Crash
<1>4. ASSUME NEW r \in Requests, Receive(r)
      PROVE  AvailTypeOK'
  BY <1>4 DEF Receive, Verdicts
<1>5. ASSUME NEW r \in Requests, CheckLock(r)
      PROVE  AvailTypeOK'
  BY <1>5 DEF CheckLock
<1>6. ASSUME NEW r \in Requests, CreateLock(r)
      PROVE  AvailTypeOK'
  BY <1>6 DEF CreateLock
<1>7. ASSUME NEW r \in Requests, CheckEligibility(r)
      PROVE  AvailTypeOK'
  BY <1>7 DEF CheckEligibility
<1>8. ASSUME NEW r \in Requests, CreateSession(r) \/ LoginSession(r)
      PROVE  AvailTypeOK'
  BY <1>8 DEF CreateSession, LoginSession, AmaxCall
<1>9. ASSUME NEW r \in Requests, Topup(r)
      PROVE  AvailTypeOK'
  BY <1>9, AvailmentAssumption DEF Topup, AfterTopup, AllReplies
<1>10. ASSUME NEW r \in Requests, ReadRules(r)
       PROVE  AvailTypeOK'
  BY <1>10 DEF ReadRules
<1>11. ASSUME NEW r \in Requests, InsertAvailment(r)
       PROVE  AvailTypeOK'
  BY <1>11 DEF InsertAvailment, BookingFails, ReportBlank
<1>12. ASSUME NEW r \in Requests, CreateLoan(r)
       PROVE  AvailTypeOK'
  BY <1>12 DEF CreateLoan, BookingFails, ReportBlank
<1>13. ASSUME NEW r \in Requests, CreateUnpaid(r)
       PROVE  AvailTypeOK'
  BY <1>13 DEF CreateUnpaid, BookingFails, ReportBlank
<1>14. ASSUME NEW r \in Requests, Unlock(r)
       PROVE  AvailTypeOK'
  BY <1>14 DEF Unlock, BookingFails, ReportBlank, DeleteLock
<1>15. ASSUME NEW r \in Requests, SaveToRedis(r)
       PROVE  AvailTypeOK'
  BY <1>15 DEF SaveToRedis, BookingFails, ReportBlank, Report
<1>16. ASSUME NEW r \in Requests, InsertFailed(r)
       PROVE  AvailTypeOK'
  BY <1>16 DEF InsertFailed, AfterFailure, ReportBlank, Report
<1>17. ASSUME NEW r \in Requests, Release(r) \/ ReleaseAgain(r)
       PROVE  AvailTypeOK'
  BY <1>17 DEF Release, ReleaseAgain, DeleteLock
<1>18. ASSUME NEW r \in Requests, Publish(r)
       PROVE  AvailTypeOK'
  BY <1>18 DEF Publish
<1>19. ASSUME NEW r \in Requests, Flag(r)
       PROVE  AvailTypeOK'
  BY <1>19 DEF Flag
<1>20. ASSUME NEW r \in Requests, Panic(r)
       PROVE  AvailTypeOK'
  BY <1>2, <1>20 DEF Panic
<1>21. ASSUME NEW r \in Requests, Expire(r) \/ CloseLoan(r)
       PROVE  AvailTypeOK'
  BY <1>21 DEF Expire, CloseLoan
<1> QED
  BY <1>1, <1>3, <1>4, <1>5, <1>6, <1>7, <1>8, <1>9, <1>10, <1>11, <1>12, <1>13, <1>14,
     <1>15, <1>16, <1>17, <1>18, <1>19, <1>20, <1>21 DEF AvailNext, Serve, PublisherStep

\* The type invariant of the availment holds in every state.
THEOREM AvailTypeCorrect == AvailSpec => []AvailTypeOK
<1>1. AvailInit => AvailTypeOK
  BY DEF AvailInit, AvailTypeOK
<1>2. AvailTypeOK /\ [AvailNext]_availVars => AvailTypeOK'
  BY AvailTypeInductive
<1> QED
  BY <1>1, <1>2, PTL DEF AvailSpec

-----------------------------------------------------------------------------
(* Documents and reports.                                                  *)

\* Nothing is stored before these.
Unstored == {"new", "check", "lock", "eligible", "session", "login", "topup", "rules",
             "availment", "refuse", "badword", "fail", "timeout"}

\* What a request has stored where it is, and what its publisher may say.
StoredSoFar(r) ==
    /\ req[r] \in Unstored => availment[r] = "none" /\ loan[r] = "none" /\ r \notin unpaid
    /\ req[r] \in {"rules", "availment"} => r \in provisioned
    /\ req[r] = "loan" => availment[r] = "success"
    /\ req[r] = "unpaid" => loan[r] # "none"
    /\ req[r] \in {"unlock", "cache"} => r \in unpaid
Booked(r) ==
    /\ availment[r] # "none"
    /\ availment[r] = "success" => loan[r] # "none" /\ r \in unpaid
Told(r) ==
    /\ pub[r] = "report" => Booked(r)
    /\ r \in reported => Booked(r) /\ pub[r] \in {"flag", "done"}
    /\ pub[r] = "flag" => r \in reported
    /\ r \in flagged => r \in reported

RecordInv ==
    /\ AvailTypeOK
    /\ RecordsInOrder
    /\ \A r \in Requests : StoredSoFar(r)
    /\ \A r \in Requests : Told(r)

LEMMA RecordInductive ==
    ASSUME RecordInv, [AvailNext]_availVars
    PROVE  RecordInv'
<1> USE DEF RecordInv, RecordsInOrder, StoredSoFar, Booked, Told, Unstored, AvailTypeOK,
            Running, Ended, Kept, Holding, Goto, records, topic
<1> AvailTypeOK'  BY AvailTypeInductive
<1>1. CASE UNCHANGED availVars
  BY <1>1 DEF availVars
<1>2. ASSUME NEW dead \in SUBSET Busy, Die(dead)
      PROVE  RecordInv'
  BY <1>2 DEF Die, Busy
<1>3. CASE Crash
  BY <1>2, <1>3 DEF Crash
<1>4. ASSUME NEW r \in Requests, Receive(r)
      PROVE  RecordInv'
  BY <1>4 DEF Receive, Verdicts
<1>5. ASSUME NEW r \in Requests, CheckLock(r)
      PROVE  RecordInv'
  BY <1>5 DEF CheckLock
<1>6. ASSUME NEW r \in Requests, CreateLock(r)
      PROVE  RecordInv'
  BY <1>6 DEF CreateLock
<1>7. ASSUME NEW r \in Requests, CheckEligibility(r)
      PROVE  RecordInv'
  BY <1>7 DEF CheckEligibility
<1>8. ASSUME NEW r \in Requests, CreateSession(r) \/ LoginSession(r)
      PROVE  RecordInv'
  BY <1>8 DEF CreateSession, LoginSession, AmaxCall
<1>9. ASSUME NEW r \in Requests, Topup(r)
      PROVE  RecordInv'
  BY <1>9, AvailmentAssumption DEF Topup, AfterTopup, AllReplies
<1>10. ASSUME NEW r \in Requests, ReadRules(r)
       PROVE  RecordInv'
  BY <1>10 DEF ReadRules
<1>11. ASSUME NEW r \in Requests, InsertAvailment(r)
       PROVE  RecordInv'
  BY <1>11 DEF InsertAvailment, BookingFails, ReportBlank
<1>12. ASSUME NEW r \in Requests, CreateLoan(r)
       PROVE  RecordInv'
  BY <1>12 DEF CreateLoan, BookingFails, ReportBlank
<1>13. ASSUME NEW r \in Requests, CreateUnpaid(r)
       PROVE  RecordInv'
  BY <1>13 DEF CreateUnpaid, BookingFails, ReportBlank
<1>14. ASSUME NEW r \in Requests, Unlock(r)
       PROVE  RecordInv'
  BY <1>14 DEF Unlock, BookingFails, ReportBlank, DeleteLock
<1>15. ASSUME NEW r \in Requests, SaveToRedis(r)
       PROVE  RecordInv'
  BY <1>15 DEF SaveToRedis, BookingFails, ReportBlank, Report
<1>16. ASSUME NEW r \in Requests, InsertFailed(r)
       PROVE  RecordInv'
  BY <1>16 DEF InsertFailed, AfterFailure, ReportBlank, Report
<1>17. ASSUME NEW r \in Requests, Release(r) \/ ReleaseAgain(r)
       PROVE  RecordInv'
  BY <1>17 DEF Release, ReleaseAgain, DeleteLock
<1>18. ASSUME NEW r \in Requests, Publish(r)
       PROVE  RecordInv'
  BY <1>18 DEF Publish
<1>19. ASSUME NEW r \in Requests, Flag(r)
       PROVE  RecordInv'
  BY <1>19 DEF Flag
<1>20. ASSUME NEW r \in Requests, Panic(r)
       PROVE  RecordInv'
  BY <1>20, <1>2 DEF Panic
<1>21. ASSUME NEW r \in Requests, Expire(r) \/ CloseLoan(r)
       PROVE  RecordInv'
  BY <1>21 DEF Expire, CloseLoan
<1> QED
  BY <1>1, <1>3, <1>4, <1>5, <1>6, <1>7, <1>8, <1>9, <1>10, <1>11, <1>12, <1>13, <1>14,
     <1>15, <1>16, <1>17, <1>18, <1>19, <1>20, <1>21 DEF AvailNext, Serve, PublisherStep

LEMMA RecordStart == AvailInit => RecordInv
  BY DEF AvailInit, RecordInv, RecordsInOrder, StoredSoFar, Booked, Told, Unstored, AvailTypeOK

\* Although no insert takes part in the transaction, the documents of a loan
\* follow each other in every state.
THEOREM RecordsFollow == AvailSpec => []RecordsInOrder
<1>1. RecordInv /\ [AvailNext]_availVars => RecordInv'
  BY RecordInductive
<1>2. RecordInv => RecordsInOrder
  BY DEF RecordInv
<1> QED
  BY RecordStart, <1>1, <1>2, PTL DEF AvailSpec

\* Flags and messages under a GUID are true in every state.
THEOREM ReportsHold == AvailSpec => []ReportsAreTrue
<1>1. RecordInv /\ [AvailNext]_availVars => RecordInv'
  BY RecordInductive
<1>2. RecordInv => ReportsAreTrue
  BY DEF RecordInv, Told, Booked, ReportsAreTrue, AvailTypeOK
<1> QED
  BY RecordStart, <1>1, <1>2, PTL DEF AvailSpec

-----------------------------------------------------------------------------
(* One outcome of each request.                                            *)

\* An outcome on the topic, under the GUID or a blank one; what can still bring it
\* there; and the events in which it is given up, with an instance or a message.
Sent(r)  == r \in reported \cup anonymous
Owner(r) == pub[r] \in {"report", "blank"} \/ req[r] \in {"loan", "unpaid", "unlock", "cache"}
Loses    == May("crash") \/ May("mongo") \/ May("kafka")

\* A request that has only to delete its lock, or has done with it.
Closing == {"release", "again", "done", "kept"}

\* An outcome that is stored, or whose request has done its work, is on the topic
\* or has a publisher or a request that will start one, unless it was given up:
\* what OutcomeReported needs of the states.
OutcomeOwned ==
    \A r \in Requests :
        availment[r] # "none" \/ req[r] \in Closing =>
            \/ Sent(r) \/ Owner(r)
            \/ Loses /\ (req[r] = "lost" \/ pub[r] \in {"panic", "done"})

\* However a request fails, it goes out as one outcome: either under its GUID or
\* under a blank one, and never again.
SentOnce ==
    \A r \in Requests :
        /\ r \in reported => r \notin anonymous
        /\ Sent(r) => pub[r] \in {"flag", "done"}

\* A publisher is started where a request leaves its last insert, and only there.
Started ==
    \A r \in Requests :
        /\ req[r] \in Closing => pub[r] # "none"
        /\ pub[r] = "flag" => r \in reported
        /\ pub[r] = "panic" => May("mongo")

\* Besides, nothing is stored where the outcome is still open.
OutcomeInv ==
    /\ AvailTypeOK /\ OutcomeOwned /\ SentOnce /\ Started
    /\ \A r \in Requests : req[r] \in Unstored => availment[r] = "none"

\* Every action keeps it.
LEMMA OutcomeInductive ==
    ASSUME OutcomeInv, [AvailNext]_availVars
    PROVE  OutcomeInv'
<1> USE DEF OutcomeInv, OutcomeOwned, SentOnce, Started, Sent, Owner, Loses, Closing,
            Unstored, AvailTypeOK, Running, Ended, Kept, Holding, Goto, records, topic
<1> AvailTypeOK'  BY AvailTypeInductive
<1>1. CASE UNCHANGED availVars
  BY <1>1 DEF availVars
<1>2. ASSUME NEW dead \in SUBSET Busy, Die(dead), Loses
      PROVE  OutcomeInv'
  BY <1>2 DEF Die, Busy
<1>3. CASE Crash
  BY <1>2, <1>3 DEF Crash
<1>4. ASSUME NEW r \in Requests, Receive(r)
      PROVE  OutcomeInv'
  BY <1>4 DEF Receive, Verdicts
<1>5. ASSUME NEW r \in Requests, CheckLock(r)
      PROVE  OutcomeInv'
  BY <1>5 DEF CheckLock
<1>6. ASSUME NEW r \in Requests, CreateLock(r)
      PROVE  OutcomeInv'
  BY <1>6 DEF CreateLock
<1>7. ASSUME NEW r \in Requests, CheckEligibility(r)
      PROVE  OutcomeInv'
  BY <1>7 DEF CheckEligibility
<1>8. ASSUME NEW r \in Requests, CreateSession(r) \/ LoginSession(r)
      PROVE  OutcomeInv'
  BY <1>8 DEF CreateSession, LoginSession, AmaxCall
<1>9. ASSUME NEW r \in Requests, Topup(r)
      PROVE  OutcomeInv'
  BY <1>9, AvailmentAssumption DEF Topup, AfterTopup, AllReplies
<1>10. ASSUME NEW r \in Requests, ReadRules(r)
       PROVE  OutcomeInv'
  BY <1>10 DEF ReadRules
<1>11. ASSUME NEW r \in Requests, InsertAvailment(r)
       PROVE  OutcomeInv'
  BY <1>11 DEF InsertAvailment, BookingFails, ReportBlank
<1>12. ASSUME NEW r \in Requests, CreateLoan(r)
       PROVE  OutcomeInv'
  BY <1>12 DEF CreateLoan, BookingFails, ReportBlank
<1>13. ASSUME NEW r \in Requests, CreateUnpaid(r)
       PROVE  OutcomeInv'
  BY <1>13 DEF CreateUnpaid, BookingFails, ReportBlank
<1>14. ASSUME NEW r \in Requests, Unlock(r)
       PROVE  OutcomeInv'
  BY <1>14 DEF Unlock, BookingFails, ReportBlank, DeleteLock
<1>15. ASSUME NEW r \in Requests, SaveToRedis(r)
       PROVE  OutcomeInv'
  BY <1>15 DEF SaveToRedis, BookingFails, ReportBlank, Report
<1>16. ASSUME NEW r \in Requests, InsertFailed(r)
       PROVE  OutcomeInv'
  BY <1>16 DEF InsertFailed, AfterFailure, ReportBlank, Report
<1>17. ASSUME NEW r \in Requests, Release(r) \/ ReleaseAgain(r)
       PROVE  OutcomeInv'
  BY <1>17 DEF Release, ReleaseAgain, DeleteLock
<1>18. ASSUME NEW r \in Requests, Publish(r)
       PROVE  OutcomeInv'
  <2>1. /\ pub[r] \in {"report", "blank"}
        /\ UNCHANGED <<req, locks, provisioned, records, flagged>>
    BY <1>18 DEF Publish
  <2>2. CASE /\ pub[r] = "report" /\ pub' = [pub EXCEPT ![r] = "flag"]
             /\ reported' = reported \cup {r} /\ UNCHANGED anonymous
    BY <2>1, <2>2
  <2>3. CASE /\ pub[r] = "blank" /\ pub' = [pub EXCEPT ![r] = "done"]
             /\ anonymous' = anonymous \cup {r} /\ UNCHANGED reported
    BY <2>1, <2>3
  <2>4. CASE /\ May("kafka") /\ pub' = [pub EXCEPT ![r] = "done"]
             /\ \/ UNCHANGED <<reported, anonymous>>
                \/ pub[r] = "report" /\ reported' = reported \cup {r} /\ UNCHANGED anonymous
                \/ pub[r] = "blank" /\ anonymous' = anonymous \cup {r} /\ UNCHANGED reported
    BY <2>1, <2>4
  <2> QED
    BY <1>18, <2>1, <2>2, <2>3, <2>4 DEF Publish
<1>19. ASSUME NEW r \in Requests, Flag(r)
       PROVE  OutcomeInv'
  BY <1>19 DEF Flag
<1>20. ASSUME NEW r \in Requests, Panic(r)
       PROVE  OutcomeInv'
  BY <1>20, <1>2 DEF Panic
<1>21. ASSUME NEW r \in Requests, Expire(r) \/ CloseLoan(r)
       PROVE  OutcomeInv'
  BY <1>21 DEF Expire, CloseLoan
<1> QED
  BY <1>1, <1>3, <1>4, <1>5, <1>6, <1>7, <1>8, <1>9, <1>10, <1>11, <1>12, <1>13, <1>14,
     <1>15, <1>16, <1>17, <1>18, <1>19, <1>20, <1>21 DEF AvailNext, Serve, PublisherStep

\* Every outcome is sent at most once, and until then somebody has it in hand,
\* whatever fails, expires or overlaps, unless an instance dies, MongoDB makes a
\* publisher take one down or Kafka refuses the message.
THEOREM OutcomesAreSent == AvailSpec => [](OutcomeOwned /\ SentOnce)
<1>1. AvailInit => OutcomeInv
  BY DEF AvailInit, OutcomeInv, OutcomeOwned, SentOnce, Started, Sent, Closing,
     AvailTypeOK
<1>2. OutcomeInv /\ [AvailNext]_availVars => OutcomeInv'
  BY OutcomeInductive
<1>3. OutcomeInv => OutcomeOwned /\ SentOnce
  BY DEF OutcomeInv
<1> QED
  BY <1>1, <1>2, <1>3, PTL DEF AvailSpec

-----------------------------------------------------------------------------
(* One loan.                                                               *)

\* The lock checks of a subscriber do not overlap, locks are inserted, and while
\* a request runs no lock expires, none is deleted by a malformed request and no
\* loan is collected.
LocksWork == Events \cap {"race", "lock", "late", "keyword", "repay"} = {}

Locked == Lending \cup {"eligible", "fail", "release", "timeout"}

\* As long as a subscriber has no loan his lock belongs to the request that has
\* passed the check.  Once he has one, locks may be deleted by anyone, and it is
\* the loan that keeps the requests away.
Serial(r) ==
    /\ HasOpenLoan(r) => req[r] \notin Lending
    /\ ~HasOpenLoan(r) =>
          /\ req[r] \in Locked => LocksFor(r) = {r}
          /\ req[r] = "lock" =>
                /\ LocksFor(r) = {}
                /\ \A q \in SameSubscriber(r) : req[q] = "lock" => q = r
          /\ req[r] \notin {"unpaid", "unlock", "cache", "again"}

LoanInv ==
    /\ AvailTypeOK
    /\ OneLoan
    /\ \A r \in Requests : Serial(r)
    /\ \A r \in Requests : req[r] # "badword"

LEMMA LoanInductive ==
    ASSUME LocksWork, LoanInv, [AvailNext]_availVars
    PROVE  LoanInv'
<1> USE DEF LoanInv, OneLoan, Serial, HasOpenLoan, LocksFor, SameSubscriber, Locked, Lending,
            LocksWork, May, AvailTypeOK, Running, Ended, Kept, Holding, Goto, records, topic
<1> AvailTypeOK'  BY AvailTypeInductive
<1> SubscriberOf \in [Requests -> Subscribers]  BY AvailmentAssumption
<1>1. CASE UNCHANGED availVars
  BY <1>1 DEF availVars
<1>2. ASSUME NEW dead \in SUBSET Busy, Die(dead)
      PROVE  LoanInv'
  BY <1>2 DEF Die, Busy
<1>3. CASE Crash
  BY <1>2, <1>3 DEF Crash
<1>4. ASSUME NEW r \in Requests, Receive(r)
      PROVE  LoanInv'
  BY <1>4 DEF Receive, Verdicts
<1>5. ASSUME NEW r \in Requests, CheckLock(r)
      PROVE  LoanInv'
  BY <1>5 DEF CheckLock, Alone
<1>6. ASSUME NEW r \in Requests, CreateLock(r)
      PROVE  LoanInv'
  BY <1>6 DEF CreateLock
<1>7. ASSUME NEW r \in Requests, CheckEligibility(r)
      PROVE  LoanInv'
  BY <1>7 DEF CheckEligibility
<1>8. ASSUME NEW r \in Requests, CreateSession(r) \/ LoginSession(r)
      PROVE  LoanInv'
  BY <1>8 DEF CreateSession, LoginSession, AmaxCall
<1>9. ASSUME NEW r \in Requests, Topup(r)
      PROVE  LoanInv'
  BY <1>9, AvailmentAssumption DEF Topup, AfterTopup, AllReplies
<1>10. ASSUME NEW r \in Requests, ReadRules(r)
       PROVE  LoanInv'
  BY <1>10 DEF ReadRules
<1>11. ASSUME NEW r \in Requests, InsertAvailment(r)
       PROVE  LoanInv'
  BY <1>11 DEF InsertAvailment, BookingFails, ReportBlank
<1>12. ASSUME NEW r \in Requests, CreateLoan(r)
       PROVE  LoanInv'
  BY <1>12 DEF CreateLoan, BookingFails, ReportBlank
<1>13. ASSUME NEW r \in Requests, CreateUnpaid(r)
       PROVE  LoanInv'
  BY <1>13 DEF CreateUnpaid, BookingFails, ReportBlank
<1>14. ASSUME NEW r \in Requests, Unlock(r)
       PROVE  LoanInv'
  BY <1>14 DEF Unlock, BookingFails, ReportBlank, DeleteLock
<1>15. ASSUME NEW r \in Requests, SaveToRedis(r)
       PROVE  LoanInv'
  BY <1>15 DEF SaveToRedis, BookingFails, ReportBlank, Report
<1>16. ASSUME NEW r \in Requests, InsertFailed(r)
       PROVE  LoanInv'
  BY <1>16 DEF InsertFailed, AfterFailure, ReportBlank, Report
<1>17. ASSUME NEW r \in Requests, Release(r) \/ ReleaseAgain(r)
       PROVE  LoanInv'
  BY <1>17 DEF Release, ReleaseAgain, DeleteLock
<1>18. ASSUME NEW r \in Requests, Publish(r)
       PROVE  LoanInv'
  BY <1>18 DEF Publish
<1>19. ASSUME NEW r \in Requests, Flag(r)
       PROVE  LoanInv'
  BY <1>19 DEF Flag
<1>20. ASSUME NEW r \in Requests, Panic(r)
       PROVE  LoanInv'
  BY <1>20, <1>2 DEF Panic
<1>21. ASSUME NEW r \in Requests, Expire(r) \/ CloseLoan(r)
       PROVE  LoanInv'
  BY <1>21 DEF Expire, CloseLoan, Quiet
<1> QED
  BY <1>1, <1>3, <1>4, <1>5, <1>6, <1>7, <1>8, <1>9, <1>10, <1>11, <1>12, <1>13, <1>14,
     <1>15, <1>16, <1>17, <1>18, <1>19, <1>20, <1>21 DEF AvailNext, Serve, PublisherStep

LEMMA LoanStart == AvailInit => LoanInv
  BY DEF AvailInit, LoanInv, OneLoan, Serial, HasOpenLoan, SameSubscriber, Locked, Lending,
         AvailTypeOK

\* As long as the locks work, a subscriber never has two open loans, whatever
\* else fails and however many requests he makes.
THEOREM OneLoanEach ==
    ASSUME LocksWork
    PROVE  AvailSpec => []OneLoan
<1>1. LoanInv /\ [AvailNext]_availVars => LoanInv'
  BY LoanInductive
<1>2. LoanInv => OneLoan
  BY DEF LoanInv
<1> QED
  BY LoanStart, <1>1, <1>2, PTL DEF AvailSpec

\* And no request is on its way to a loan while the subscriber has one, or
\* another request is on its way to one.
THEOREM LendsAloneEach ==
    ASSUME LocksWork
    PROVE  AvailSpec => []LendsAlone
<1>1. LoanInv /\ [AvailNext]_availVars => LoanInv'
  BY LoanInductive
<1>2. ASSUME LoanInv
      PROVE  LendsAlone
  <2> SUFFICES ASSUME NEW r \in Requests, req[r] \in Lending
               PROVE  /\ ~HasOpenLoan(r)
                      /\ \A q \in SameSubscriber(r) : req[q] \in Lending => q = r
    BY DEF LendsAlone
  <2>1. ~HasOpenLoan(r) /\ LocksFor(r) = {r}
    BY <1>2 DEF LoanInv, Serial, Locked
  <2>2. ASSUME NEW q \in SameSubscriber(r), req[q] \in Lending
        PROVE  q = r
    <3>1. q \in Requests /\ LocksFor(q) = LocksFor(r)
      BY DEF SameSubscriber, LocksFor
    <3>2. LocksFor(q) = {q}
      BY <1>2, <2>2, <3>1 DEF LoanInv, Serial, Locked
    <3> QED
      BY <2>1, <3>1, <3>2
  <2> QED
    BY <2>1, <2>2
<1> QED
  BY LoanStart, <1>1, <1>2, PTL DEF AvailSpec

-----------------------------------------------------------------------------
(* One top-up.                                                             *)

\* Besides, MongoDB does not fail, no lock expires, and AMAX either answers
\* legibly or not at all.
NothingUnseen == Events \cap {"mongo", "ttl"} = {} /\ "unread" \notin TopupReplies

\* A top-up without a loan is guarded by its lock, also when its request has
\* ended without an answer or with its instance.
Guarded(r) ==
    /\ r \in provisioned /\ loan[r] = "none" =>
          r \in locks /\ req[r] \in {"rules", "availment", "loan", "timeout"} \cup Kept
    /\ req[r] = "release" => r \notin provisioned

OnceInv ==
    /\ LoanInv
    /\ RecordInv
    /\ ProvisionedOnce
    /\ \A r \in Requests : Guarded(r)

\* No request that deletes a lock deletes one that guards a top-up.
LEMMA GuardsStay ==
    ASSUME OnceInv, NEW r \in Requests, req[r] \in {"unlock", "release", "again"},
           NEW q \in LocksFor(r), q \in provisioned, loan[q] = "none"
    PROVE  FALSE
<1>1. q \in SameSubscriber(r) /\ r \in Requests
  BY DEF LocksFor
<1>2. CASE HasOpenLoan(r)
  <2>1. PICK p \in SameSubscriber(r) : loan[p] = "open"
    BY <1>2 DEF HasOpenLoan
  <2>2. p \in provisioned
    BY <2>1 DEF OnceInv, RecordInv, RecordsInOrder, SameSubscriber
  <2>3. q \in SameSubscriber(p)
    BY <1>1, <2>1 DEF SameSubscriber
  <2> QED
    BY <2>1, <2>2, <2>3 DEF OnceInv, ProvisionedOnce
<1>3. CASE ~HasOpenLoan(r)
  <2>1. req[r] = "release" /\ LocksFor(r) = {r}
    BY <1>3 DEF OnceInv, LoanInv, Serial, Locked
  <2> QED
    BY <2>1 DEF OnceInv, Guarded
<1> QED
  BY <1>2, <1>3

LEMMA OnceInductive ==
    ASSUME LocksWork, NothingUnseen, OnceInv, [AvailNext]_availVars
    PROVE  OnceInv'
<1> USE DEF OnceInv, LoanInv, RecordInv, StoredSoFar, Unstored, ProvisionedOnce, Guarded, OneLoan, Serial,
            HasOpenLoan, LocksFor, SameSubscriber, Locked, Lending, LocksWork, NothingUnseen,
            May, AvailTypeOK, Running, Ended, Kept, Holding, Goto, records, topic
<1> LoanInv' /\ RecordInv'  BY LoanInductive, RecordInductive
<1> SubscriberOf \in [Requests -> Subscribers]  BY AvailmentAssumption
<1>1. CASE UNCHANGED availVars
  BY <1>1 DEF availVars
<1>2. ASSUME NEW dead \in SUBSET Busy, Die(dead)
      PROVE  OnceInv'
  BY <1>2 DEF Die, Busy
<1>3. CASE Crash
  BY <1>2, <1>3 DEF Crash
<1>4. ASSUME NEW r \in Requests, Receive(r)
      PROVE  OnceInv'
  BY <1>4 DEF Receive, Verdicts
<1>5. ASSUME NEW r \in Requests, CheckLock(r)
      PROVE  OnceInv'
  BY <1>5 DEF CheckLock, Alone
<1>6. ASSUME NEW r \in Requests, CreateLock(r)
      PROVE  OnceInv'
  BY <1>6 DEF CreateLock
<1>7. ASSUME NEW r \in Requests, CheckEligibility(r)
      PROVE  OnceInv'
  BY <1>7 DEF CheckEligibility
<1>8. ASSUME NEW r \in Requests, CreateSession(r) \/ LoginSession(r)
      PROVE  OnceInv'
  BY <1>8 DEF CreateSession, LoginSession, AmaxCall
<1>9. ASSUME NEW r \in Requests, Topup(r)
      PROVE  OnceInv'
  BY <1>9, AvailmentAssumption, SMTT(30) DEF Topup, AfterTopup, AllReplies
<1>10. ASSUME NEW r \in Requests, ReadRules(r)
       PROVE  OnceInv'
  BY <1>10 DEF ReadRules
<1>11. ASSUME NEW r \in Requests, InsertAvailment(r)
       PROVE  OnceInv'
  BY <1>11 DEF InsertAvailment, BookingFails, ReportBlank
<1>12. ASSUME NEW r \in Requests, CreateLoan(r)
       PROVE  OnceInv'
  BY <1>12 DEF CreateLoan, BookingFails, ReportBlank
<1>13. ASSUME NEW r \in Requests, CreateUnpaid(r)
       PROVE  OnceInv'
  BY <1>13 DEF CreateUnpaid, BookingFails, ReportBlank
<1>14. ASSUME NEW r \in Requests, Unlock(r)
       PROVE  OnceInv'
  <2>1. Goto(r, "cache") /\ DeleteLock(r) /\ UNCHANGED <<provisioned, loan>>
    BY <1>14 DEF Unlock
  <2>2. ASSUME NEW q \in Requests, q \in provisioned, loan[q] = "none"
        PROVE  q \in locks' /\ req'[q] = req[q]
    <3>1. q \notin LocksFor(r)
      BY <1>14, <2>2, GuardsStay DEF Unlock
    <3> QED
      BY <1>14, <2>1, <2>2, <3>1 DEF DeleteLock, Unlock
  <2> QED
    BY <2>1, <2>2
<1>15. ASSUME NEW r \in Requests, SaveToRedis(r)
       PROVE  OnceInv'
  BY <1>15 DEF SaveToRedis, BookingFails, ReportBlank, Report
<1>16. ASSUME NEW r \in Requests, InsertFailed(r)
       PROVE  OnceInv'
  BY <1>16, SMTT(30) DEF InsertFailed, AfterFailure, ReportBlank, Report
<1>17. ASSUME NEW r \in Requests, Release(r) \/ ReleaseAgain(r)
       PROVE  OnceInv'
  <2>1. Goto(r, "done") /\ DeleteLock(r) /\ UNCHANGED <<provisioned, loan>>
    BY <1>17 DEF Release, ReleaseAgain
  <2>2. ASSUME NEW q \in Requests, q \in provisioned, loan[q] = "none"
        PROVE  q \in locks' /\ req'[q] = req[q]
    <3>1. q \notin LocksFor(r)
      BY <1>17, <2>2, GuardsStay DEF Release, ReleaseAgain
    <3> QED
      BY <1>17, <2>1, <2>2, <3>1 DEF DeleteLock, Release, ReleaseAgain
  <2> QED
    BY <2>1, <2>2
<1>18. ASSUME NEW r \in Requests, Publish(r)
       PROVE  OnceInv'
  BY <1>18 DEF Publish
<1>19. ASSUME NEW r \in Requests, Flag(r)
       PROVE  OnceInv'
  BY <1>19 DEF Flag
<1>20. ASSUME NEW r \in Requests, Panic(r)
       PROVE  OnceInv'
  BY <1>20, <1>2 DEF Panic
<1>21. ASSUME NEW r \in Requests, Expire(r) \/ CloseLoan(r)
       PROVE  OnceInv'
  BY <1>21 DEF Expire, CloseLoan, Quiet
<1> QED
  BY <1>1, <1>3, <1>4, <1>5, <1>6, <1>7, <1>8, <1>9, <1>10, <1>11, <1>12, <1>13, <1>14,
     <1>15, <1>16, <1>17, <1>18, <1>19, <1>20, <1>21 DEF AvailNext, Serve, PublisherStep

LEMMA OnceStart == AvailInit => OnceInv
<1> SUFFICES ASSUME AvailInit PROVE OnceInv
  OBVIOUS
<1>1. LoanInv /\ RecordInv
  BY LoanStart, RecordStart
<1> QED
  BY <1>1 DEF AvailInit, OnceInv, ProvisionedOnce, Guarded

\* Then a subscriber is topped up once for every loan that is collected, even if
\* AMAX or an instance is lost in between.
THEOREM ToppedUpOnceEach ==
    ASSUME LocksWork, NothingUnseen
    PROVE  AvailSpec => []ProvisionedOnce
<1>1. OnceInv /\ [AvailNext]_availVars => OnceInv'
  BY OnceInductive
<1>2. OnceInv => ProvisionedOnce
  BY DEF OnceInv
<1> QED
  BY OnceStart, <1>1, <1>2, PTL DEF AvailSpec

-----------------------------------------------------------------------------
(* A line of credit.                                                       *)

BeforeTopup == {"new", "check", "lock", "eligible", "session", "login", "topup"}

\* A request draws once, and books what it drew once.
DrawsOnce(r) ==
    /\ req[r] \in BeforeTopup => r \notin provisioned
    /\ req[r] \in BeforeTopup \cup Booking => loan[r] = "none"

CreditInv ==
    /\ LoanInv
    /\ RecordInv
    /\ Forgets \/ OnceInv
    /\ \A r \in Requests : DrawsOnce(r)

\* Nobody comes back to a top-up or an insert.
LEMMA DrawsOnceInductive ==
    ASSUME LocksWork, RecordInv, [AvailNext]_availVars, \A r \in Requests : DrawsOnce(r)
    PROVE  \A r \in Requests : DrawsOnce(r)'
<1> USE DEF DrawsOnce, BeforeTopup, Booking, RecordInv, RecordsInOrder, StoredSoFar, Unstored,
            AvailTypeOK, Running, Ended, Kept, Holding, LocksWork, May, Goto, records, topic
<1>1. CASE UNCHANGED availVars
  BY <1>1 DEF availVars
<1>2. ASSUME NEW dead \in SUBSET Busy, Die(dead)
      PROVE  \A r \in Requests : DrawsOnce(r)'
  BY <1>2 DEF Die
<1>3. CASE Crash
  BY <1>2, <1>3 DEF Crash
<1>4. ASSUME NEW r \in Requests, Receive(r) \/ CheckLock(r) \/ CreateLock(r)
      PROVE  \A q \in Requests : DrawsOnce(q)'
  BY <1>4 DEF Receive, Verdicts, CheckLock, CreateLock
<1>5. ASSUME NEW r \in Requests, CheckEligibility(r) \/ CreateSession(r) \/ LoginSession(r)
      PROVE  \A q \in Requests : DrawsOnce(q)'
  BY <1>5 DEF CheckEligibility, CreateSession, LoginSession, AmaxCall
<1>6. ASSUME NEW r \in Requests, Topup(r)
      PROVE  \A q \in Requests : DrawsOnce(q)'
  BY <1>6, AvailmentAssumption DEF Topup, AfterTopup, AllReplies
<1>7. ASSUME NEW r \in Requests, ReadRules(r) \/ InsertAvailment(r) \/ CreateLoan(r)
      PROVE  \A q \in Requests : DrawsOnce(q)'
  BY <1>7 DEF ReadRules, InsertAvailment, CreateLoan, BookingFails
<1>8. ASSUME NEW r \in Requests, CreateUnpaid(r) \/ Unlock(r) \/ SaveToRedis(r)
      PROVE  \A q \in Requests : DrawsOnce(q)'
  BY <1>8 DEF CreateUnpaid, Unlock, SaveToRedis, BookingFails
<1>9. ASSUME NEW r \in Requests, InsertFailed(r)
      PROVE  \A q \in Requests : DrawsOnce(q)'
  BY <1>9 DEF InsertFailed, AfterFailure
<1>10. ASSUME NEW r \in Requests, Release(r) \/ ReleaseAgain(r)
       PROVE  \A q \in Requests : DrawsOnce(q)'
  BY <1>10 DEF Release, ReleaseAgain
<1>11. ASSUME NEW r \in Requests, Publish(r) \/ Flag(r)
       PROVE  \A q \in Requests : DrawsOnce(q)'
  BY <1>11 DEF Publish, Flag
<1>12. ASSUME NEW r \in Requests, Panic(r)
       PROVE  \A q \in Requests : DrawsOnce(q)'
  BY <1>12, <1>2 DEF Panic
<1>13. ASSUME NEW r \in Requests, Expire(r) \/ CloseLoan(r)
       PROVE  \A q \in Requests : DrawsOnce(q)'
  BY <1>13 DEF Expire, CloseLoan
<1> QED
  BY <1>1, <1>3, <1>4, <1>5, <1>6, <1>7, <1>8, <1>9, <1>10, <1>11, <1>12, <1>13
  DEF AvailNext, Serve, PublisherStep

LEMMA CreditInductive ==
    ASSUME LocksWork, CreditInv, [AvailNext]_availVars
    PROVE  CreditInv'
<1>1. LoanInv' /\ RecordInv'
  BY LoanInductive, RecordInductive DEF CreditInv
<1>2. Forgets \/ OnceInv'
  <2>1. Forgets \/ NothingUnseen
    BY DEF Forgets, NothingUnseen, May
  <2> QED
    BY <2>1, OnceInductive DEF CreditInv
<1>3. \A r \in Requests : DrawsOnce(r)'
  BY DrawsOnceInductive DEF CreditInv
<1>4. Forgets' = Forgets
  BY DEF Forgets, May
<1> QED
  BY <1>1, <1>2, <1>3, <1>4 DEF CreditInv

-----------------------------------------------------------------------------
(* What the steps of a request are to his line of credit.                  *)

\* A step that leaves a request's top-up, loan and place in the booking alone
\* leaves its credit alone.
LEMMA CreditStays ==
    ASSUME AvailTypeOK, NEW q \in Requests, loan'[q] = loan[q], q \in provisioned' <=> q \in provisioned,
           loan[q] = "none" /\ q \in provisioned => (req'[q] \in Booking <=> req[q] \in Booking)
    PROVE  CreditOf(q)' = CreditOf(q)
  BY DEF CreditOf, AvailTypeOK

LEMMA CreditMeans ==
    ASSUME AvailTypeOK, NEW q \in Requests
    PROVE  /\ CreditOf(q) = "lent" <=> loan[q] = "open"
           /\ CreditOf(q) = "repaid" <=> loan[q] = "closed"
           /\ CreditOf(q) = "none" <=> loan[q] = "none" /\ q \notin provisioned
           /\ CreditOf(q) = "drawn" <=>
                 loan[q] = "none" /\ q \in provisioned /\ req[q] \in Booking
           /\ CreditOf(q) = "lost" <=>
                 loan[q] = "none" /\ q \in provisioned /\ req[q] \notin Booking
  BY DEF CreditOf, AvailTypeOK

\* What a step makes of the credit of one request and of no other.
LEMMA CreditMoves ==
    ASSUME NEW r \in Requests, NEW x, CreditOf(r)' = x,
           \A q \in Requests \ {r} : CreditOf(q)' = CreditOf(q)
    PROVE  Credits' = [Credits EXCEPT ![r] = x]
  BY DEF Credits

LEMMA AllStays ==
    ASSUME \A q \in Requests : CreditOf(q)' = CreditOf(q)
    PROVE  Credits' = Credits
  BY DEF Credits

\* Whatever ends a request without its loan loses what it drew.
LEMMA LossMaps ==
    ASSUME NEW dead \in SUBSET Requests, Announced' = Announced, AvailTypeOK, AvailTypeOK',
           UNCHANGED <<loan, provisioned>>,
           \A q \in Requests \ dead : req'[q] \in Booking <=> req[q] \in Booking,
           \A q \in dead : req'[q] \notin Booking
    PROVE  Credit!Lose
<1> DEFINE lost == {q \in dead : CreditOf(q) = "drawn"}
<1>1. lost \in SUBSET {q \in Requests : Credits[q] = "drawn"}
  BY DEF Credits
<1>2. \A q \in Requests : CreditOf(q)' = IF q \in lost THEN "lost" ELSE CreditOf(q)
  <2> SUFFICES ASSUME NEW q \in Requests
               PROVE  CreditOf(q)' = IF q \in lost THEN "lost" ELSE CreditOf(q)
    OBVIOUS
  <2>1. CASE q \in lost
    <3>1. loan[q] = "none" /\ q \in provisioned /\ req'[q] \notin Booking
      BY <2>1, CreditMeans
    <3> QED
      BY <2>1, <3>1 DEF CreditOf
  <2>2. CASE q \notin lost
    <3>1. loan[q] = "none" /\ q \in provisioned => (req'[q] \in Booking <=> req[q] \in Booking)
      BY <2>2, CreditMeans
    <3>2. CreditOf(q)' = CreditOf(q)
      BY <3>1, CreditStays
    <3> QED
      BY <2>2, <3>2
  <2> QED
    BY <2>1, <2>2
<1> HIDE DEF lost
<1>3. Credits' = [q \in Requests |-> IF q \in lost THEN "lost" ELSE Credits[q]]
  BY <1>2 DEF Credits
<1> QED
  BY <1>1, <1>3 DEF Credit!Lose

\* A top-up draws on a line of which nothing is outstanding.
LEMMA DrawMaps ==
    ASSUME LocksWork, CreditInv, CreditInv', NEW r \in Requests, Topup(r)
    PROVE  Credit!Draw(r) \/ UNCHANGED <<Credits, Announced>>
<1>1. /\ AvailTypeOK /\ AvailTypeOK' /\ req[r] = "topup" /\ r \notin provisioned
      /\ loan[r] = "none" /\ UNCHANGED <<loan, availment, reported>>
      /\ provisioned' \in {provisioned, provisioned \cup {r}}
      /\ \A q \in Requests \ {r} : req'[q] = req[q]
  BY DEF CreditInv, LoanInv, DrawsOnce, BeforeTopup, Topup, Goto, AvailTypeOK, records, topic
<1>2. Announced' = Announced
  BY <1>1 DEF Announced
<1>3. \A q \in Requests \ {r} : CreditOf(q)' = CreditOf(q)
  <2> SUFFICES ASSUME NEW q \in Requests \ {r} PROVE CreditOf(q)' = CreditOf(q)
    OBVIOUS
  <2>1. q \in provisioned' <=> q \in provisioned
    BY <1>1
  <2> QED
    BY <1>1, <2>1, CreditStays
<1>4. CASE r \notin provisioned'
  <2>1. CreditOf(r)' = CreditOf(r)
    BY <1>1, <1>4, CreditStays
  <2>2. Credits' = Credits
    BY <1>3, <2>1, AllStays
  <2> QED
    BY <1>2, <2>2
<1>5. CASE r \in provisioned'
  <2>1. PICK x \in {"drawn", "lost"} : CreditOf(r)' = x
    BY <1>1, <1>5 DEF CreditOf
  <2>2. Credits' = [Credits EXCEPT ![r] = x]
    BY <1>3, <2>1, CreditMoves
  <2>3. Credits[r] = "none"
    BY <1>1 DEF Credits, CreditOf
  <2>4. ~HasOpenLoan(r) /\ LocksFor(r) = {r}
    BY <1>1 DEF CreditInv, LoanInv, Serial, Locked, Lending
  <2>5. ASSUME NEW q \in Requests, SubscriberOf[q] = SubscriberOf[r]
        PROVE  CreditOf(q) \notin Credit!Outstanding
    <3>1. q \in SameSubscriber(r) /\ r \in SameSubscriber(q) /\ LocksFor(q) = LocksFor(r)
      BY <2>5 DEF SameSubscriber, LocksFor
    <3>2. CreditOf(q) # "lent"
      BY <1>1, <2>4, <3>1, CreditMeans DEF HasOpenLoan
    <3>3. CreditOf(q) # "drawn"
      <4> SUFFICES ASSUME CreditOf(q) = "drawn" PROVE FALSE
        OBVIOUS
      <4>1. req[q] \in Booking /\ loan[q] = "none"
        BY <1>1, CreditMeans
      <4>2. LocksFor(q) = {q}
        BY <2>4, <3>1, <4>1 DEF CreditInv, LoanInv, Serial, Locked, Lending, Booking,
           HasOpenLoan, SameSubscriber
      <4>3. q = r
        BY <2>4, <3>1, <4>2
      <4> QED
        BY <1>1, <4>1, <4>3 DEF Booking
    <3>4. CreditOf(q) # "lost" \/ Forgets
      <4> SUFFICES ASSUME CreditOf(q) = "lost", ~Forgets PROVE FALSE
        OBVIOUS
      <4>1. q \in provisioned /\ loan[q] = "none"
        BY <1>1, CreditMeans
      <4>2. q \in provisioned' /\ loan'[q] # "closed" /\ loan'[r] # "closed"
        BY <1>1, <4>1
      <4>3. ProvisionedOnce'
        BY DEF CreditInv, OnceInv, Forgets, May
      <4>4. SameSubscriber(q)' = SameSubscriber(q)
        BY DEF SameSubscriber
      <4>5. q = r
        BY <1>5, <3>1, <4>2, <4>3, <4>4 DEF ProvisionedOnce
      <4> QED
        BY <1>1, <4>1, <4>5
    <3> QED
      BY <3>2, <3>3, <3>4 DEF Credit!Outstanding
  <2>6. \A q \in Requests : SubscriberOf[q] = SubscriberOf[r] => Credits[q] \notin Credit!Outstanding
    BY <2>5 DEF Credits
  <2> QED
    BY <1>2, <2>2, <2>3, <2>6 DEF Credit!Draw
<1> QED
  BY <1>4, <1>5

\* Booking a loan is lending what was drawn; every insert that fails loses it.
LEMMA BookingMaps ==
    ASSUME CreditInv, CreditInv', NEW r \in Requests,
           ReadRules(r) \/ InsertAvailment(r) \/ CreateLoan(r)
    PROVE  Credit!CreditNext \/ UNCHANGED <<Credits, Announced>>
<1>1. /\ AvailTypeOK /\ AvailTypeOK' /\ r \in provisioned /\ loan[r] = "none"
      /\ req[r] \in Booking /\ UNCHANGED <<provisioned, reported>>
      /\ \A q \in Requests \ {r} : req'[q] = req[q]
  <2>1. req[r] \in Booking /\ UNCHANGED <<provisioned, reported>>
    BY DEF Booking, ReadRules, InsertAvailment, CreateLoan, BookingFails, records, topic
  <2>2. \A q \in Requests \ {r} : req'[q] = req[q]
    BY DEF ReadRules, InsertAvailment, CreateLoan, BookingFails, Goto, CreditInv, LoanInv,
       AvailTypeOK
  <2>3. r \in provisioned /\ loan[r] = "none"
    BY <2>1 DEF CreditInv, RecordInv, RecordsInOrder, StoredSoFar, DrawsOnce, Booking
  <2> QED
    BY <2>1, <2>2, <2>3 DEF CreditInv, LoanInv
<1>2. CASE UNCHANGED <<loan, availment>> /\ req'[r] = "release"
  <2>1. Announced' = Announced
    BY <1>1, <1>2 DEF Announced
  <2>2. /\ \A q \in Requests \ {r} : req'[q] \in Booking <=> req[q] \in Booking
        /\ req'[r] \notin Booking
    BY <1>1, <1>2 DEF Booking
  <2>3. \A q \in {r} : req'[q] \notin Booking
    BY <2>2
  <2>4. Credit!Lose
    BY <1>1, <1>2, <2>1, <2>2, <2>3, LossMaps
  <2> QED
    BY <2>4 DEF Credit!CreditNext
<1>3. CASE loan' = loan /\ req'[r] \in Booking
  <2>1. \A q \in Requests : CreditOf(q)' = CreditOf(q)
    BY <1>1, <1>3, CreditStays
  <2>2. Credits' = Credits
    BY <2>1, AllStays
  <2>3. r \notin reported
    <3>1. availment[r] \in {"none", "success"}
      BY <1>1 DEF CreditInv, RecordInv, StoredSoFar, Unstored, Booking
    <3> QED
      BY <1>1, <3>1 DEF CreditInv, RecordInv, Told, Booked
  <2>4. \A q \in Requests \ {r} : availment'[q] = availment[q]
    BY DEF ReadRules, InsertAvailment, CreateLoan, BookingFails, CreditInv, LoanInv,
       AvailTypeOK, records
  <2>5. Announced' = Announced
    BY <1>1, <2>3, <2>4 DEF Announced, AvailTypeOK
  <2> QED
    BY <2>2, <2>5
<1>4. CASE loan' = [loan EXCEPT ![r] = "open"] /\ UNCHANGED availment
  <2>1. loan'[r] = "open" /\ \A q \in Requests \ {r} : loan'[q] = loan[q]
    BY <1>1, <1>4 DEF AvailTypeOK
  <2>2. \A q \in Requests \ {r} : CreditOf(q)' = CreditOf(q)
    BY <1>1, <2>1, CreditStays
  <2>3. CreditOf(r)' = "lent" /\ Credits[r] = "drawn"
    BY <1>1, <2>1 DEF CreditOf, Credits
  <2>4. Credits' = [Credits EXCEPT ![r] = "lent"]
    BY <2>2, <2>3, CreditMoves
  <2>5. Announced' = Announced
    BY <1>1, <1>4 DEF Announced
  <2>6. Credit!Lend(r)
    BY <2>3, <2>4, <2>5 DEF Credit!Lend
  <2> QED
    BY <2>6 DEF Credit!CreditNext
<1>5. CASE ReadRules(r)
  <2>1. loan' = loan /\ availment' = availment /\ req'[r] \in {"availment", "release"}
    BY <1>1, <1>5 DEF ReadRules, Goto, AvailTypeOK, records
  <2> QED
    BY <1>2, <1>3, <2>1 DEF Booking
<1>6. CASE InsertAvailment(r)
  <2>1. loan' = loan /\ (req'[r] = "loan" \/ (availment' = availment /\ req'[r] = "release"))
    BY <1>1, <1>6 DEF InsertAvailment, BookingFails, Goto, AvailTypeOK, records
  <2> QED
    BY <1>2, <1>3, <2>1 DEF Booking
<1>7. CASE CreateLoan(r)
  <2>1. \/ loan' = [loan EXCEPT ![r] = "open"] /\ UNCHANGED availment
        \/ UNCHANGED <<loan, availment>> /\ req'[r] = "release"
    BY <1>1, <1>7 DEF CreateLoan, BookingFails, Goto, AvailTypeOK, records
  <2> QED
    BY <1>2, <1>4, <2>1
<1> QED
  BY <1>5, <1>6, <1>7

\* Only a loan is announced.
LEMMA PublishMaps ==
    ASSUME CreditInv, CreditInv', NEW r \in Requests, Publish(r)
    PROVE  Credit!Announce(r) \/ UNCHANGED <<Credits, Announced>>
<1>1. /\ AvailTypeOK /\ UNCHANGED <<req, loan, provisioned, availment>>
      /\ reported' = reported \/ (pub[r] = "report" /\ reported' = reported \cup {r})
  BY DEF Publish, CreditInv, LoanInv, records
<1>2. Credits' = Credits
  BY <1>1, AllStays, CreditStays
<1>3. CASE reported' = reported
  BY <1>1, <1>2, <1>3 DEF Announced
<1>4. CASE pub[r] = "report" /\ reported' = reported \cup {r} /\ availment[r] = "success"
  <2>1. loan[r] \in {"open", "closed"}
    BY <1>1, <1>4 DEF CreditInv, RecordInv, Told, Booked, AvailTypeOK
  <2>2. Credits[r] \in {"lent", "repaid"}
    BY <2>1 DEF Credits, CreditOf
  <2>3. Announced' = Announced \cup {r}
    BY <1>1, <1>4 DEF Announced
  <2> QED
    BY <1>2, <2>2, <2>3 DEF Credit!Announce
<1>5. CASE reported' = reported \cup {r} /\ availment[r] # "success"
  BY <1>1, <1>2, <1>5 DEF Announced
<1> QED
  BY <1>1, <1>3, <1>4, <1>5

LEMMA RepayMaps ==
    ASSUME CreditInv, NEW r \in Requests, CloseLoan(r)
    PROVE  Credit!Repay(r)
<1>1. /\ AvailTypeOK /\ loan[r] = "open" /\ loan'[r] = "closed"
      /\ \A q \in Requests \ {r} : loan'[q] = loan[q]
      /\ UNCHANGED <<req, provisioned, availment, reported>>
  BY DEF CloseLoan, CreditInv, LoanInv, AvailTypeOK, topic
<1>2. \A q \in Requests \ {r} : CreditOf(q)' = CreditOf(q)
  BY <1>1, CreditStays
<1>3. CreditOf(r)' = "repaid" /\ Credits[r] = "lent"
  BY <1>1 DEF CreditOf, Credits
<1>4. Credits' = [Credits EXCEPT ![r] = "repaid"]
  BY <1>2, <1>3, CreditMoves
<1>5. Announced' = Announced
  BY <1>1 DEF Announced
<1> QED
  BY <1>3, <1>4, <1>5 DEF Credit!Repay

LEMMA DieMaps ==
    ASSUME CreditInv, CreditInv', NEW dead \in SUBSET Busy, Die(dead)
    PROVE  Credit!Lose
<1>1. /\ AvailTypeOK /\ AvailTypeOK' /\ dead \subseteq Requests
      /\ UNCHANGED <<loan, provisioned, availment, reported>>
      /\ \A q \in Requests \ dead : req'[q] = req[q]
      /\ \A q \in dead : req'[q] \notin Booking
  BY DEF Die, Busy, Running, Holding, Booking, CreditInv, LoanInv, records, topic
<1>2. Announced' = Announced
  BY <1>1 DEF Announced
<1> QED
  BY <1>1, <1>2, LossMaps

\* All the other steps of a request are no business of his credit.
LEMMA OthersStay ==
    ASSUME CreditInv, NEW r \in Requests,
           UNCHANGED <<loan, provisioned, reported>>,
           req[r] \notin Booking, req'[r] \notin Booking,
           \A q \in Requests \ {r} : req'[q] = req[q] /\ availment'[q] = availment[q],
           availment'[r] = availment[r] \/ r \notin reported
    PROVE  UNCHANGED <<Credits, Announced>>
<1>1. AvailTypeOK
  BY DEF CreditInv, LoanInv
<1>2. \A q \in Requests : req'[q] \in Booking <=> req[q] \in Booking
  OBVIOUS
<1>3. Credits' = Credits
  BY <1>1, <1>2, AllStays, CreditStays
<1>4. Announced' = Announced
  BY <1>1 DEF Announced, AvailTypeOK
<1> QED
  BY <1>3, <1>4

LEMMA CreditStep ==
    ASSUME LocksWork, CreditInv, CreditInv', [AvailNext]_availVars
    PROVE  Credit!CreditNext \/ UNCHANGED <<Credits, Announced>>
<1> DEFINE Mapped == Credit!CreditNext \/ UNCHANGED <<Credits, Announced>>
<1>0. AvailTypeOK /\ AvailTypeOK' /\ \A r \in Requests : Told(r) /\ StoredSoFar(r)
  BY DEF CreditInv, LoanInv, RecordInv
<1>1. CASE UNCHANGED availVars
  <2>1. UNCHANGED <<req, loan, provisioned, availment, reported>>
    BY <1>1 DEF availVars, records, topic
  <2>2. Credits' = Credits
    BY <1>0, <2>1, AllStays, CreditStays
  <2> QED
    BY <2>1, <2>2 DEF Announced
<1>2. ASSUME NEW dead \in SUBSET Busy, Die(dead) PROVE Mapped
  BY <1>2, DieMaps DEF Credit!CreditNext
<1>3. CASE Crash
  BY <1>2, <1>3 DEF Crash
<1>4. ASSUME NEW r \in Requests, Panic(r) PROVE Mapped
  BY <1>2, <1>4 DEF Panic
<1>5. ASSUME NEW r \in Requests, Topup(r) PROVE Mapped
  BY <1>5, DrawMaps DEF Credit!CreditNext
<1>6. ASSUME NEW r \in Requests, ReadRules(r) \/ InsertAvailment(r) \/ CreateLoan(r) PROVE Mapped
  BY <1>6, BookingMaps
<1>7. ASSUME NEW r \in Requests, Publish(r) PROVE Mapped
  BY <1>7, PublishMaps DEF Credit!CreditNext
<1>8. ASSUME NEW r \in Requests, CloseLoan(r) PROVE Mapped
  BY <1>8, RepayMaps DEF Credit!CreditNext
<1>9. ASSUME NEW r \in Requests, NEW here, NEW next, here \notin Booking, next \notin Booking,
             req[r] = here, Goto(r, next), UNCHANGED <<provisioned, records, topic>>
      PROVE  Mapped
  <2>1. /\ req[r] \notin Booking /\ req'[r] \notin Booking
        /\ UNCHANGED <<loan, provisioned, reported, availment>>
        /\ \A q \in Requests \ {r} : req'[q] = req[q]
    BY <1>0, <1>9 DEF Goto, AvailTypeOK, records, topic
  <2> QED
    BY <2>1, OthersStay
<1>10. ASSUME NEW r \in Requests, Receive(r) \/ CheckLock(r) \/ CreateLock(r) \/ CheckEligibility(r)
       PROVE  Mapped
  <2>1. PICK next \in {"check", "refuse", "badword", "lock", "eligible", "fail", "session"} :
           Goto(r, next)
    BY <1>10 DEF Receive, Verdicts, CheckLock, CreateLock, CheckEligibility
  <2>2. /\ req[r] \in {"new", "check", "lock", "eligible"}
        /\ UNCHANGED <<provisioned, records, topic>>
    BY <1>10 DEF Receive, CheckLock, CreateLock, CheckEligibility
  <2> QED
    BY <1>9, <2>1, <2>2 DEF Booking
<1>11. ASSUME NEW r \in Requests, CreateSession(r) \/ LoginSession(r) PROVE Mapped
  <2>1. PICK next \in {"login", "topup", "fail"} : Goto(r, next)
    BY <1>11 DEF CreateSession, LoginSession, AmaxCall
  <2>2. req[r] \in {"session", "login"} /\ UNCHANGED <<provisioned, records, topic>>
    BY <1>11 DEF CreateSession, LoginSession, AmaxCall
  <2> QED
    BY <1>9, <2>1, <2>2 DEF Booking
<1>12. ASSUME NEW r \in Requests, CreateUnpaid(r) \/ Unlock(r) \/ SaveToRedis(r) PROVE Mapped
  <2>1. PICK next \in {"unlock", "cache", "again", "release"} : Goto(r, next)
    BY <1>12 DEF CreateUnpaid, Unlock, SaveToRedis, BookingFails
  <2>2. /\ req[r] \in {"unpaid", "unlock", "cache"}
        /\ UNCHANGED <<loan, availment, provisioned, reported>>
    BY <1>12 DEF CreateUnpaid, Unlock, SaveToRedis, BookingFails, records, topic
  <2>3. /\ req[r] \notin Booking /\ req'[r] \notin Booking
        /\ \A q \in Requests \ {r} : req'[q] = req[q]
    BY <1>0, <2>1, <2>2 DEF Goto, AvailTypeOK, Booking
  <2> QED
    BY <2>2, <2>3, OthersStay
<1>13. ASSUME NEW r \in Requests, InsertFailed(r) PROVE Mapped
  <2>1. PICK next \in {"done", "again", "release", "kept"} : Goto(r, next)
    BY <1>13 DEF InsertFailed, AfterFailure
  <2>2. /\ req[r] \in {"refuse", "badword", "fail", "timeout"}
        /\ UNCHANGED <<loan, provisioned, reported>>
        /\ \A q \in Requests \ {r} : availment'[q] = availment[q]
    BY <1>0, <1>13 DEF InsertFailed, AfterFailure, AvailTypeOK, topic
  <2>3. /\ req[r] \notin Booking /\ req'[r] \notin Booking
        /\ \A q \in Requests \ {r} : req'[q] = req[q]
    BY <1>0, <2>1, <2>2 DEF Goto, AvailTypeOK, Booking
  <2>4. r \notin reported
    BY <1>0, <2>2 DEF Told, Booked, StoredSoFar, Unstored
  <2> QED
    BY <2>2, <2>3, <2>4, OthersStay
<1>14. ASSUME NEW r \in Requests, Release(r) \/ ReleaseAgain(r) PROVE Mapped
  <2>1. PICK next \in {"done", "kept"} : Goto(r, next)
    BY <1>14 DEF Release, ReleaseAgain
  <2>2. req[r] \in {"release", "again"} /\ UNCHANGED <<provisioned, records, topic>>
    BY <1>14 DEF Release, ReleaseAgain
  <2> QED
    BY <1>9, <2>1, <2>2 DEF Booking
<1>15. ASSUME NEW r \in Requests, Flag(r) \/ Expire(r) PROVE Mapped
  <2>1. UNCHANGED <<req, loan, provisioned, availment, reported>>
    BY <1>15 DEF Flag, Expire, records, topic
  <2>2. Credits' = Credits
    BY <1>0, <2>1, AllStays, CreditStays
  <2> QED
    BY <2>1, <2>2 DEF Announced
<1> QED
  BY <1>1, <1>3, <1>4, <1>5, <1>6, <1>7, <1>8, <1>10, <1>11, <1>12, <1>13, <1>14, <1>15
  DEF AvailNext, Serve, PublisherStep

LEMMA CreditStart == AvailInit => CreditInv /\ Credit!CreditInit
<1> SUFFICES ASSUME AvailInit PROVE CreditInv /\ Credit!CreditInit
  OBVIOUS
<1>1. OnceInv
  BY OnceStart
<1>2. CreditInv
  BY <1>1 DEF AvailInit, CreditInv, OnceInv, DrawsOnce
<1>3. Credits = [r \in Requests |-> "none"] /\ Announced = {}
  BY DEF AvailInit, Credits, CreditOf, Announced
<1> QED
  BY <1>2, <1>3 DEF Credit!CreditInit

\* ImplementsCredit: as long as the locks work, the requests of a subscriber draw on
\* one line of credit, whatever else fails: over MongoDB's errors, dying instances
\* and every answer of AMAX the line may be drawn again only when what was drawn
\* before is repaid or, in the cases Forgets names, lost to the service.
THEOREM RequestsImplementCredit ==
    ASSUME LocksWork
    PROVE  AvailSpec => ImplementsCredit
<1>1. CreditInv /\ [AvailNext]_availVars => CreditInv'
  BY CreditInductive
<1>2. CreditInv /\ CreditInv' /\ [AvailNext]_availVars =>
         [Credit!CreditNext]_(Credit!creditVars)
  BY CreditStep DEF Credit!creditVars
<1> QED
  BY CreditStart, <1>1, <1>2, PTL DEF AvailSpec, ImplementsCredit, Credit!CreditSpec

-----------------------------------------------------------------------------
(* Locks.                                                                  *)

\* The requests of a subscriber that hold a lock or have left one.
Holders(r) == {q \in SameSubscriber(r) : req[q] \in Holding \cup Kept}

\* There are finitely many of either.
LEMMA LocksAreFinite ==
    ASSUME NEW r \in Requests
    PROVE  /\ SameSubscriber(r) \subseteq Requests /\ IsFiniteSet(Requests)
           /\ IsFiniteSet(LocksFor(r)) /\ Cardinality(LocksFor(r)) \in Nat
           /\ IsFiniteSet(Holders(r)) /\ Cardinality(Holders(r)) \in Nat
<1>1. SameSubscriber(r) \subseteq Requests /\ IsFiniteSet(Requests)
  BY AvailmentAssumption DEF SameSubscriber
<1>2. LocksFor(r) \in SUBSET Requests /\ Holders(r) \in SUBSET Requests
  BY <1>1 DEF LocksFor, Holders
<1>3. IsFiniteSet(LocksFor(r)) /\ IsFiniteSet(Holders(r))
  BY <1>1, <1>2, FS_Subset
<1> QED
  BY <1>1, <1>3, FS_CardinalityType

\* A step that adds no lock and lets nobody go.
LEMMA FewerLocks ==
    ASSUME LockIsJustified, locks' \subseteq locks,
           \A q \in Requests : req[q] \in Holding \cup Kept => req'[q] \in Holding \cup Kept
    PROVE  LockIsJustified'
<1> SUFFICES ASSUME NEW r \in Requests
             PROVE  Cardinality(LocksFor(r)') <= Cardinality(Holders(r)')
  BY DEF LockIsJustified, Holders
<1>1. LocksFor(r)' \in SUBSET LocksFor(r) /\ Holders(r) \in SUBSET Holders(r)'
  BY LocksAreFinite DEF LocksFor, Holders, SameSubscriber
<1>2. Holders(r)' \in SUBSET Requests
  BY DEF Holders, SameSubscriber
<1>3. IsFiniteSet(Holders(r)') /\ IsFiniteSet(LocksFor(r)')
  BY <1>1, <1>2, LocksAreFinite, FS_Subset
<1>4. /\ Cardinality(LocksFor(r)') \in Nat /\ Cardinality(Holders(r)') \in Nat
      /\ Cardinality(LocksFor(r)) \in Nat /\ Cardinality(Holders(r)) \in Nat
  BY <1>3, LocksAreFinite, FS_CardinalityType
<1>5. Cardinality(LocksFor(r)') <= Cardinality(LocksFor(r))
  BY <1>1, LocksAreFinite, FS_Subset
<1>6. Cardinality(Holders(r)) <= Cardinality(Holders(r)')
  BY <1>1, <1>3, FS_Subset
<1>7. Cardinality(LocksFor(r)) <= Cardinality(Holders(r))
  BY DEF LockIsJustified, Holders
<1> QED
  BY <1>4, <1>5, <1>6, <1>7

\* The request that inserts its lock begins to hold one.
LEMMA CreateLockKeeps ==
    ASSUME AvailTypeOK, LockIsJustified, NEW p \in Requests, CreateLock(p)
    PROVE  LockIsJustified'
<1> SUFFICES ASSUME NEW r \in Requests
             PROVE  Cardinality(LocksFor(r)') <= Cardinality(Holders(r)')
  BY DEF LockIsJustified, Holders
<1>1. /\ req[p] = "lock" /\ req'[p] = "eligible" /\ \A q \in Requests \ {p} : req'[q] = req[q]
      /\ locks' \subseteq locks \cup {p} /\ locks \subseteq locks'
  BY DEF CreateLock, Goto, AvailTypeOK
<1>2. Cardinality(LocksFor(r)) <= Cardinality(Holders(r))
  BY DEF LockIsJustified, Holders
<1>3. CASE p \in SameSubscriber(r)
  <2>1. p \notin Holders(r)
    BY <1>1 DEF Holders, Holding, Kept
  <2>2. Holders(r)' = Holders(r) \cup {p}
    BY <1>1, <1>3 DEF Holders, Holding, Kept, SameSubscriber
  <2>3. Cardinality(Holders(r)') = Cardinality(Holders(r)) + 1
    BY <2>1, <2>2, LocksAreFinite, FS_AddElement
  <2>4. LocksFor(r)' = LocksFor(r) \/ LocksFor(r)' = LocksFor(r) \cup {p}
    BY <1>1, <1>3 DEF LocksFor, SameSubscriber
  <2>5. Cardinality(LocksFor(r) \cup {p}) =
           IF p \in LocksFor(r) THEN Cardinality(LocksFor(r)) ELSE Cardinality(LocksFor(r)) + 1
    BY LocksAreFinite, FS_AddElement
  <2>6. /\ Cardinality(LocksFor(r)) \in Nat /\ Cardinality(Holders(r)) \in Nat
    BY LocksAreFinite
  <2>7. CASE LocksFor(r)' = LocksFor(r)
    <3>1. Cardinality(LocksFor(r)') = Cardinality(LocksFor(r))
      BY <2>7, Zenon
    <3> QED
      BY <1>2, <2>3, <2>6, <3>1
  <2>8. CASE LocksFor(r)' = LocksFor(r) \cup {p}
    <3>1. Cardinality(LocksFor(r)') = Cardinality(LocksFor(r) \cup {p})
      BY <2>8, Zenon
    <3> QED
      BY <1>2, <2>3, <2>5, <2>6, <3>1
  <2> QED
    BY <2>4, <2>7, <2>8
<1>4. CASE p \notin SameSubscriber(r)
  <2>1. Holders(r)' = Holders(r) /\ LocksFor(r)' = LocksFor(r)
    BY <1>1, <1>4, LocksAreFinite DEF Holders, LocksFor, SameSubscriber
  <2>2. Cardinality(Holders(r)') = Cardinality(Holders(r))
    BY <2>1, Zenon
  <2>3. Cardinality(LocksFor(r)') = Cardinality(LocksFor(r))
    BY <2>1, Zenon
  <2> QED
    BY <1>2, <2>2, <2>3
<1> QED
  BY <1>3, <1>4

\* A request that stops holding its lock deletes one of its subscriber's, if
\* there is one, whoever inserted it.
LEMMA DeleteLockKeeps ==
    ASSUME AvailTypeOK, LockIsJustified, NEW p \in Requests, DeleteLock(p),
           \A q \in Requests \ {p} : req'[q] = req[q]
    PROVE  LockIsJustified'
<1> SUFFICES ASSUME NEW r \in Requests
             PROVE  Cardinality(LocksFor(r)') <= Cardinality(Holders(r)')
  BY DEF LockIsJustified, Holders
<1>1. Cardinality(LocksFor(r)) <= Cardinality(Holders(r))
  BY DEF LockIsJustified, Holders
<1>2. /\ Cardinality(LocksFor(r)) \in Nat /\ Cardinality(Holders(r)) \in Nat
      /\ IsFiniteSet(LocksFor(r)) /\ IsFiniteSet(Holders(r))
  BY LocksAreFinite
<1>3. CASE p \in SameSubscriber(r)
  <2>1. LocksFor(p) = LocksFor(r)
    BY <1>3 DEF LocksFor, SameSubscriber
  <2> DEFINE before == Holders(r) \ {p}
  <2>2. before \in SUBSET Holders(r)'
    BY LocksAreFinite DEF Holders, SameSubscriber
  <2>3. Holders(r)' \in SUBSET Requests
    BY DEF Holders, SameSubscriber
  <2>4. IsFiniteSet(Holders(r)')
    BY <2>3, LocksAreFinite, FS_Subset
  <2>5. Cardinality(before) <= Cardinality(Holders(r)')
    BY <2>2, <2>4, FS_Subset
  <2>6. Cardinality(before) =
           IF p \in Holders(r) THEN Cardinality(Holders(r)) - 1 ELSE Cardinality(Holders(r))
    BY <1>2, FS_RemoveElement
  <2>7. Cardinality(Holders(r)') \in Nat
    BY <2>4, FS_CardinalityType
  <2> HIDE DEF before
  <2>8. CASE LocksFor(r) = {}
    <3>1. LocksFor(r)' = {}
      BY <2>1, <2>8 DEF DeleteLock, LocksFor, SameSubscriber
    <3>2. Cardinality(LocksFor(r)') = 0
      BY <3>1, FS_EmptySet, Zenon
    <3> QED
      BY <2>7, <3>2
  <2>9. CASE LocksFor(r) # {}
    <3>1. PICK l \in LocksFor(r) : locks' = locks \ {l}
      BY <2>1, <2>9 DEF DeleteLock
    <3>2. LocksFor(r)' = LocksFor(r) \ {l}
      BY <3>1 DEF LocksFor, SameSubscriber
    <3>3. Cardinality(LocksFor(r) \ {l}) = Cardinality(LocksFor(r)) - 1
      BY <1>2, <3>1, FS_RemoveElement
    <3>4. Cardinality(LocksFor(r)') = Cardinality(LocksFor(r) \ {l})
      BY <3>2, Zenon
    <3>5. Cardinality(before) >= Cardinality(Holders(r)) - 1 /\ Cardinality(before) \in Int
      BY <1>2, <2>6
    <3> QED
      BY <1>1, <1>2, <2>5, <2>7, <3>3, <3>4, <3>5
  <2> QED
    BY <2>8, <2>9
<1>4. CASE p \notin SameSubscriber(r)
  <2>1. Holders(r)' = Holders(r)
    BY <1>4 DEF Holders, SameSubscriber
  <2>2. LocksFor(r)' = LocksFor(r)
    BY <1>4 DEF LocksFor, SameSubscriber, DeleteLock
  <2>3. Cardinality(Holders(r)') = Cardinality(Holders(r))
    BY <2>1, Zenon
  <2>4. Cardinality(LocksFor(r)') = Cardinality(LocksFor(r))
    BY <2>2, Zenon
  <2> QED
    BY <1>1, <2>3, <2>4
<1> QED
  BY <1>3, <1>4

\* No step leaves a subscriber with more locks than requests that account for them.
LEMMA LocksInductive ==
    ASSUME AvailTypeOK, LockIsJustified, [AvailNext]_availVars
    PROVE  LockIsJustified'
<1>1. ASSUME NEW dead \in SUBSET Busy, Die(dead)
      PROVE  LockIsJustified'
  BY <1>1, FewerLocks DEF Die, Kept, AvailTypeOK
<1>2. ASSUME NEW r \in Requests, NEW next,
             Goto(r, next), locks' \subseteq locks,
             req[r] \notin Holding \cup Kept \/ next \in Holding \cup Kept
      PROVE  LockIsJustified'
  BY <1>2, FewerLocks DEF Goto, AvailTypeOK
<1>3. ASSUME NEW r \in Requests, NEW next, Goto(r, next), DeleteLock(r)
      PROVE  LockIsJustified'
  BY <1>3, DeleteLockKeeps DEF Goto, AvailTypeOK
<1>4. ASSUME UNCHANGED req, locks' \subseteq locks
      PROVE  LockIsJustified'
  BY <1>4, FewerLocks
<1> USE DEF Holding, Kept
<1>5. ASSUME NEW r \in Requests, Receive(r) \/ CheckLock(r)
      PROVE  LockIsJustified'
  <2>1. (\E next : Goto(r, next)) /\ locks' = locks /\ req[r] \in {"new", "check"}
    BY <1>5 DEF Receive, CheckLock
  <2> QED
    BY <1>2, <2>1
<1>6. ASSUME NEW r \in Requests, CreateLock(r)
      PROVE  LockIsJustified'
  BY <1>6, CreateLockKeeps
<1>7. ASSUME NEW r \in Requests,
             CheckEligibility(r) \/ CreateSession(r) \/ LoginSession(r)
      PROVE  LockIsJustified'
  BY <1>2, <1>7 DEF CheckEligibility, CreateSession, LoginSession, AmaxCall
<1>8. ASSUME NEW r \in Requests, Topup(r)
      PROVE  LockIsJustified'
  <2>1. PICK reply \in TopupReplies : Goto(r, AfterTopup[reply])
    BY <1>8 DEF Topup
  <2>2. AfterTopup[reply] \in Holding
    BY <2>1, AvailmentAssumption DEF AfterTopup, AllReplies
  <2>3. locks' = locks
    BY <1>8 DEF Topup
  <2> QED
    BY <1>2, <2>1, <2>2, <2>3
<1>9. ASSUME NEW r \in Requests,
             ReadRules(r) \/ InsertAvailment(r) \/ CreateLoan(r) \/ CreateUnpaid(r)
      PROVE  LockIsJustified'
  BY <1>2, <1>9 DEF ReadRules, InsertAvailment, CreateLoan, CreateUnpaid, BookingFails
<1>10. ASSUME NEW r \in Requests, Unlock(r)
       PROVE  LockIsJustified'
  BY <1>2, <1>3, <1>10 DEF Unlock, BookingFails
<1>11. ASSUME NEW r \in Requests, SaveToRedis(r)
       PROVE  LockIsJustified'
  BY <1>2, <1>11 DEF SaveToRedis, BookingFails
<1>12. ASSUME NEW r \in Requests, InsertFailed(r)
       PROVE  LockIsJustified'
  <2>1. /\ Goto(r, AfterFailure[req[r]]) /\ locks' = locks
        /\ req[r] \in {"refuse", "badword", "fail", "timeout"}
    BY <1>12 DEF InsertFailed, AfterFailure
  <2>2. req[r] \notin Holding \cup Kept \/ AfterFailure[req[r]] \in Holding \cup Kept
    BY <2>1 DEF AfterFailure
  <2> QED
    BY <1>2, <2>1, <2>2
<1>13. ASSUME NEW r \in Requests, Release(r) \/ ReleaseAgain(r)
       PROVE  LockIsJustified'
  BY <1>2, <1>3, <1>13 DEF Release, ReleaseAgain
<1>14. ASSUME NEW r \in Requests, Publish(r) \/ Flag(r) \/ Expire(r) \/ CloseLoan(r)
       PROVE  LockIsJustified'
  BY <1>4, <1>14 DEF Publish, Flag, Expire, CloseLoan
<1>15. CASE UNCHANGED availVars
  BY <1>4, <1>15 DEF availVars
<1> QED
  BY <1>1, <1>5, <1>6, <1>7, <1>8, <1>9, <1>10, <1>11, <1>12, <1>13, <1>14, <1>15
  DEF AvailNext, Serve, PublisherStep, Panic, Crash

\* Nobody is left locked out by a request that has ended: whoever deletes whose
\* lock, a subscriber has no more locks than requests that hold or have kept one.
THEOREM LocksAreJustified == AvailSpec => []LockIsJustified
<1>1. ASSUME AvailInit
      PROVE  LockIsJustified
  <2>1. \A r \in Requests : LocksFor(r) = {}
    BY <1>1 DEF AvailInit, LocksFor
  <2>2. \A r \in Requests : Cardinality(LocksFor(r)) = 0
    BY <2>1, FS_EmptySet, Zenon
  <2> QED
    BY <2>2, LocksAreFinite DEF LockIsJustified, Holders
<1>2. AvailTypeOK /\ LockIsJustified /\ [AvailNext]_availVars => LockIsJustified'
  BY LocksInductive
<1> QED
  BY AvailTypeCorrect, <1>1, <1>2, PTL DEF AvailSpec

-----------------------------------------------------------------------------
(* The Kafka retry.                                                        *)

\* What the retry does beside requests: theirs are the documents and the topic.
RetryPart == RetryStep \/ (AvailNext /\ UNCHANGED retryVars)
retryPartVars == <<availVars, retryVars>>

\* The retry writes nothing of the requests but the topic.
LEMMA OnlyReports ==
    ASSUME RetryStep, AvailTypeOK, AvailmentRetryTypeOK
    PROVE  AvailTypeOK' /\ reported \subseteq reported'
<1>1. CASE OnlyRun
  BY <1>1 DEF OnlyRun, AvailTypeOK, availVars, records, topic
<1>2. ASSUME NEW k \in RetryRuns, NEW r \in Requests, DeliverReport(k, r)
      PROVE  AvailTypeOK' /\ reported \subseteq reported'
  BY <1>2 DEF DeliverReport, AvailTypeOK, records
<1>3. ASSUME NEW k \in RetryRuns, OpenProducer(k) \/ RunStep(k)
      PROVE  OnlyRun
  BY <1>3 DEF OpenProducer, RunStep, Select, Produce, Flush, SetKafkaFlag, CloseProducer
<1> QED
  BY <1>1, <1>2, <1>3 DEF RetryStep

\* Nothing is taken from the topic.
LEMMA ReportsStay ==
    ASSUME AvailNext
    PROVE  reported \subseteq reported'
<1> USE DEF records, topic
<1>1. CASE Crash
  BY <1>1 DEF Crash, Die
<1>2. ASSUME NEW r \in Requests, Serve(r)
      PROVE  reported \subseteq reported'
  BY <1>2 DEF Serve, CheckLock, CreateLock, CheckEligibility, CreateSession, LoginSession,
       AmaxCall, Topup, ReadRules, InsertAvailment, CreateLoan, CreateUnpaid, Unlock,
       SaveToRedis, InsertFailed, Release, ReleaseAgain, BookingFails
<1>3. ASSUME NEW r \in Requests, PublisherStep(r)
      PROVE  reported \subseteq reported'
  BY <1>3 DEF PublisherStep, Publish, Flag, Panic, Die
<1>4. ASSUME NEW r \in Requests, Receive(r) \/ Expire(r) \/ CloseLoan(r)
      PROVE  reported \subseteq reported'
  BY <1>4 DEF Receive, Expire, CloseLoan
<1> QED
  BY <1>1, <1>2, <1>3, <1>4 DEF AvailNext

\* Every row is in one place.  What the producer of a run has taken is on the topic
\* or still in a queue of that producer, unless messages were left behind.
Accounted(k) ==
    /\ run[k].ok \cap run[k].bad = {}
    /\ run[k].rows \cap (run[k].ok \cup run[k].bad) = {}
    /\ run[k].at \in {"new", "select"} => run[k].ok = {} /\ run[k].bad = {}
    /\ run[k].at = "send" /\ ~run[k].lossy =>
          \A q \in run[k].ok : q \in reported \/ \E j \in run[k].uses : <<j, q>> \in queued
    /\ run[k].at \in {"flag", "close", "end"} /\ ~run[k].lossy => run[k].ok \subseteq reported

AccountInv ==
    /\ AvailTypeOK /\ AvailmentRetryTypeOK
    /\ \A k \in RetryRuns : Accounted(k)

\* There is never more than one global producer.
LEMMA RetryTypeInductive ==
    ASSUME AvailTypeOK, AvailmentRetryTypeOK, [RetryPart]_retryPartVars
    PROVE  AvailmentRetryTypeOK'
<1> USE DEF AvailmentRetryTypeOK, RunState
<1>1. CASE UNCHANGED retryVars
  BY <1>1 DEF retryVars
<1>2. ASSUME NEW k \in RetryRuns, OpenProducer(k)
      PROVE  AvailmentRetryTypeOK'
  <2>1. Cardinality({k}) = 1
    BY FS_Singleton
  <2> QED
    BY <1>2, <2>1 DEF OpenProducer
<1>3. ASSUME NEW k \in RetryRuns, Select(k)
      PROVE  AvailmentRetryTypeOK'
  BY <1>3 DEF Select, Unflagged
<1>4. ASSUME NEW k \in RetryRuns, NEW r \in Requests, Produce(k, r)
      PROVE  AvailmentRetryTypeOK'
  BY <1>4 DEF Produce
<1>5. ASSUME NEW k \in RetryRuns, NEW r \in Requests, DeliverReport(k, r)
      PROVE  AvailmentRetryTypeOK'
  BY <1>5 DEF DeliverReport
<1>6. ASSUME NEW k \in RetryRuns, Flush(k) \/ SetKafkaFlag(k)
      PROVE  AvailmentRetryTypeOK'
  BY <1>6 DEF Flush, SetKafkaFlag
<1>7. ASSUME NEW k \in RetryRuns, CloseProducer(k)
      PROVE  AvailmentRetryTypeOK'
  <2>1. ASSUME NEW j \in RetryRuns
        PROVE  run'[j] \in RunState
    <3>1. \/ run'[j] = [run[j] EXCEPT !.at = "end"]
          \/ run'[j] = [run[j] EXCEPT !.lossy = TRUE]
          \/ run'[j] = run[j]
      BY <1>7, <2>1 DEF CloseProducer
    <3> QED
      BY <3>1
  <2>2. DOMAIN run' = RetryRuns /\ run' = [j \in RetryRuns |-> run'[j]]
    BY <1>7 DEF CloseProducer
  <2>3. run' \in [RetryRuns -> RunState]
    BY <2>1, <2>2
  <2> QED
    BY <1>7, <2>3 DEF CloseProducer
<1> QED
  BY <1>1, <1>2, <1>3, <1>4, <1>5, <1>6, <1>7 DEF RetryPart, RetryStep, RunStep,
     retryPartVars

LEMMA AccountInductive ==
    ASSUME AccountInv, [RetryPart]_retryPartVars
    PROVE  AccountInv'
<1> USE DEF AccountInv, Accounted
<1> AvailmentRetryTypeOK'  BY RetryTypeInductive
<1> DEFINE Rest == AvailTypeOK' /\ \A k \in RetryRuns : Accounted(k)'
<1> SUFFICES Rest
  OBVIOUS
<1>1. ASSUME UNCHANGED retryVars, AvailTypeOK', reported \subseteq reported'
      PROVE  Rest
  BY <1>1 DEF retryVars
<1>2. CASE UNCHANGED retryPartVars
  BY <1>2 DEF retryPartVars, retryVars, availVars, records, topic, AvailTypeOK
<1>3. CASE AvailNext /\ UNCHANGED retryVars
  BY <1>1, <1>3, AvailTypeInductive, ReportsStay
<1>4. CASE RetryStep
  <2> AvailTypeOK' /\ reported \subseteq reported'
    BY <1>4, OnlyReports
  <2> USE DEF AvailmentRetryTypeOK, RunState
  <2>1. ASSUME NEW k \in RetryRuns, OpenProducer(k)
        PROVE  Rest
    <3> SUFFICES ASSUME NEW j \in RetryRuns
                 PROVE  Accounted(j)'
      OBVIOUS
    <3>1. /\ j # k => run'[j] = run[j]
          /\ j = k => /\ run[j].at = "new" /\ run'[j].at = "select"
                      /\ run'[j].ok = run[j].ok /\ run'[j].bad = run[j].bad
                      /\ run'[j].rows = run[j].rows
          /\ queued' = queued
      BY <2>1 DEF OpenProducer
    <3> QED
      BY <3>1
  <2>2. ASSUME NEW k \in RetryRuns, Select(k)
        PROVE  Rest
    <3> SUFFICES ASSUME NEW j \in RetryRuns
                 PROVE  Accounted(j)'
      OBVIOUS
    <3>1. /\ j # k => run'[j] = run[j]
          /\ j = k => /\ run[j].at = "select" /\ run'[j].at \in {"send", "close"}
                      /\ run'[j].ok = run[j].ok /\ run'[j].bad = run[j].bad
          /\ queued' = queued
      BY <2>2 DEF Select
    <3> QED
      BY <3>1
  <2>3. ASSUME NEW k \in RetryRuns, NEW r \in Requests, Produce(k, r)
        PROVE  Rest
    BY <2>3 DEF Produce
  <2>4. ASSUME NEW k \in RetryRuns, NEW r \in Requests, DeliverReport(k, r)
        PROVE  Rest
    BY <2>4 DEF DeliverReport
  <2>5. ASSUME NEW k \in RetryRuns, Flush(k)
        PROVE  Rest
    <3> SUFFICES ASSUME NEW j \in RetryRuns
                 PROVE  Accounted(j)'
      OBVIOUS
    <3>1. /\ j # k => run'[j] = run[j]
          /\ j = k => /\ run[j].at = "send" /\ run'[j].at = "flag"
                      /\ run'[j].ok = run[j].ok /\ run'[j].bad = run[j].bad
                      /\ run'[j].rows = run[j].rows
                      /\ ~run'[j].lossy => ~run[j].lossy /\ Left(j) = {}
          /\ queued' = queued
      BY <2>5 DEF Flush
    <3>2. Left(j) = {} => \A q \in run[j].ok, i \in run[j].uses : <<i, q>> \notin queued
      <4> SUFFICES ASSUME Left(j) = {}, NEW q \in run[j].ok, NEW i \in run[j].uses,
                          <<i, q>> \in queued
                   PROVE  FALSE
        OBVIOUS
      <4>1. <<i, q>>[1] = i
        OBVIOUS
      <4>2. <<i, q>> \in Left(j)
        BY <4>1 DEF Left
      <4> QED
        BY <4>2
    <3> QED
      BY <3>1, <3>2
  <2>6. ASSUME NEW k \in RetryRuns, SetKafkaFlag(k)
        PROVE  Rest
    <3> SUFFICES ASSUME NEW j \in RetryRuns
                 PROVE  Accounted(j)'
      OBVIOUS
    <3>1. /\ j # k => run'[j] = run[j]
          /\ j = k => /\ run[j].at = "flag" /\ run'[j].at = "close"
                      /\ run'[j].ok = run[j].ok /\ run'[j].bad = run[j].bad
                      /\ run'[j].rows = run[j].rows /\ run'[j].lossy = run[j].lossy
          /\ queued' = queued
      BY <2>6 DEF SetKafkaFlag
    <3> QED
      BY <3>1
  <2>7. ASSUME NEW k \in RetryRuns, CloseProducer(k)
        PROVE  Rest
    <3> SUFFICES ASSUME NEW j \in RetryRuns
                 PROVE  Accounted(j)'
      OBVIOUS
    <3>1. /\ run[j].ok \subseteq Requests /\ run[j] \in RunState
          /\ queued \subseteq RetryRuns \X Requests
      OBVIOUS
    <3>2. CASE j = k
      <4>1. run[j].at = "close" /\ run'[j] = [run[j] EXCEPT !.at = "end"]
        BY <2>7, <3>2 DEF CloseProducer
      <4>2. /\ run'[j].at = "end" /\ run'[j].ok = run[j].ok /\ run'[j].bad = run[j].bad
            /\ run'[j].rows = run[j].rows /\ run'[j].lossy = run[j].lossy
        BY <3>1, <4>1
      <4> QED
        BY <4>1, <4>2
    <3>3. CASE j # k /\ k \in run[j].uses /\ Left(j) # {}
      <4>1. run'[j] = [run[j] EXCEPT !.lossy = TRUE]
        BY <2>7, <3>3 DEF CloseProducer
      <4>2. /\ run'[j].at = run[j].at /\ run'[j].ok = run[j].ok /\ run'[j].bad = run[j].bad
            /\ run'[j].rows = run[j].rows /\ run'[j].lossy
        BY <3>1, <4>1
      <4> QED
        BY <4>2
    <3>4. CASE j # k /\ ~(k \in run[j].uses /\ Left(j) # {})
      <4>1. run'[j] = run[j]
        BY <2>7, <3>4 DEF CloseProducer
      <4>2. ASSUME NEW i \in run[j].uses, NEW q \in Requests, <<i, q>> \in queued
            PROVE  <<i, q>> \in queued'
        <5>1. <<i, q>>[1] = i
          OBVIOUS
        <5>2. <<i, q>> \in Left(j)
          BY <4>2, <5>1 DEF Left
        <5>3. i # k
          BY <3>4, <5>2
        <5> QED
          BY <2>7, <4>2, <5>1, <5>3 DEF CloseProducer
      <4> QED
        BY <3>1, <4>1, <4>2
    <3> QED
      BY <3>2, <3>3, <3>4
  <2> QED
    BY <1>4, <2>1, <2>2, <2>3, <2>4, <2>5, <2>6, <2>7 DEF RetryStep, RunStep
<1> QED
  BY <1>2, <1>3, <1>4 DEF RetryPart

LEMMA AccountStart == AvailTypeOK /\ RetryStart => AccountInv
<1>1. Cardinality({}) = 0
  BY FS_EmptySet
<1> QED
  BY <1>1 DEF RetryStart, NewRun, AccountInv, Accounted, AvailmentRetryTypeOK, RunState

\* The retry beside everything requests do, from any documents, with any number of
\* runs and requests: what a run answers as a success is on the topic unless messages
\* were left behind, though other runs replace and close its producer.
THEOREM RunsAccount ==
    AvailTypeOK /\ RetryStart /\ [][RetryPart]_retryPartVars => []RunAccounts
<1>1. AvailTypeOK /\ RetryStart => AccountInv
  BY AccountStart
<1>2. AccountInv /\ [RetryPart]_retryPartVars => AccountInv'
  BY AccountInductive
<1>3. AccountInv => RunAccounts
  BY DEF AccountInv, Accounted, RunAccounts
<1> QED
  BY <1>1, <1>2, <1>3, PTL

-----------------------------------------------------------------------------
(* Notices.                                                                *)

\* The records a notice may be, and how they are made.
NoticeRecords == [at : Steps, about : {0} \cup LoanIds, loan : {0} \cup LoanIds,
                  unpaid : Pesos, remaining : Pesos, collected : Int,
                  read : BOOLEAN, answered : BOOLEAN]

LEMMA FreshNotice ==
    ASSUME NEW l \in {0} \cup LoanIds
    PROVE  [NoNotice EXCEPT !.at = "start", !.about = l] \in NoticeRecords
<1>1. 0 \in Pesos
  BY NoticeAssumption DEF Pesos
<1>2. NoNotice \in NoticeRecords
  BY <1>1 DEF NoNotice, NoticeRecords, Steps
<1> QED
  BY <1>2 DEF NoticeRecords, Steps

LEMMA FreshReceipt ==
    ASSUME NEW l \in {0} \cup LoanIds, NEW rest \in Pesos, NEW amount \in Int
    PROVE  [NoNotice EXCEPT !.at = "start", !.about = l, !.remaining = rest,
                            !.collected = amount] \in NoticeRecords
<1>1. 0 \in Pesos
  BY NoticeAssumption DEF Pesos
<1>2. NoNotice \in NoticeRecords
  BY <1>1 DEF NoNotice, NoticeRecords, Steps
<1> QED
  BY <1>2 DEF NoticeRecords, Steps

LEMMA LoanInNotice ==
    ASSUME NEW n \in NoticeRecords, NEW l \in {0} \cup LoanIds, NEW a \in {0} \cup LoanIds,
           NEW u \in Pesos
    PROVE  [n EXCEPT !.at = "loan", !.loan = l, !.about = a, !.unpaid = u] \in NoticeRecords
  BY DEF NoticeRecords, Steps

LEMMA AmountsInNotice ==
    ASSUME NEW n \in NoticeRecords, NEW u \in Pesos, NEW c \in Int
    PROVE  [n EXCEPT !.at = "send", !.read = TRUE, !.remaining = u, !.collected = c]
               \in NoticeRecords
  BY DEF NoticeRecords, Steps

\* The unpaid balance of a loan only goes down, and none is lent before it is paid.
LEMMA NoticeTypeInductive ==
    ASSUME NoticeTypeOK, [NoticeNext]_noticeVars
    PROVE  NoticeTypeOK'
<1> USE NoticeAssumption DEF LoanIds, Pesos
<1> notice \in NoticeRecords
  BY DEF NoticeTypeOK, NoticeRecords
<1>1. CASE UNCHANGED noticeVars
  BY <1>1 DEF noticeVars, NoticeTypeOK
<1>2. CASE Lend
  BY <1>2 DEF Lend, Active, NoticeTypeOK
<1>3. ASSUME NEW amount \in Pesos, Collected(amount)
      PROVE  NoticeTypeOK'
  <2>1. /\ lent \in LoanIds /\ balance[lent] \in Pesos /\ amount \in 1 .. balance[lent]
        /\ balance[lent] - amount \in Pesos
    BY <1>3, SMTT(30) DEF Collected, Active, NoticeTypeOK
  <2>2. balance' \in [LoanIds -> Pesos] /\ \A l \in LoanIds : balance'[l] > 0 => l = lent'
    BY <1>3, <2>1, SMTT(30) DEF Collected, NoticeTypeOK
  <2>3. notice' \in NoticeRecords
    <3> amount \in Int
      OBVIOUS
    <3>1. \/ notice' = notice
          \/ notice' = [NoNotice EXCEPT !.at = "start", !.about = lent,
                           !.remaining = balance[lent] - amount, !.collected = amount]
      BY <1>3 DEF Collected
    <3>2. PICK l \in {0} \cup LoanIds, rest \in Pesos : l = lent /\ rest = balance[lent] - amount
      BY <2>1
    <3>3. [NoNotice EXCEPT !.at = "start", !.about = l, !.remaining = rest,
                           !.collected = amount] \in NoticeRecords
      BY FreshReceipt
    <3> HIDE DEF Pesos, LoanIds
    <3> QED
      BY <3>1, <3>2, <3>3
  <2>4. /\ UNCHANGED <<lent, question, followed, outages>>
    BY <1>3 DEF Collected
  <2> QED
    BY <2>2, <2>3, <2>4 DEF NoticeTypeOK, NoticeRecords
<1>4. ASSUME NEW q \in Questions, LoanStatus(q)
      PROVE  NoticeTypeOK'
  <2>1. Active \in {0} \cup LoanIds /\ (Active # 0 => Active = lent)
    BY DEF Active, NoticeTypeOK
  <2>2. ASSUME NEW l \in {0} \cup LoanIds, NEW events, Ask(q, events, l)
        PROVE  notice' \in NoticeRecords
    <3>1. notice' = notice \/ notice' = [NoNotice EXCEPT !.at = "start", !.about = l]
      BY <2>2 DEF Ask
    <3> HIDE DEF Pesos, LoanIds
    <3> QED
      BY <2>2, <3>1, FreshNotice
  <2>3. notice' \in NoticeRecords
    BY <1>4, <2>1, <2>2 DEF LoanStatus, NoticeTypeOK
  <2>4. /\ UNCHANGED <<lent, balance, followed, outages>>
        /\ question' \in [Questions -> {"new", "done"}]
    BY <1>4 DEF LoanStatus, NoticeTypeOK
  <2> QED
    BY <2>3, <2>4 DEF NoticeTypeOK, NoticeRecords
<1>5. ASSUME NEW to \in Steps, Goes(to)
      PROVE  notice' \in NoticeRecords
  BY <1>5 DEF Goes, NoticeRecords
<1>6. ASSUME OnlyNotice, notice' \in NoticeRecords, outages' \in 0 .. MaxOutages
      PROVE  NoticeTypeOK'
  BY <1>6 DEF OnlyNotice, NoticeTypeOK, NoticeRecords
<1>7. outages \in 0 .. MaxOutages /\ (Outage => outages' \in 0 .. MaxOutages)
  BY DEF Outage, NoticeTypeOK
<1>8. CASE NotifyPartial \/ NotifyFull
  <2>1. OnlyNotice /\ outages' = outages /\ \E to \in Steps : Goes(to)
    BY <1>8 DEF NotifyPartial, NotifyFull, Sends, Moves, Steps
  <2> QED
    BY <1>5, <1>6, <1>7, <2>1
<1>9. CASE ReadMessage \/ SendNotice
  <2>1. OnlyNotice /\ outages' = outages /\ \E to \in Steps : Goes(to)
    BY <1>9 DEF ReadMessage, SendNotice, Drops, Moves, Steps
  <2> QED
    BY <1>5, <1>6, <1>7, <2>1
<1>10. CASE ReadLoan
  <2>1. Active \in {0} \cup LoanIds /\ (Active # 0 => Active = lent)
    BY DEF Active, NoticeTypeOK
  <2>2. (IF Active = 0 THEN 0 ELSE balance[lent]) \in Pesos
    BY <2>1 DEF NoticeTypeOK
  <2>3. \/ Goes("loan")
        \/ notice' = [notice EXCEPT !.at = "loan", !.loan = Active,
                        !.about  = IF @ = 0 THEN Active ELSE @,
                        !.unpaid = IF Active = 0 THEN 0 ELSE balance[lent]]
    BY <1>10 DEF ReadLoan
  <2>4. (IF notice.about = 0 THEN Active ELSE notice.about) \in {0} \cup LoanIds
    BY <2>1 DEF NoticeTypeOK
  <2>5. notice' \in NoticeRecords
    <3>1. CASE Goes("loan")
      BY <1>5, <3>1 DEF Steps
    <3>2. CASE ~Goes("loan")
      <4>1. notice' = [notice EXCEPT !.at = "loan", !.loan = Active,
                 !.about  = IF notice.about = 0 THEN Active ELSE notice.about,
                 !.unpaid = IF Active = 0 THEN 0 ELSE balance[lent]]
        BY <2>3, <3>2
      <4> HIDE DEF Pesos, LoanIds
      <4> QED
        BY <2>1, <2>2, <2>4, <4>1, LoanInNotice
    <3> QED
      BY <3>1, <3>2
  <2> QED
    BY <1>6, <1>7, <1>10, <2>5 DEF ReadLoan
<1>11. CASE ReadUnpaid
  <2>1. CASE Goes("send")
    <3>1. notice' \in NoticeRecords
      BY <1>5, <2>1 DEF Steps
    <3> QED
      BY <1>6, <1>7, <1>11, <3>1 DEF ReadUnpaid
  <2>2. CASE ~Goes("send")
    <3>1. notice.about \in LoanIds /\ balance[notice.about] \in Pesos
      BY <1>11, <2>2 DEF ReadUnpaid, NoticeTypeOK
    <3>2. PICK total \in {0, LoanTotal} :
              notice' = [notice EXCEPT !.at = "send", !.read = TRUE,
                                       !.remaining = balance[notice.about],
                                       !.collected = total - balance[notice.about]]
      BY <1>11, <2>2 DEF ReadUnpaid, LatestDoc
    <3>3. notice' \in NoticeRecords
      <4>1. total - balance[notice.about] \in Int
        BY <3>1
      <4> HIDE DEF Pesos, LoanIds
      <4> QED
        BY <3>1, <3>2, <4>1, AmountsInNotice
    <3> QED
      BY <1>6, <1>7, <1>11, <3>3 DEF ReadUnpaid
  <2> QED
    BY <2>1, <2>2
<1>12. CASE Relay
  <2>1. /\ OnlyNotice /\ (outages' = outages \/ Outage)
        /\ \/ \E to \in Steps : Goes(to)
           \/ notice' = [notice EXCEPT !.at = "handed", !.answered = TRUE]
    BY <1>12 DEF Relay, Deliver, HandOver, Ack, Moves, Steps
  <2>2. notice' \in NoticeRecords
    BY <1>5, <2>1 DEF NoticeRecords, Steps
  <2> QED
    BY <1>6, <1>7, <2>1, <2>2
<1> QED
  BY <1>1, <1>2, <1>3, <1>4, <1>8, <1>9, <1>10, <1>11, <1>12 DEF NoticeNext

\* What a notice says of the loan it is about was true when it was read, and the loan
\* document, which is read first, cannot show less than the unpaid balance does later.
AmountInv ==
    /\ NoticeTypeOK
    /\ notice.about <= lent
    /\ notice.at \in {"none", "start", "message", "loan"} => ~notice.read
    /\ notice.read =>
          /\ notice.about # 0
          /\ notice.remaining >= balance[notice.about]
          /\ notice.collected <= LoanTotal - balance[notice.about]
          /\ notice.loan = notice.about => notice.unpaid >= notice.remaining
    /\ ~notice.read /\ notice.loan = notice.about /\ notice.about # 0 =>
          notice.unpaid >= balance[notice.about]

\* A new loan leaves the ones a notice is about alone.
LEMMA LendKeeps ==
    ASSUME AmountInv, Lend
    PROVE  AmountInv'
<1> USE NoticeAssumption DEF AmountInv, NoticeTypeOK, LoanIds, Pesos
<1>1. NoticeTypeOK'
  BY NoticeTypeInductive DEF NoticeNext
<1>2. lent' = lent + 1 /\ balance' = [balance EXCEPT ![lent'] = LoanTotal] /\ notice' = notice
  BY DEF Lend
<1>3. notice.about # 0 => balance'[notice.about] = balance[notice.about]
  BY <1>2
<1> QED
  BY <1>1, <1>2, <1>3

\* A collection leaves less than any notice says.
LEMMA CollectedKeeps ==
    ASSUME AmountInv, NEW amount \in Pesos, Collected(amount)
    PROVE  AmountInv'
<1> USE NoticeAssumption DEF AmountInv, NoticeTypeOK, LoanIds, Pesos
<1>1. NoticeTypeOK'
  BY NoticeTypeInductive DEF NoticeNext
<1>2. /\ lent' = lent /\ lent \in LoanIds /\ balance[lent] \in Pesos
      /\ amount \in 1 .. balance[lent]
      /\ balance' = [balance EXCEPT ![lent] = balance[lent] - amount]
  BY DEF Collected, Active
<1>3. \A l \in LoanIds : balance'[l] <= balance[l] /\ balance'[l] \in Pesos
  BY <1>2
<1>4. CASE notice' = notice
  BY <1>1, <1>2, <1>3, <1>4, SMTT(30)
<1>5. CASE notice' # notice
  <2>1. notice' = [NoNotice EXCEPT !.at = "start", !.about = lent,
                       !.remaining = balance[lent] - amount, !.collected = amount]
    BY <1>5 DEF Collected
  <2>2. notice'.at = "start" /\ ~notice'.read /\ notice'.about = lent /\ notice'.loan = 0
    BY <2>1 DEF NoNotice
  <2> QED
    BY <1>1, <1>2, <2>2, SMTT(30)
<1> QED
  BY <1>4, <1>5

\* A question starts a notice without amounts.
LEMMA LoanStatusKeeps ==
    ASSUME AmountInv, NEW q \in Questions, LoanStatus(q)
    PROVE  AmountInv'
<1> USE NoticeAssumption DEF AmountInv, NoticeTypeOK, LoanIds, Pesos
<1>1. NoticeTypeOK'
  BY NoticeTypeInductive DEF NoticeNext
<1>2. lent' = lent /\ balance' = balance
  BY DEF LoanStatus
<1>3. ASSUME NEW l \in {0, lent}, NEW events, Ask(q, events, l)
      PROVE  \/ notice' = notice
             \/ notice'.at = "start" /\ ~notice'.read /\ notice'.about = l /\ notice'.loan = 0
  BY <1>3 DEF Ask, NoNotice
<1>4. \/ notice' = notice
      \/ notice'.at = "start" /\ ~notice'.read /\ notice'.about \in {0, lent} /\ notice'.loan = 0
  BY <1>3 DEF LoanStatus
<1> QED
  BY <1>1, <1>2, <1>4, SMTT(30)

\* The loan document shows what is unpaid then.
LEMMA ReadLoanKeeps ==
    ASSUME AmountInv, ReadLoan
    PROVE  AmountInv'
<1> USE NoticeAssumption DEF AmountInv, NoticeTypeOK, LoanIds, Pesos
<1>1. NoticeTypeOK'
  BY NoticeTypeInductive DEF NoticeNext
<1>2. lent' = lent /\ balance' = balance /\ notice.at = "message" /\ ~notice.read
  BY DEF ReadLoan, OnlyNotice
<1>3. Active \in {0, lent} /\ (Active # 0 => Active = lent)
  BY DEF Active
<1>4. CASE Goes("loan")
  <2>1. /\ notice'.at = "loan" /\ notice'.read = notice.read /\ notice'.about = notice.about
        /\ notice'.loan = notice.loan /\ notice'.unpaid = notice.unpaid
    BY <1>4 DEF Goes
  <2> QED
    BY <1>1, <1>2, <2>1
<1>5. CASE ~Goes("loan")
  <2>1. /\ notice'.at = "loan" /\ notice'.read = notice.read
        /\ notice'.about = IF notice.about = 0 THEN Active ELSE notice.about
        /\ notice'.loan = Active
        /\ notice'.unpaid = IF Active = 0 THEN 0 ELSE balance[lent]
    BY <1>5 DEF ReadLoan
  <2> QED
    BY <1>1, <1>2, <1>3, <2>1, SMTT(30)
<1> QED
  BY <1>4, <1>5

\* And the unpaid balance cannot show more than the loan document did before.
LEMMA ReadUnpaidKeeps ==
    ASSUME AmountInv, ReadUnpaid
    PROVE  AmountInv'
<1> USE NoticeAssumption DEF AmountInv, NoticeTypeOK, LoanIds, Pesos
<1>1. NoticeTypeOK'
  BY NoticeTypeInductive DEF NoticeNext
<1>2. lent' = lent /\ balance' = balance /\ notice.at = "loan" /\ ~notice.read
  BY DEF ReadUnpaid, OnlyNotice
<1>3. CASE Goes("send")
  <2>1. /\ notice'.at = "send" /\ notice'.read = notice.read /\ notice'.about = notice.about
        /\ notice'.loan = notice.loan /\ notice'.unpaid = notice.unpaid
    BY <1>3 DEF Goes
  <2> QED
    BY <1>1, <1>2, <2>1
<1>4. CASE ~Goes("send")
  <2>1. notice.about # 0 /\ notice.about \in LoanIds
    BY <1>4 DEF ReadUnpaid
  <2>2. PICK total \in {0, LoanTotal} :
            notice' = [notice EXCEPT !.at = "send", !.read = TRUE,
                                     !.remaining = balance[notice.about],
                                     !.collected = total - balance[notice.about]]
    BY <1>4 DEF ReadUnpaid, LatestDoc
  <2>3. /\ notice'.about = notice.about /\ notice'.at = "send"
        /\ notice'.remaining = balance[notice.about]
        /\ notice'.collected = total - balance[notice.about]
        /\ notice'.loan = notice.loan /\ notice'.unpaid = notice.unpaid
    BY <2>2
  <2> QED
    BY <1>1, <1>2, <2>1, <2>3, SMTT(30)
<1> QED
  BY <1>3, <1>4

\* The rest only moves the notice.
LEMMA MovesKeep ==
    ASSUME AmountInv,
           NotifyPartial \/ NotifyFull \/ ReadMessage \/ SendNotice \/ Relay
    PROVE  AmountInv'
<1> USE NoticeAssumption DEF AmountInv, NoticeTypeOK
<1>1. NoticeTypeOK'
  BY NoticeTypeInductive DEF NoticeNext
<1>2. /\ lent' = lent /\ balance' = balance
      /\ notice'.read = notice.read /\ notice'.about = notice.about
      /\ notice'.loan = notice.loan /\ notice'.unpaid = notice.unpaid
      /\ notice'.remaining = notice.remaining /\ notice'.collected = notice.collected
  BY ZenonT(60) DEF NotifyPartial, NotifyFull, Sends, ReadMessage, SendNotice, Relay, Deliver, HandOver,
         Ack, Outage, Drops, Moves, Goes, OnlyNotice
<1>3. notice'.at \in {"none", "start", "message", "loan"} =>
          notice.at \in {"none", "start", "message", "loan"}
  <2>1. CASE NotifyPartial \/ NotifyFull \/ ReadMessage
    <3>1. notice.at = "start"
      BY <2>1 DEF NotifyPartial, NotifyFull, Sends, ReadMessage, Drops, Moves
    <3> QED
      BY <3>1
  <2>2. CASE SendNotice \/ Relay
    <3>1. notice'.at \in {"topic", "dropped", "relay", "handed", "acked"}
      BY <2>2 DEF SendNotice, Relay, Deliver, HandOver, Ack, Moves, Goes
    <3> QED
      BY <3>1
  <2> QED
    BY <2>1, <2>2
<1> QED
  BY <1>1, <1>2, <1>3

LEMMA AmountInductive ==
    ASSUME AmountInv, [NoticeNext]_noticeVars
    PROVE  AmountInv'
<1>1. CASE UNCHANGED noticeVars
  BY <1>1 DEF noticeVars, AmountInv, NoticeTypeOK
<1> QED
  BY <1>1, LendKeeps, CollectedKeeps, LoanStatusKeeps, ReadLoanKeeps, ReadUnpaidKeeps,
     MovesKeep DEF NoticeNext

LEMMA AmountStart == NoticeInit => AmountInv
  BY NoticeAssumption DEF NoticeInit, NoNotice, AmountInv, NoticeTypeOK, LoanIds, Pesos, Steps

\* Any notice, of any number of loans and collections, never says that less is unpaid
\* or more collected than is true, and its amounts fit each other.
THEOREM AmountsHold == NoticeSpec => []AmountsNotBetter
<1>1. AmountInv /\ [NoticeNext]_noticeVars => AmountInv'
  BY AmountInductive
<1>2. AmountInv => AmountsNotBetter
  BY DEF AmountInv, AmountsNotBetter
<1> QED
  BY AmountStart, <1>1, <1>2, PTL DEF NoticeSpec

-----------------------------------------------------------------------------
(* The parts together.                                                     *)

LEMMA PartStart == PartInit => AvailmentTypeOK
<1> SUFFICES ASSUME PartInit PROVE AvailmentTypeOK
  OBVIOUS
<1>1. AvailTypeOK
  BY DEF PartInit, Stored, AvailInit, AvailTypeOK, Ended, Kept, Running, Holding
<1>2. AvailmentRetryTypeOK
  BY <1>1, AccountStart DEF PartInit, AccountInv
<1>3. NoticeTypeOK
  BY AmountStart DEF PartInit, AmountInv
<1> QED
  BY <1>1, <1>2, <1>3 DEF AvailmentTypeOK

\* The variables of every part keep their types.
THEOREM AvailmentTypeCorrect == PartSpec => []AvailmentTypeOK
<1>1. ASSUME AvailmentTypeOK, [PartNext]_partVars
      PROVE  AvailmentTypeOK'
  <2> USE <1>1 DEF AvailmentTypeOK
  <2>1. ASSUME UNCHANGED availVars
        PROVE  AvailTypeOK'
    BY <2>1, AvailTypeInductive
  <2>2. ASSUME UNCHANGED retryVars
        PROVE  AvailmentRetryTypeOK'
    BY <2>2 DEF AvailmentRetryTypeOK, retryVars
  <2>3. ASSUME UNCHANGED noticeVars
        PROVE  NoticeTypeOK'
    BY <2>3, NoticeTypeInductive
  <2>4. CASE UNCHANGED partVars
    BY <2>1, <2>2, <2>3, <2>4 DEF partVars
  <2>5. CASE AvailNext /\ UNCHANGED <<retryVars, noticeVars>>
    BY <2>2, <2>3, <2>5, AvailTypeInductive
  <2>6. CASE RetryStep /\ UNCHANGED noticeVars
    BY <2>3, <2>6, OnlyReports, RetryTypeInductive DEF RetryPart
  <2>7. ASSUME NEW r \in Requests, PublisherStep(r), UNCHANGED <<retryVars, noticeVars>>
        PROVE  AvailmentTypeOK'
    BY <2>2, <2>3, <2>7, AvailTypeInductive DEF AvailNext
  <2>8. CASE NoticeNext /\ UNCHANGED <<availVars, retryVars>>
    BY <2>1, <2>2, <2>8, NoticeTypeInductive
  <2> QED
    BY <2>4, <2>5, <2>6, <2>7, <2>8 DEF PartNext
<1> QED
  BY PartStart, <1>1, PTL DEF PartSpec

\* And the runs of a retry account for their rows in every state.
COROLLARY PartRunsAccount == PartSpec => []RunAccounts
<1>1. PartInit => AvailTypeOK /\ RetryStart
  BY PartStart DEF PartInit, AvailmentTypeOK
<1>2. [PartNext]_partVars => [RetryPart]_retryPartVars
  BY DEF PartNext, RetryPart, retryPartVars, partVars, AvailNext
<1> QED
  BY <1>1, <1>2, RunsAccount, PTL DEF PartSpec
=============================================================================
