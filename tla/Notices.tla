------------------------------- MODULE Notices -------------------------------
(***************************************************************************)
(* The SMS a subscriber gets.  loan-availment answers a question about the *)
(* status of a loan with a notice, which a goroutine of its own composes   *)
(* from the documents it finds then; the worker sends one after each       *)
(* collection.  notification-service takes them from the topic and hands   *)
(* them to the SMS gateway.  Meanwhile the loan is collected, closed and   *)
(* followed by another.  Notices do not touch each other, so that a        *)
(* behaviour follows one of them, any one.  Texts are left out.            *)
(***************************************************************************)
EXTENDS Integers

CONSTANTS
    Questions,      \* status requests of one subscriber
    NoticeLoans,    \* bound: loans, one after the other
    LoanTotal,      \* what each amounts to
    MaxOutages,     \* bound: calls of the gateway, and acks, that fail
    NoticeTroubles  \* mongo, pubsub, profile, gateway: a call fails; crash: an
                    \* instance dies

ASSUME NoticeAssumption ==
    /\ NoticeLoans \in Nat \ {0} /\ LoanTotal \in Nat \ {0} /\ MaxOutages \in Nat
    /\ NoticeTroubles \subseteq {"mongo", "pubsub", "profile", "gateway", "crash"}

VARIABLES
    lent,     \* loans so far; they follow each other
    balance,  \* what is unpaid of each
    question, \* where each request is
    followed, \* the notice that is followed, by what it is about
    notice,   \* where it is and what it says
    outages   \* failures of gateway and acks so far

noticeVars == <<lent, balance, question, followed, notice, outages>>

LoanIds == 1 .. NoticeLoans
Pesos   == 0 .. LoanTotal

\* Notices by what they answer, or by the collection they tell of.
Answers  == Questions \X {"found", "missing", "brand", "downstream"}
Receipts == LoanIds \X (0 .. (LoanTotal - 1))
Slots    == Answers \cup Receipts

\* about: the loan given to NotifyUser; loan, unpaid: the loan document it read;
\* remaining, collected: from the unpaid balance document, if that was read.
NoNotice == [at |-> "none", about |-> 0, loan |-> 0, unpaid |-> 0, remaining |-> 0,
             collected |-> 0, read |-> FALSE, answered |-> FALSE]
Steps    == {"none", "start", "message", "loan", "send", "topic", "relay", "handed",
             "acked", "dropped"}

NoticeTypeOK ==
    /\ lent \in {0} \cup LoanIds /\ balance \in [LoanIds -> Pesos]
    /\ question \in [Questions -> {"new", "done"}]
    /\ followed \in Slots
    /\ notice \in [at : Steps, about : {0} \cup LoanIds, loan : {0} \cup LoanIds,
                   unpaid : Pesos, remaining : Pesos, collected : Int,
                   read : BOOLEAN, answered : BOOLEAN]
    /\ outages \in 0 .. MaxOutages
    /\ \A l \in LoanIds : balance[l] > 0 => l = lent

NoticeInit ==
    /\ lent = 0 /\ balance = [l \in LoanIds |-> 0]
    /\ question = [q \in Questions |-> "new"]
    /\ followed \in Slots /\ notice = NoNotice
    /\ outages = 0

Broken(t) == t \in NoticeTroubles
Goes(to)        == notice' = [notice EXCEPT !.at = to]
Moves(from, to) == notice.at = from /\ Goes(to)

-----------------------------------------------------------------------------
(* The loan.                                                               *)

\* The active loan, if there is one.
Active == IF lent > 0 /\ balance[lent] > 0 THEN lent ELSE 0

Lend ==
    /\ Active = 0 /\ lent < NoticeLoans
    /\ lent' = lent + 1 /\ balance' = [balance EXCEPT ![lent'] = LoanTotal]
    /\ UNCHANGED <<question, followed, notice, outages>>

\* The worker collects a part of the loan, or the rest, and goes on to the notice;
\* its amounts are those of the message.
Collected(amount) ==
    /\ Active # 0 /\ amount \in 1 .. balance[lent]
    /\ LET rest == balance[lent] - amount IN
       /\ balance' = [balance EXCEPT ![lent] = rest]
       /\ notice' = IF followed = <<lent, rest>>
                    THEN [NoNotice EXCEPT !.at = "start", !.about = lent,
                                          !.remaining = rest, !.collected = amount]
                    ELSE notice
    /\ UNCHANGED <<lent, question, followed, outages>>

OnlyNotice == UNCHANGED <<lent, balance, question, followed>>

\* The publish, or an error on the way there, which is only logged.
Sends ==
    /\ \/ Moves("start", "topic")
       \/ (Broken("mongo") \/ Broken("pubsub") \/ Broken("crash")) /\ Moves("start", "dropped")
    /\ OnlyNotice /\ UNCHANGED outages

\* notifyPartial, buildPartialNotification; and the same of a full collection, which
\* panics without its message.
NotifyPartial == followed \in Receipts /\ followed[2] > 0 /\ Sends
NotifyFull    == followed \in Receipts /\ followed[2] = 0 /\ Sends

-----------------------------------------------------------------------------
(* The questions.                                                          *)

Ask(q, events, loan) ==
    notice' = IF followed \in {q} \X events
              THEN [NoNotice EXCEPT !.at = "start", !.about = loan] ELSE notice

\* Without a loan the profile is read, then the brand: an error of either is told,
\* and what follows goes on all the same.
AfterProfile ==
    {{"missing"}} \cup
    (IF Broken("profile") THEN {{"brand", "missing"}, {"downstream", "brand", "missing"}} ELSE {})

\* LoanStatus.  The product of a loan may not be read, after the request was
\* answered: then there is no notice.
LoanStatus(q) ==
    /\ question[q] = "new" /\ question' = [question EXCEPT ![q] = "done"]
    /\ \/ Active # 0 /\ Ask(q, {"found"}, lent)
       \/ Active = 0 /\ \E events \in AfterProfile : Ask(q, events, 0)
       \/ Broken("mongo") /\ UNCHANGED notice
    /\ UNCHANGED <<lent, balance, followed, outages>>

Drops(from) == (Broken("mongo") \/ Broken("crash")) /\ Moves(from, "dropped")

\* NotifyUser: the rules, and GetMessageID.
ReadMessage ==
    /\ followed \in Answers
    /\ Moves("start", "message") \/ Drops("start")
    /\ OnlyNotice /\ UNCHANGED outages

\* The loan of the number, if there is one by then and it can be read.
ReadLoan ==
    /\ notice.at = "message"
    /\ \/ notice' = [notice EXCEPT !.at = "loan", !.loan = Active,
                        !.about  = IF @ = 0 THEN Active ELSE @,
                        !.unpaid = IF Active = 0 THEN 0 ELSE balance[lent]]
       \/ Broken("mongo") /\ Goes("loan")
    /\ OnlyNotice /\ UNCHANGED outages

\* Mutant: the first version of the document is read.
FirstDoc(l) == [total |-> LoanTotal, unpaid |-> LoanTotal]

\* UnpaidLoansByFilter: the latest version.  That of a partial collection comes
\* without the total.
LatestDoc(l) == [total  |-> IF balance[l] \in 1 .. (LoanTotal - 1) THEN 0 ELSE LoanTotal,
                 unpaid |-> balance[l]]

\* Without the document the amounts are zero.
ReadUnpaid ==
    /\ notice.at = "loan"
    /\ \/ /\ notice.about # 0
          /\ LET doc == LatestDoc(notice.about) IN
             notice' = [notice EXCEPT !.at = "send", !.read = TRUE, !.remaining = doc.unpaid,
                                      !.collected = doc.total - doc.unpaid]
       \/ (notice.about = 0 \/ Broken("mongo")) /\ Goes("send")
    /\ OnlyNotice /\ UNCHANGED outages

\* sendNotificationToPubSub, with thirty seconds; its error is only logged.
SendNotice ==
    /\ \/ Moves("send", "topic")
       \/ (Broken("pubsub") \/ Broken("crash")) /\ Moves("send", "dropped")
    /\ OnlyNotice /\ UNCHANGED outages

-----------------------------------------------------------------------------
(* notification-service.                                                   *)

\* The topic delivers in any order.
Deliver == Moves("topic", "relay") /\ OnlyNotice /\ UNCHANGED outages

Outage == outages < MaxOutages /\ outages' = outages + 1

\* Mutant: the message is acked however the gateway answers.
HandOverAlways ==
    /\ notice.at = "relay"
    /\ \/ notice' = [notice EXCEPT !.at = "handed", !.answered = TRUE] /\ UNCHANGED outages
       \/ Broken("gateway") /\ Outage /\ Goes("handed")
    /\ OnlyNotice

\* HandleMessage and SendSOAPRequest: with no answer, another status than 200 or
\* one it cannot read the message is nacked, though the SMS may be out.  What the
\* answer says is not looked at.
HandOver ==
    /\ notice.at = "relay"
    /\ \/ notice' = [notice EXCEPT !.at = "handed", !.answered = TRUE] /\ UNCHANGED outages
       \/ Broken("gateway") /\ Outage /\ Goes("topic")
    /\ OnlyNotice

\* Ack, or the instance dies before: the message is delivered, and the SMS may be
\* sent, once more.
Ack ==
    /\ \/ Moves("handed", "acked") /\ UNCHANGED outages
       \/ Broken("crash") /\ Outage /\ Moves("handed", "topic")
       \/ Broken("crash") /\ Outage /\ Moves("relay", "topic")
    /\ OnlyNotice

Relay == Deliver \/ HandOver \/ Ack

NoticeNext ==
    \/ Lend
    \/ \E amount \in Pesos : Collected(amount)
    \/ \E q \in Questions : LoanStatus(q)
    \/ NotifyPartial \/ NotifyFull
    \/ ReadMessage \/ ReadLoan \/ ReadUnpaid \/ SendNotice \/ Relay

NoticeSpec == NoticeInit /\ [][NoticeNext]_noticeVars

\* Pub/Sub goes on delivering what is not acked, and calls of the gateway end.
NoticeFairness == WF_noticeVars(Relay)

-----------------------------------------------------------------------------
(* Properties.                                                             *)

Published == notice.at \in {"topic", "relay", "handed", "acked"}

\* A notice never says that less is unpaid, or more collected, than is true when it
\* goes out, and its two amounts, read apart, fit each other: whatever is collected
\* between the reads and after them.  (It may say that less was collected, even
\* less than nothing, after a partial collection.)
AmountsNotBetter ==
    Published /\ notice.read =>
        /\ notice.remaining >= balance[notice.about]
        /\ notice.collected <= LoanTotal - balance[notice.about]
        /\ notice.loan = notice.about => notice.unpaid >= notice.remaining

\* A notice on the topic is acked in the end, since outages pass, and not before the
\* gateway has answered, however often it was nacked or taken by an instance that died.
NoticeSettled == notice.at = "topic" ~> notice.at = "acked" /\ notice.answered
=============================================================================
