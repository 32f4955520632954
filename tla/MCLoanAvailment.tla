-------------------------- MODULE MCLoanAvailment --------------------------
(***************************************************************************)
(* Finite instances of LoanAvailment, AvailmentRetry and Notices.  A       *)
(* behaviour has one part: requests from their beginning, a retry beside   *)
(* the publishers of requests that have ended, or a notice, which shares   *)
(* no state with the other two.                                            *)
(***************************************************************************)
EXTENDS AvailmentRetry, Notices, TLC

CONSTANTS r1, r2, r3, r4, s1, s2, k1, k2, q1,
    Parts \* the parts of an instance

VARIABLE part

partVars == <<availVars, retryVars, noticeVars, part>>

\* All requests are for one subscriber, and interchangeable.
OneSubscriber == [r \in Requests |-> s1]
AvailSymmetry == Permutations(Requests)

\* At most two requests have stored their outcome; their publishers are at work, or
\* have failed before.
Stored ==
    \E old \in SUBSET Requests :
        /\ Cardinality(old) \in 1 .. 2
        /\ req = [r \in Requests |-> IF r \in old THEN "done" ELSE "new"]
        /\ pub \in [Requests -> {"none", "report", "done"}]
        /\ \A r \in Requests : r \in old <=> pub[r] # "none"
        /\ locks = {} /\ provisioned = old
        /\ availment = [r \in Requests |-> IF r \in old THEN "success" ELSE "none"]
        /\ loan = [r \in Requests |-> IF r \in old THEN "closed" ELSE "none"]
        /\ unpaid = old /\ reported = {} /\ anonymous = {} /\ flagged = {}

PartInit ==
    /\ part \in Parts
    /\ IF part = "retry" THEN Stored ELSE AvailInit
    /\ RetryStart
    /\ NoticeInit /\ (part = "notices" \/ followed = <<1, 0>>)

PartNext ==
    /\ UNCHANGED part
    /\ \/ part = "requests" /\ AvailNext /\ UNCHANGED <<retryVars, noticeVars>>
       \/ /\ part = "retry" /\ UNCHANGED noticeVars
          /\ RetryStep \/ \E r \in Requests : PublisherStep(r) /\ UNCHANGED retryVars
       \/ part = "notices" /\ NoticeNext /\ UNCHANGED <<availVars, retryVars>>

PartSpec == PartInit /\ [][PartNext]_partVars

\* The variables of every part keep their types; there is one global producer, and
\* only the loan lent last is unpaid.
AvailmentTypeOK == AvailTypeOK /\ AvailmentRetryTypeOK /\ NoticeTypeOK
=============================================================================
