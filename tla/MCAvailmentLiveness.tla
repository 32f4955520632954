------------------------ MODULE MCAvailmentLiveness ------------------------
(***************************************************************************)
(* The parts of MCLoanAvailment, and the report of a day, when calls end.  *)
(***************************************************************************)
EXTENDS MCLoanAvailment, AvailmentReport

CONSTANTS p1, p2

LiveInit ==
    /\ PartInit
    /\ ReportInit /\ (part = "report" \/ clock = MaxNow)

LiveNext ==
    \/ PartNext /\ UNCHANGED reportVars
    \/ /\ part = "report" /\ ReportNext
       /\ UNCHANGED <<availVars, retryVars, noticeVars, part>>

LiveSpec ==
    /\ LiveInit /\ [][LiveNext]_<<partVars, reportVars>>
    /\ AvailFairness /\ RetryFairness /\ NoticeFairness /\ ReportFairness

\* What runs in the background ends: a retry, the way of a notice to the gateway
\* (and an answer), and a report, whose chunks and attempts are bounded.
JobsEnd == RetryRunEnds /\ NoticeSettled /\ ReportEnds
=============================================================================
