----------------------------- MODULE LoanLedger -----------------------------
(***************************************************************************)
(* What data collection promises about a loan, whatever messages, entries  *)
(* and handlers it takes: what is owed and what has been collected always  *)
(* add up to what was lent, in one step, and a loan is closed exactly when *)
(* the last peso is collected.                                             *)
(***************************************************************************)
EXTENDS Naturals

CONSTANTS Loans, Amounts

VARIABLES
    status,      \* "none", "open" or "closed"
    owed,        \* pesos still unpaid
    collected    \* pesos collected

ledgerVars == <<status, owed, collected>>

LedgerInit ==
    /\ status = [l \in Loans |-> "none"]
    /\ owed = [l \in Loans |-> 0]
    /\ collected = [l \in Loans |-> 0]

Grant(l) ==
    /\ status[l] = "none"
    /\ \E p \in Amounts : owed' = [owed EXCEPT ![l] = p]
    /\ status' = [status EXCEPT ![l] = "open"]
    /\ UNCHANGED collected

Collect(l) ==
    /\ status[l] = "open"
    /\ \E p \in 1..owed[l] :
          /\ owed' = [owed EXCEPT ![l] = @ - p]
          /\ collected' = [collected EXCEPT ![l] = @ + p]
          /\ status' = [status EXCEPT ![l] = IF p = owed[l] THEN "closed" ELSE "open"]

LedgerNext == \E l \in Loans : Grant(l) \/ Collect(l)

LedgerSpec == LedgerInit /\ [][LedgerNext]_ledgerVars
=============================================================================
