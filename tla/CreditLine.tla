----------------------------- MODULE CreditLine -----------------------------
(***************************************************************************)
(* What loan-availment promises a subscriber, whatever requests, locks,    *)
(* calls and instances it takes: he draws on his credit only while nothing *)
(* he has drawn is outstanding, what he draws becomes one loan or is lost  *)
(* to the service, a loan is repaid once, and only a loan is announced.    *)
(***************************************************************************)
CONSTANTS
    Requests,
    BorrowerOf,  \* who draws with a request
    Forgetful    \* whether a draw that was lost stops counting

VARIABLES
    credit,      \* "none", "drawn", "lost", "lent" or "repaid", for each request
    announced    \* requests announced as successful

creditVars == <<credit, announced>>

Outstanding == {"drawn", "lent"} \cup (IF Forgetful THEN {} ELSE {"lost"})

CreditInit ==
    /\ credit = [r \in Requests |-> "none"]
    /\ announced = {}

\* The borrower knows of what he draws; the lender may not.
Draw(r) ==
    /\ credit[r] = "none"
    /\ \A q \in Requests : BorrowerOf[q] = BorrowerOf[r] => credit[q] \notin Outstanding
    /\ \E outcome \in {"drawn", "lost"} : credit' = [credit EXCEPT ![r] = outcome]
    /\ UNCHANGED announced

Lend(r) ==
    /\ credit[r] = "drawn"
    /\ credit' = [credit EXCEPT ![r] = "lent"]
    /\ UNCHANGED announced

\* Several draws may be lost together.
Lose ==
    /\ \E lost \in SUBSET {r \in Requests : credit[r] = "drawn"} :
          credit' = [r \in Requests |-> IF r \in lost THEN "lost" ELSE credit[r]]
    /\ UNCHANGED announced

Repay(r) ==
    /\ credit[r] = "lent"
    /\ credit' = [credit EXCEPT ![r] = "repaid"]
    /\ UNCHANGED announced

Announce(r) ==
    /\ credit[r] \in {"lent", "repaid"}
    /\ announced' = announced \cup {r}
    /\ UNCHANGED credit

CreditNext == Lose \/ \E r \in Requests : Draw(r) \/ Lend(r) \/ Repay(r) \/ Announce(r)

CreditSpec == CreditInit /\ [][CreditNext]_creditVars
=============================================================================
