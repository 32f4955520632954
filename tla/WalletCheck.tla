---------------------------- MODULE WalletCheck ----------------------------
(***************************************************************************)
(* The units of one collection in promo-collection-worker.  The debit is   *)
(* sent as MB * 1000 KB; when its answer is lost, the bucket's remaining   *)
(* KB / 1024 is subtracted from the wallet amount of the promo event to    *)
(* learn whether it happened, and it is sent again when it seems not to    *)
(* have.  Nothing else moves the wallet here.                              *)
(***************************************************************************)
EXTENDS Naturals

CONSTANTS
    Units,        \* KB per MB by which the network filled in the event
    Amounts,      \* WALLET_AMOUNT of the event, MB
    Deductions    \* dataToBeDeducted, MB

ASSUME WalletAssumption ==
    /\ Units \subseteq 1000..1024
    /\ Amounts \subseteq Nat
    /\ Deductions \subseteq Nat \ {0}

VARIABLES
    unit, amount, deduct,   \* what this collection is about
    volume,                 \* KB left in the bucket
    debits,                 \* debits that took place
    state                   \* where the collection has got to

walletVars == <<unit, amount, deduct, volume, debits, state>>

States == {"debit", "check", "retry", "booked", "failed"}

\* What the debit asks for, in KB.
Request == deduct * 1000

\* promo-collection never deducts more than the wallet of the event holds.
WalletInit ==
    /\ unit \in Units /\ amount \in Amounts /\ deduct \in Deductions
    /\ deduct <= amount
    /\ volume = amount * unit
    /\ debits = 0
    /\ state = "debit"

\* Mutant: the wallet goes below zero.
DebitOverdrawn ==
    /\ volume' = volume - Request
    /\ debits' = debits + 1

\* The wallet gives what it holds.
Debit == /\ volume >= Request
         /\ volume' = volume - Request
         /\ debits' = debits + 1
NoDebit == UNCHANGED <<volume, debits>>

\* RequestWallet gets an answer: debited, or refused for want of balance.
DebitAnswered ==
    /\ state \in {"debit", "retry"}
    /\ \/ Debit /\ state' = "booked"
       \/ volume < Request /\ NoDebit /\ state' = "failed"
    /\ UNCHANGED <<unit, amount, deduct>>

\* RequestWallet gets none.
DebitUnanswered ==
    /\ state \in {"debit", "retry"}
    /\ Debit \/ NoDebit
    /\ state' = "check"
    /\ UNCHANGED <<unit, amount, deduct>>

\* Mutants: what is left is taken for what is gone; a wallet that seems to
\* have moved less than the deduction counts as well.
LooksDebitedAlways   == volume <= amount * 1024
LooksDebitedAtTwice  == amount * 1024 >= volume + 2 * deduct * 1024

\* walletAmount - volumeRemaining / 1024 >= dataToBeDeducted
LooksDebited == amount * 1024 >= volume + deduct * 1024

\* CheckAndProcessBalance: the success handler, or the error that makes
\* RequestWallet return the message to the topic.
CheckBalance ==
    /\ state = "check"
    /\ state' = IF LooksDebited THEN "booked" ELSE "retry"
    /\ UNCHANGED <<unit, amount, deduct, volume, debits>>

WalletNext == DebitAnswered \/ DebitUnanswered \/ CheckBalance

WalletSpec == WalletInit /\ [][WalletNext]_walletVars

WalletTypeOK ==
    /\ unit \in Units /\ amount \in Amounts /\ deduct \in Deductions
    /\ volume \in Nat
    /\ debits \in Nat
    /\ state \in States

-----------------------------------------------------------------------------
\* However often the answer is lost, the wallet is debited at most twice, and
\* at most once if the event counts 1000 KB to the MB, as the debit does.
DebitsBounded == debits <= 2 /\ (unit = 1000 => debits <= 1)

\* The difference of the two units passes for the deduction once the wallet
\* is large enough: 24 KB for every MB it holds.
Modest == amount * (1024 - unit) < deduct * 1024

\* A collection is stored only for a debit that took place, in a wallet that
\* is modest for its unit.
BookedWasDebited == state = "booked" /\ Modest => debits >= 1

\* error_messages.go calls the error that returns the message to the topic
\* "deduction didn't happen".
DidntHappen == state = "retry" => debits = 0
=============================================================================
