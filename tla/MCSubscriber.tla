----------------------------- MODULE MCSubscriber -----------------------------
(***************************************************************************)
(* Finite instances of the parts that stand on their own: the periods of   *)
(* a loan, the lists, the fee and the wallet, and the report of a day.     *)
(* They share no state, so that a behaviour has one part.                  *)
(***************************************************************************)
EXTENDS SkipPeriods, SubscriberLists, FeeSplit, MCWalletCheck,
        AvailmentReport, TLC

CONSTANTS n1, n2, b1, b2, w1, w2, a1, a2, p1, p2,
    Parts \* the parts of an instance

VARIABLE part

subscriberVars == <<skipVars, listVars, feeVars, walletVars, reportVars, part>>

\* Two lists of the blacklisted and two of the product.
FileKind == [f \in Files |-> IF f \in {b1, b2} THEN "black" ELSE "white"]
FileName == b1 :> "b1" @@ b2 :> "b2" @@ w1 :> "product" @@ w2 :> "product"
FileRows ==
    b1 :> {<<n1, "short">>, <<n2, "bad">>}  @@ b2 :> {<<n1, "short">>, <<n2, "short">>} @@
    w1 :> {<<n1, "short">>, <<n2, "long">>} @@ w2 :> {<<n1, "short">>}
Number   == a1 :> n1 @@ a2 :> n2

\* Bound: any three of the four files come.
ThreeFiles == fresh # {}

\* Bound: the reports begin in the last hours before the turn of the day in Manila
\* or after it; either p1 or both are given a day, or none.
FromTheEvening ==
    clock = 3 * Day - Offset - 2 /\ (report[p2].asked # NoDay => report[p1].asked # NoDay)

PartInit ==
    /\ part \in Parts
    /\ SkipInit /\ (part = "periods" \/ loan = NoLoan)
    /\ ListInit
    /\ FeeInit /\ (part = "fee" \/ (debt.total = 1 /\ debt.fee = 0))
    /\ WalletInit /\ (part = "wallet" \/ (unit = 1000 /\ amount = 1))
    /\ ReportInit
    /\ IF part = "report" THEN FromTheEvening
       ELSE clock = MaxNow /\ \A k \in Reports : report[k].asked = NoDay

PartNext ==
    /\ UNCHANGED part
    /\ \/ part = "periods" /\ SkipNext /\ UNCHANGED <<listVars, feeVars, walletVars, reportVars>>
       \/ part = "lists" /\ ListNext /\ UNCHANGED <<skipVars, feeVars, walletVars, reportVars>>
       \/ part = "fee" /\ FeeNext /\ UNCHANGED <<skipVars, listVars, walletVars, reportVars>>
       \/ part = "wallet" /\ WalletNext /\ UNCHANGED <<skipVars, listVars, feeVars, reportVars>>
       \/ part = "report" /\ ReportNext /\ UNCHANGED <<skipVars, listVars, feeVars, walletVars>>

PartSpec == PartInit /\ [][PartNext]_subscriberVars

\* The variables of every part keep their types; a wallet never goes below zero, and
\* a message with the worker has its loan.
SubscriberTypeOK == SkipTypeOK /\ ListTypeOK /\ FeeTypeOK /\ WalletTypeOK /\ ReportTypeOK
=============================================================================
