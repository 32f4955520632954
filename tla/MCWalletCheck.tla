--------------------------- MODULE MCWalletCheck ---------------------------
(***************************************************************************)
(* Instances of WalletCheck.  43 MB is where a wallet stops being modest   *)
(* for a deduction of 1 MB counted in thousands.                           *)
(***************************************************************************)
EXTENDS WalletCheck

MCUnits      == {1000, 1024}
MCAmounts    == 1..45
MCDeductions == {1, 2, 20}
=============================================================================
