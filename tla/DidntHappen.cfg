\* An event that counts 1024 KB to the MB, as the balance check does.
SPECIFICATION WalletSpec

CONSTANTS
    Units = {1024}
    Amounts <- MCAmounts
    Deductions <- MCDeductions

\* A collection ends.
CHECK_DEADLOCK FALSE

INVARIANTS
    DidntHappen
