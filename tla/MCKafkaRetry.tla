--------------------------- MODULE MCKafkaRetry ---------------------------
(***************************************************************************)
(* Finite instances of KafkaRetry.                                         *)
(***************************************************************************)
EXTENDS KafkaRetry, TLC

\* Collections are interchangeable, and so are goroutines.
RetrySymmetry == Permutations(Docs) \cup Permutations(Goroutines)
=============================================================================
